SPECIFICATION FairSpec
CONSTANTS
    a = a
    Keys = {a}
    SysKeys = {}
    Vers = {1}
    Bind = Bind
    OtherIP = OtherIP
    Absent = Absent
    ChanCap = 2
    MaxRev = 2
INVARIANTS TypeOK NoLostWakeup ShownMeansWritten
PROPERTIES IngressKept ReportedChangeIsListed LoopKeepsGoing
CHECK_DEADLOCK FALSE

SPECIFICATION FairSpec
CONSTANTS
    a = a
    Keys = {a}
    SysKeys = {}
    Vers = {1}
    Bind = Bind
    OtherIP = OtherIP
    Absent = Absent
    ChanCap = 2
    MaxRev = 2
PROPERTY WaitingJobRuns
CHECK_DEADLOCK FALSE

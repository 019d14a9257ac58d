SPECIFICATION MCSpec
CONSTANTS
    a = a
    Keys = {a}
    SysKeys = {a}
    Vers = {1, 2}
    Bind = Bind
    OtherIP = OtherIP
    Absent = Absent
    ChanCap = 2
    MaxRev = 2
    MaxFaults = 1
INVARIANTS NoLostWakeup ShownMeansWritten
PROPERTIES KernelFollowsApi StatusPursued AnnouncedWhenServed
CHECK_DEADLOCK FALSE

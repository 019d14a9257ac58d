SPECIFICATION Spec
CONSTANTS
    vip = vip
    oldVip = oldVip
    pod1 = pod1
    pod2 = pod2
    s1 = s1
    s2 = s2
    VIP = vip
    Inputs <- BothInputs
    InitialVSs <- MCInitialVSs
    RealServers <- BothRealServers
    Strangers <- MCStrangers
    MaxFaults = 0
    MaxChanges = 0
INVARIANT PortsMatchByName

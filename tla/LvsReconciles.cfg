SPECIFICATION FairSpec
CONSTANTS
    vip = vip
    oldVip = oldVip
    pod1 = pod1
    pod2 = pod2
    s1 = s1
    s2 = s2
    VIP = vip
    Inputs <- MCInputs
    InitialVSs <- MCInitialVSs
    RealServers <- MCRealServers
    Strangers <- MCStrangers
    MaxFaults = 2
    MaxChanges = 1
INVARIANTS TypeOK CleanBuildConverges
PROPERTIES EntryBeforeServer Reconciles KernelSettles

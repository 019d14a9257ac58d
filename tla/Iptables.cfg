SPECIFICATION FairSpec
CONSTANTS
    c1 = c1
    c2 = c2
    out = out
    outDirect = outDirect
    r = r
    Callers = {c1, c2}
    Other = Other
    None = None
    Chains = {out, outDirect}
    Builtin = {out}
    Rules = {r}
    Policies = {"ACCEPT", "DROP"}
    Extends <- MCExtends
    RestoreData <- MCRestoreData
    Versions <- MCVersions
    MaxCalls = 2
    MaxUpsets = 2
INVARIANTS TypeOK RuleOnce SnapshotsStayFresh LocksAreReturned
PROPERTY CallsReturn
CHECK_DEADLOCK FALSE

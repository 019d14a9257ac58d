SPECIFICATION FairSpec
CONSTANTS
    Callers = {c1, c2}
    min = 3
    max = 5
    WordSize = 2
INVARIANTS TypeOK OneOwner SetMeansOwned
PROPERTIES AloneIsExact CallsReturn
CHECK_DEADLOCK TRUE

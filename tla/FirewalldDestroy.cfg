SPECIFICATION Spec
CONSTANTS
    f1 = f1
    f2 = f2
    Funcs = {f1, f2}
    None = None
    SigCap = 2
    MaxEvents = 2
INVARIANT DestroyUnregisters
CHECK_DEADLOCK FALSE

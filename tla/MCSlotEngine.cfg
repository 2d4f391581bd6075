SPECIFICATION Spec
CONSTANTS
    s0 = s0
    s1 = s1
    ta = ta
    tb = tb
    Slots = {s0, s1}
    Token = {ta, tb}
    MaxCtx = 3
    MaxRows = 3
    MaxRun = 2
    MaxPrefill = 1
    R = 2
SYMMETRY Symmetry
VIEW LiveState
INVARIANTS
    TypeOK
    CachesBelong
    LogitsExact
PROPERTIES
    ImplementsTokenEngine

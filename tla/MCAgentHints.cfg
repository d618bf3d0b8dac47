CONSTANTS
    x = x
    y = y
    z = z
    NotInt = NotInt
    None = None
    Calls = {c1, c2, c3}
    Numeric = {"priority"}
    HistoryCap = 2
    Default <- MCDefault
    Ops <- MCOps
    Profiles <- MCProfiles
SPECIFICATION Spec
INVARIANTS
    TypeOK
PROPERTIES
    ImplementsStore
    CallEnds
CHECK_DEADLOCK FALSE

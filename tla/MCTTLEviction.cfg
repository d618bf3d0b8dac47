CONSTANTS
    h1 = h1
    h2 = h2
    r1 = r1
    r2 = r2
    r3 = r3
    Handles = {h1, h2}
    Calls = {c1, c2, c3, c4}
    WiredCalls = {}
    UnwiredHandles = {h1}
    MaxConcurrent = 2
    Registrations = {r1, r2, r3}
    HandleOf <- MCHandleOf
    None = None
SPECIFICATION TTLSpec
INVARIANTS
    PermitsConserved
    StatsAccount
    RegionsTracked
PROPERTIES
    TransferEnds
    EvictsOnlyOverdue
    RegisteredHandleLeaves

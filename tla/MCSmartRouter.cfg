CONSTANTS
    p1 = p1
    p2 = p2
    d1 = d1
    r1 = r1
    r2 = r2
    r3 = r3
    None = None
    NotAnInt = NotAnInt
    MaxAttempts <- MCMaxAttempts
    Workers <- MCWorkers
    RoleOf <- MCRoleOf
    LoadLevels <- MCLoadLevels
    Requests <- MCRequests
    RequestId <- MCRequestId
    Priority <- MCPriority
SPECIFICATION Spec
INVARIANTS
    TypeOK
    InFlightIsRunning
    UntrackedOnlyOnClash
    OneEndpointPerWorker
    
    StatsAddUp
PROPERTIES
    DispatchesToLeastLoaded
    RouteReturns
    ImplementsPDD

SPECIFICATION EitherSpec
CHECK_DEADLOCK FALSE
CONSTANTS
    Requests = {r1}
    Calls = {c1}
    Deletes = {d1}
    Connections = 2
    Given <- TheGiven
    Shapes <- TheShapes
    Users = {u1, u2}
    Objects = {o1, o2}
    NoObject = NoObject
INVARIANTS TypeOK ServesAsConfigured PoolOutlivesCalls OnlyLateWorkIsCut GenTypeOK FreshCodeEmpties
PROPERTIES ShutdownEnds FailureStopsService UsersAreUndisturbed

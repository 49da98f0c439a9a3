SPECIFICATION Spec
CONSTANTS
    o1 = o1  o2 = o2  o3 = o3
    c1 = c1  c2 = c2  c3 = c3
    NoObject = NoObject
    Objects <- MCObjects2
    Clients <- MCClients2
    ObjectsMax = 1
    ResetLifetimeOnGet = FALSE
    MaxCreateFailures = 0
INVARIANTS
    GettersReturnBeforeDestroyed

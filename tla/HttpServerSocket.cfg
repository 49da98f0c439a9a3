SPECIFICATION Spec
CONSTANTS
    c1 = c1  c2 = c2
    r1 = r1
    d1 = d1  d2 = d2
    NoOne = NoOne
    Callers <- MCCallers
    Requests <- MCRequests
    Daemons <- MCDaemons
    Hostnames <- MCHostnames
    KeyStores <- MCKeyStores
    MaxChunks = 1
    MaxOwn = 1
SYMMETRY SocketSymmetry
CHECK_DEADLOCK FALSE
INVARIANTS
    WaiterWillBeNotified
    RequestsOutlived
    ReleasedHandlerCalled
    Answered
    CertificateFits

SPECIFICATION FairTransportSpec
CONSTANTS
    h1 = h1  c1 = c1  c2 = c2  k1 = k1  k2 = k2  k3 = k3
    Handlers <- MCHandlers
    Clients <- MCClients
    NoClient = NoClient
    Registries <- MCRegistries
    Mixes <- MCMixes
    Backlog = 1
    HeadBytes = 2
    Chunk = 2
    AcceptSeconds = 2
    HandshakeTotal = 1
    ReadTotal = 3
    ReadIdle = 2
    WriteTotal = 2
    WriteIdle = 1
    MaxValidity = 9
    MaxOverlap = 1
    Past = 3
    Future = 1
    MaxTime = 4
CHECK_DEADLOCK FALSE
INVARIANTS
    BodyExact
    HandlerFreed
PROPERTIES
    ConnectionsEnd

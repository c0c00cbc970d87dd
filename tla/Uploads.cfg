CONSTANTS
    c1 = c1
    c2 = c2
    h1 = h1
    h2 = h2
    x1 = x1
    Conns = {c1}
    Users = {x1}
    Chans = {h1, h2}
    UserOf <- SameUser
    ConnOf <- OneConn
    Uploads = {u1, u2}
    NoUpload = NoUpload
    MaxPerConn = 1
    MaxPerUser = 1
    MaxGlobal = 2
    QueueCap = 1
    MaxChunks = 1
    MaxFaults = 1
CHECK_DEADLOCK FALSE
SPECIFICATION FairSpec
INVARIANTS
    PermitsExact
    FinalIsWhole
    NothingLeftBehind
PROPERTIES
    PermitsReturn

SPECIFICATION ClientsSpec
CHECK_DEADLOCK FALSE
CONSTANTS
    MaxPending = 1
    WriterQueue = 2
    SinkCap = 1
    PongCap = 1
    MaxRequests = 2
    MaxOutputs = 1
    MaxPings = 1
    LoginKinds = {"key", "password", "dev"}
    MaxCommands = 2
    MaxLogins = 2
    MaxOutages = 2
    LineSizes = {1, 2, 5}
    MaxHistoryLines = 3
    MaxHistoryBytes = 4
    PageLines = 2
    PageBytes = 2
    MinCols = 2
    Widths = {0, 1, 3}
    MaxRevision = 6
    Streams = {1}
    MaxAttachments = 1
    ChunkCap = 1
    BridgeCap = 1
    StreamWindow = 1
    MaxInputs = 2
    MaxChunks = 3
INVARIANTS
    PasswordForOneAttempt
    PagesJoin
    OutputUnbroken

    

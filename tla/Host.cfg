SPECIFICATION HostSpec
CHECK_DEADLOCK FALSE
CONSTANTS
    Channels = {0, 1}
    Reading = {0}
    OutgoingQueue = 1
    MessageCap = 2
    ByteCap = 3
    ChunkBytes = 2
    EventCap = 1
    MaxOutput = 2
    MaxRequests = 1
    MaxForwardChunks = 2
    MaxPermits = 2
    Identities = {1,2}
    Sessions = {1,2}
    PeerOf <- MCPeerOf
    MaximumSessions = 1
    MaximumStreams = 1
    MaxStreams = 2
    Accounts = {"ann", "root", "eve", "nix"}
    AllowAccount = {"ann", "root", "nix"}
    UidOf <- MCUidOf
    MaxDeaths = 2
    FileChunks = 2
    UploadFaults = 2
INVARIANTS
    
    NoSpuriousAbort
    CleanEndIsComplete
    
    OwnedIsWhole
PROPERTIES
    NoHeadOfLineBlocking
    UpIsAPipe
    NoOrphan

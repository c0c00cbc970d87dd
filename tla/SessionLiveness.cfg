CONSTANTS
    ShellIds = {s1}
    NoShell = NoShell
    Users = {u1}
    Permitted = {u1}
    Keys = {k1}
    Callers = {c1}
    Reaper = Reaper
    MaxShells = 1
    MaxShellsPerUser = 0
    MaxAttachments = 2
    MaxQueued = 1
    SupersededHistory = 2
    ReaperEnabled = TRUE
    IdleTtl = 1
    ReqDims = {0}
    MinDims <- Dims11
    DefaultDims <- Dims11
    MaxChunks = 1
    MaxTokens = 3
    MaxTime = 2
CHECK_DEADLOCK FALSE
SPECIFICATION FairSpec
INVARIANTS
    ReapSparesAttached
PROPERTIES
    EofReachesEveryone
    

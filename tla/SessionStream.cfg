CONSTANTS
    ShellIds = {s1}
    NoShell = NoShell
    Users = {u1}
    Permitted = {u1}
    Keys = {k1}
    Callers = {}
    Reaper = Reaper
    MaxShells = 1
    MaxShellsPerUser = 0
    MaxAttachments = 2
    MaxQueued = 2
    SupersededHistory = 1
    ReaperEnabled = FALSE
    IdleTtl = 1
    ReqDims = {0, 1, 3}
    MinDims <- Dims21
    DefaultDims <- Dims32
    MaxChunks = 3
    MaxTokens = 3
    MaxTime = 1
CHECK_DEADLOCK FALSE
SPECIFICATION Spec
INVARIANTS
    StreamExact
    
    TokenJudgement

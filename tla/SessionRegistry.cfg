CONSTANTS
    ShellIds = {s1, s2}
    NoShell = NoShell
    Users = {u1, u2}
    Permitted = {u1, u2}
    Keys = {k1, k2}
    Callers = {c1, c2}
    Reaper = Reaper
    MaxShells = 2
    MaxShellsPerUser = 1
    MaxAttachments = 1
    MaxQueued = 1
    SupersededHistory = 1
    ReaperEnabled = TRUE
    IdleTtl = 1
    ReqDims = {0}
    MinDims <- Dims11
    DefaultDims <- Dims11
    MaxChunks = 0
    MaxTokens = 2
    MaxTime = 1
CHECK_DEADLOCK FALSE
SPECIFICATION Spec
SYMMETRY Symmetry
INVARIANTS
    IdempotencyExact
    ExitExact
PROPERTIES
    ImplementsService

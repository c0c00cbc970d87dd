SPECIFICATION EdgesSpec
CHECK_DEADLOCK FALSE
CONSTANTS
    caller1 = caller1
    caller2 = caller2
    caller3 = caller3
    k1 = k1
    k2 = k2
    AuthConns = {caller1, caller2, caller3}
    Sources = {1, 2}
    SourceOf <- MCSourceOf
    AuthUsers = {"ann", "bob", "eve"}
    AuthorizedKeys <- MCKeys
    SecurityKeys = {k2}
    PasswordUsers = {"bob"}
    ForeignGrants <- MCForeign
    MaxFailures = 2
    Window = 2
    Lockout = 3
    MaxTracked = 1
    GrantLife = 2
    MaxTime = 4
    MaxAttempts <- MCAttempts
    PriorGrants <- MCPrior
    ServerKeys = {1, 2}
    MaxRuns = 3
    MaxSaveFaults = 1
    MaxPrinted = 2
    MaxChannels = 2
    MaxInputs = 2
    MaxTroubles = 1
    LiveCap = 1
    PumpCap = 1
    InputCap = 1
    DownCap = 1
    ReadCap = 2
    Tracked <- MCTracked
    MouseProtocols = {9, 1000}
    OtherModes = {25}
    MaxParams = 2
    MaxFed = 5
    MaxRead = 2
INVARIANTS
    FailuresBounded
    
    GrantsNeedConsent
    ScreenExact
    RestoreExact
    SplitInvisible

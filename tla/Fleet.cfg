SPECIFICATION FleetSpec
CHECK_DEADLOCK FALSE
CONSTANTS
    Agents = {"a1","a2"}
    CertOf <- MCCertOf
    NameOf <- MCNameOf
    Links = {1,2,3}
    MaxIdentities = 2
    MaxActive = 1
    InitialDelay = 1
    MaximumDelay = 2
    MaxLinkFaults = 1
    MaxOperations = 3
    OpenUsers = {"ann","bob"}
    AgentKeys = {"k1","k2"}
    OpenGrants <- MCGrants
    ThisServer = "s1"
    Audience = "hub"
    MaxShells = 2
    MaxCalls = 3
    MaxUpsets = 2
    SshConns = {1, 2}
    LocalUsers = {1}
    MaxConnections = 1
    InputMessages = 1
    DefaultSize = 1
    MaxDimension = 2
    SshSizes = {0, 1, 2, 3}
    MaxMade = 1
    MaxTyped = 1
INVARIANTS
    LeaseExact
    AnswerIsMine

    
    

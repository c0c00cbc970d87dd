CONSTANTS
    Shells = {s1, s2}
    NoShell = NoShell
    OpenKeys = {k1}
    NoKey = NoKey
    MaxFaults = 4
CHECK_DEADLOCK FALSE
SPECIFICATION FairSpec
INVARIANTS
    NoSilentOrphan
    NoAccidentalShell

    

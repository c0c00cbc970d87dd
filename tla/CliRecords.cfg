CONSTANTS
    Shells = {s1, s2}
    NoShell = NoShell
    OpenKeys = {k1, k2}
    NoKey = NoKey
    Procs = {p1, p2}
    MaxFaults = 3
CHECK_DEADLOCK FALSE
SPECIFICATION FairSpec
INVARIANTS
    EntriesGenuine
PROPERTIES
    AttachSettles

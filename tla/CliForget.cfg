CONSTANTS
    Shells = {s1}
    NoShell = NoShell
    OpenKeys = {k1}
    NoKey = NoKey
    Procs = {p1}
    MaxFaults = 5
CHECK_DEADLOCK FALSE
SPECIFICATION Spec
INVARIANT NeverForgetsRunning

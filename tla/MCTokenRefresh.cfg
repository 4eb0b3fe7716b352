SPECIFICATION Spec
CONSTANTS
    Procs = {p1, p2}
    Absent = Absent
    Failed = Failed
    Garbled = Garbled
    Rotations = {TRUE}
    MaxTokens = 3
    MaxCommands = 2
    MaxLogins = 2
    MaxFaults = 1
    MaxRequests = 2
SYMMETRY ProcSymmetry
INVARIANTS PairCoherent ResendsAnotherToken RefreshRescues
PROPERTY LoginWins
CHECK_DEADLOCK FALSE

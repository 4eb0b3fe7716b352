SPECIFICATION Spec
CONSTANTS
    Operations <- mcOperations
    RootNames <- mcRootNames
    Commands <- mcCommands
    Hosts = {h1, h2}
    NoHost = NoHost
    Values <- mcValues
    Answers <- mcAnswers
    NoAnswer = NoAnswer
    MaxEdits = 1
SYMMETRY mcSymmetry
INVARIANT SkipSpreads
CHECK_DEADLOCK FALSE

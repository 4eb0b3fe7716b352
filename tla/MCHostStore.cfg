SPECIFICATION FairSpec
CONSTANTS
    Procs = {p1, p2}
    HostNames <- mcHostNames
    Creds <- mcCreds
    CtxNames <- mcCtxNames
    CtxValues <- mcCtxValues
    Commands <- mcCommands
    InitialMaps <- mcInitialMaps
    c1 = c1
    c2 = c2
    c3 = c3
    org = org
    v1 = v1
    v2 = v2
    Absent = Absent
    Unset = Unset
    NoHost = NoHost
    CodegenHost = 2
    Nobody = Nobody
    Torn = Torn
    MaxCommands = 2
    MaxCrashes = 2
INVARIANT AtMostOneSelected
PROPERTIES ContextsSurvive Atomic CommandsEnd
CHECK_DEADLOCK FALSE

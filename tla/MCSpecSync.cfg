SPECIFICATION Spec
CONSTANTS
    Procs = {p1, p2}
    SourceCount = 2
    FileCount = 1
    hub = hub
    disk = disk
    v1 = v1
    v2 = v2
    Repos = {hub, disk}
    Tags = {v1, v2}
    FixedRefs <- Fixed
    Address <- Addresses
    NoAddress = NoAddress
    Revisions = {c1, c2}
    Local = Local
    Working = Working
    NoSHA = NoSHA
    Configs <- Shared
    Missing = Missing
    Torn = Torn
    MaxCommands = 2
    MaxMoves = 1
    MaxStops = 1
SYMMETRY Symmetry
INVARIANTS ProvenanceTrue MovedTagRefused
PROPERTY CheckoutFixed
CHECK_DEADLOCK FALSE

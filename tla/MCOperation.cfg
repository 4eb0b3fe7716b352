SPECIFICATION FairSpec
CONSTANTS
    Commands <- AllCommands
    StreamEvents <- Events
    MaxEvents = 3
    Items = 4
    PageSize = 2
    MaxPages = 3
    PollTimeout = 6
    MaxBackoff = 2
INVARIANTS RequestsAllowed BodyHoldsInput ParamsSent AllItems StreamWhole FilePublished
PROPERTIES OthersFileKept CommandEnds
CHECK_DEADLOCK FALSE

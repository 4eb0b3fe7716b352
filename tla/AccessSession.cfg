SPECIFICATION FairSpec
CONSTANTS
    Requests = {r1, r2}
    Origins = {o1, o2}
    Missing = Missing
    Nothing = Nothing
    Failed = Failed
    Cancelled = Cancelled
    Expired = Expired
    NoAnswer = NoAnswer
    MaxCalls = 3
    MaxClock = 2
INVARIANT NothingShown
PROPERTIES ImplementsCell CallsEnd
CHECK_DEADLOCK FALSE

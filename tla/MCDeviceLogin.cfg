SPECIFICATION Spec
CONSTANTS
    Invocations <- AllInvocations
    Starts <- Codes
    Expiries <- Numbers
    DefaultInterval = 1
    DefaultLifetime = 4
    SlowDown = 1
    RequestTimeout = 2
    Horizon = 16
INVARIANTS StoresWhatWasGranted
PROPERTIES PacedPolls LoginEnds
CHECK_DEADLOCK FALSE

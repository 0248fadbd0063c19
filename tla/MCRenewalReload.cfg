SPECIFICATION Spec
CONSTANTS
    Interval = 1
    Lifetime = 15
    Backdate = 0
    Latency = 1
    Faults = 1
    MaxAge = 0
    ReloadReliable = FALSE
    MaxTime = 60
INVARIANTS
    ReloadRetried
CHECK_DEADLOCK FALSE

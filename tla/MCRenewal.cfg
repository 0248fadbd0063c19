SPECIFICATION Spec
CONSTANTS
    Interval = 1
    Lifetime = 15
    Backdate = 2
    Latency = 1
    Faults = 1
    MaxAge = 18
    ReloadReliable = TRUE
    MaxTime = 60
INVARIANTS
    TypeOK
    ServedValid
PROPERTIES
    NotTooEarly
CHECK_DEADLOCK FALSE

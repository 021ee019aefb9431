SPECIFICATION Spec
CONSTANTS
    a = a
    b = b
    c = c
    Thread <- MCThread
    Timeout <- MCTimeout
    MaxClock = 4
    NDEBUG = FALSE
INVARIANTS
    DeltasAddUp
    TimeoutTellsWho
PROPERTY
    RefinesTimers

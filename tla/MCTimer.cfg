SPECIFICATION Spec
CONSTANTS
    Ids = {1, 2}
    Intervals = {3, 5}
    Durations = {0, 6}
    Afters = {0}
    Actions = {"set", "cancel"}
    MaxLive = 2
    MaxClock = 8
INVARIANTS
    NoneForgotten
    IdsMatch
PROPERTIES
    OnlyKnownTimersRun
    AloneIsPunctual
CHECK_DEADLOCK FALSE

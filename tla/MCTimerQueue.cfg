SPECIFICATION Spec
CONSTANTS
    once = once
    again = again
    late = late
    Events <- ThreeEvents
    Interval <- Intervals
    Repeated <- Repeating
    Retry = 2
    Settings <- Steps
    MaxSettings = 1
    MaxLag = 3
INVARIANTS TypeOK AlwaysArmed InTime DeletedIsGone
PROPERTY PendingRuns

SPECIFICATION Spec
CONSTANTS
    Jobs <- MCJobs
    Interval <- MCInterval
    MaxTime = 3
    MaxChanges = 1
    Never = Never
INVARIANTS
    TickRunsAllDue
    
PROPERTIES
    TicksAreSpaced
    NoJobStarves

CONSTANTS
    DayLen = 3
    Week = 2
    MaxTime = 6
    MaxJobs = 1
    Plans <- MCPlans
    MaxSteps = 1
    None = None
SPECIFICATION Spec
CHECK_DEADLOCK FALSE
INVARIANTS
    PastOnceRuns
    OnceActsOnce
    
    

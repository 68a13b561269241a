CONSTANTS
    None = None
    MaxActions = 3
    MaxChanges = 4
    MaxWakes = 4
    MaxMishaps = 2
    Faults <- MCFaults
SPECIFICATION Spec
INVARIANTS
    
    StandbyDark
    NothingStaged
CHECK_DEADLOCK FALSE

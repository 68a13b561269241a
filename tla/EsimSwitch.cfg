CONSTANTS
    None = None
    Requests = {r1, r2}
    Profiles <- MCProfiles
    First = "p"
    Faults <- MCFaults
    MaxAttempts = 1
    Workloads <- MCWorkloads
SPECIFICATION Spec
SYMMETRY Symmetry
INVARIANTS
    OneCommandAtATime
    
    
    CancelIsHonoured
    NotifiedIsTrue
    RetriesGoOn

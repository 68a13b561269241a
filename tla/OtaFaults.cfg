CONSTANTS
    Versions = {1, 2}
    Prereleases = {}
    Bootstrap = 1
    Sound = {1, 2}
    FlakyTrials = TRUE
    ConsoleInTrial = FALSE
    Faults = {"power", "kill", "io", "stall"}
    Damageable = {"a", "stable"}
    None = None
    Bad = Bad
SPECIFICATION Spec
INVARIANTS
    MarkerNamesTwoSlots

    

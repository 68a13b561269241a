CONSTANTS
    Versions = {1, 2, 3}
    Prereleases = {2}
    Bootstrap = 1
    Sound = {1, 2}
    FlakyTrials = TRUE
    ConsoleInTrial = FALSE
    Faults = {"power"}
    Damageable = {}
    None = None
    Bad = Bad
SPECIFICATION Spec
CHECK_DEADLOCK FALSE
INVARIANT AlwaysBootable

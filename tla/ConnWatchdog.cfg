CONSTANTS
    None = None
    Window = 2
    Settle = 1
    Guard = 1
    Day = 3
    Cooldown <- MCCooldown
    Cap <- MCCap
    TriggerFailures = 2
    TriggerAge = 0
    Faults = {"crash", "disk", "fastboot", "reboot"}
    Configs <- MCConfigs
SPECIFICATION FairSpec
INVARIANTS
    FastBootNotForgotten
PROPERTIES
    
    NoRemedyForALostSession
    LadderMovesOn

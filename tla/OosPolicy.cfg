CONSTANTS
    None = None
    Custom = Custom
    Quiet = Quiet
    Faults = {"crash", "knobs", "backup", "modem"}
    Requests = {"online", "lpm", "other", "outside"}
    MaxQueue = 1
SPECIFICATION FairSpec
INVARIANTS
    OwnersKnobsKept
    QuietKnobsAttended
    StrandedOnlyByMishap
PROPERTIES
    KnobsComeBack

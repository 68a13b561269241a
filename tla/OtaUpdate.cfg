CONSTANTS
    Versions = {1, 2, 3}
    Prereleases = {2}
    Bootstrap = 1
    Sound = {1, 2}
    FlakyTrials = FALSE
    ConsoleInTrial = FALSE
    Faults = {"power"}
    Damageable = {}
    None = None
    Bad = Bad
SPECIFICATION FairSpec
INVARIANTS
    AlwaysBootable
    HandoffKeepsHelper
    RightReleaseRuns
PROPERTIES
    ImplementsPromise
    TrialResolves
    AgentReturns
    PhaseSettles

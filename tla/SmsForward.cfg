CONSTANTS
    None = None
    Messages <- MCMessages
    Rules <- MCRules
    Matches <- MCMatches
    UsesWan <- MCUsesWan
    MaxLog = 2
    MaxCrashes = 1
    Handlers = {h1, h2}
    MaxRequests = 2
    MaxEdits = 1
    MaxFailures = 1
    Faults = {"event", "read"}
SYMMETRY MCHandlers
SPECIFICATION Spec
INVARIANTS
    TwiceIsExplained
    NothingSkipped
    DeletedOnlyWhenAllSent
CHECK_DEADLOCK FALSE

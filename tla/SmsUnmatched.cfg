CONSTANTS
    None = None
    Messages <- MCMessages
    Rules <- MCRules
    Matches <- MCMatches
    UsesWan <- MCUsesWan
    MaxLog = 2
    MaxCrashes = 0
    Handlers = {h1, h2}
    MaxRequests = 0
    MaxEdits = 0
    MaxFailures = 0
    Faults = {}
SPECIFICATION Spec
INVARIANTS
    DeletedWasForwarded
CHECK_DEADLOCK FALSE

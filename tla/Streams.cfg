SPECIFICATION Spec
CONSTANTS
    Conns = {c1, c2, c3}
    Topics = {t1}
    Keys = {1, 2}
    Idle <- MCIdle
    Absolute <- MCAbsolute
    Cap <- MCCap
    MaxStreams = 2
    MaxPerOwner = 2
    MaxJump = 2
    MaxLogins = 2
    None = None
SYMMETRY Symmetry
INVARIANTS
    DemandIsExact
    RevokedStreamsEnd
    ByeTellsWhy

CONSTANTS
    Tasks = {t1}
    Owners = {o1, o2}
    CoordIds = {c1, c2}
    WorkerIds = {w1, w2}
    Worktrees = {wt1}
    NoWorktree = NoWorktree
    NoCoord = NoCoord
    MaxTtl = 2
    MaxClock = 2
    MaxLag = 1
    None = None
SPECIFICATION AllSpec
SYMMETRY Symmetry
CHECK_DEADLOCK FALSE
INVARIANTS LeasesSafe WriterAcknowledged   GraphSafe   
PROPERTIES ImplementsExclusiveGrant

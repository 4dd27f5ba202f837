SPECIFICATION Spec
CONSTANTS
    m1 = m1
    m2 = m2
    Messages = {m1, m2}
    NoMessage = NoMessage
    Batches = {1, 2}
    Approvals <- TwiceThenOnce
    PlanOnly = {m2}
    MaxBacklog = 1
    MaxCrashes = 1
INVARIANTS StartupReconciles
CHECK_DEADLOCK FALSE

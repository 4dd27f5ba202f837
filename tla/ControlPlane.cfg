CONSTANTS
    Daemons = {d1, d2}
    LeaseTtl = 2
    MaxClock = 3
    MaxLag = 1
    Free = Free
    Maintenance = Maintenance
    None = None
SPECIFICATION AllSpec
CHECK_DEADLOCK FALSE
INVARIANTS DaemonOwnsLease OneRuntime ClientsReachOwner  EventsKept RollbackKeepsEvents RollbackRecoverable EditsHold StreamFaithful AppliedOnceInOrder
PROPERTIES RowsHonoured  

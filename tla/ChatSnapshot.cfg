CONSTANTS
    Clients = {"c1","c2","r"}
    Kind <- MCKind
    Screens = {"c1"}
    Tasks = {t1,t2}
    TaskLimit = 1
    MaxPlans = 1
    MaxMessages = 1
    MaxBatches = 2
    MaxKeys = 2
    MaxFaults = 1
    MaxChanges = 4
    None = None
SPECIFICATION Spec
CHECK_DEADLOCK FALSE
INVARIANTS SnapshotIsValid

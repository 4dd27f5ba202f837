CONSTANTS
    None = None
    Files <- MCFiles
    Changes <- MCChanges
    Tasks <- MCTasks
    Manifests = {"Cargo.toml", "go.mod", "none"}
SPECIFICATION Spec
INVARIANT SuccessIsNoEvidence
CHECK_DEADLOCK FALSE

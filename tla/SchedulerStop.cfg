CONSTANTS
    api = api
    docs = docs
    client = client
    codex = codex
    claude = claude
    Tasks = {api, docs, client}
    Deps <- MCDeps
    Scope <- MCScope
    Provider <- MCProvider
    Rank <- MCRank
    GlobalLimit = 2
    ProviderLimit <- MCProviderLimit
    ClaimIds = {c1, c2, c3}
    ClaimTtl = 2
    MaxLag = 0
    MaxRevision = 3
    Faults = {"stop"}
    NoResume = NoResume
    Daemons = {d1}
    LeaseTtl = 2
    MaxClock = 2
SPECIFICATION Spec
CHECK_DEADLOCK FALSE
SYMMETRY Symmetry
INVARIANTS ReleasedAfterJobs

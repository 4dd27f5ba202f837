CONSTANTS
    api = api
    docs = docs
    client = client
    codex = codex
    claude = claude
    Tasks = {api, docs, client}
    Deps <- MCDeps
    Scope <- MCScope
    Provider <- MCProvider
    Rank <- MCRank
    GlobalLimit = 2
    ProviderLimit <- MCProviderLimit
    ClaimIds = {c1, c2, c3, c4}
    ClaimTtl = 2
    MaxLag = 0
    MaxRevision = 3
    Faults = {"stop", "interrupt", "refuse"}
    NoResume = NoResume
    Daemons = {d1}
    LeaseTtl = 2
    MaxClock = 0
SPECIFICATION FairSpec
CHECK_DEADLOCK FALSE
INVARIANTS InterruptDrains
PROPERTIES StopEndsDaemon EveryTaskSettles

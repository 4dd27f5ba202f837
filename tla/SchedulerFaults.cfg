CONSTANTS
    api = api
    docs = docs
    client = client
    codex = codex
    claude = claude
    Tasks = {api, docs, client}
    Deps <- MCDeps
    Scope <- MCScope
    Provider <- MCProvider
    Rank <- MCRank
    GlobalLimit = 2
    ProviderLimit <- MCProviderLimit
    ClaimIds = {c1, c2, c3}
    ClaimTtl = 1
    MaxLag = 0
    MaxRevision = 2
    Faults = {"crash", "late", "resume"}
    NoResume = NoResume
    Daemons = {d1, d2}
    LeaseTtl = 1
    MaxClock = 1
SPECIFICATION Spec
CHECK_DEADLOCK FALSE
SYMMETRY Symmetry
INVARIANTS ClaimsSound OneExecutor
PROPERTIES NeverRestarted

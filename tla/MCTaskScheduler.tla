--------------------------- MODULE MCTaskScheduler ----------------------------
(***************************************************************************)
(* TaskScheduler for TLC.  Three tasks in a graph that has a dependency,   *)
(* an overlap that only the component-aware test sees, and a shared        *)
(* provider: api writes src/api and docs writes docs, both with codex;     *)
(* client depends on docs and writes docs/client and src/client with       *)
(* claude, beside api.                                                     *)
(***************************************************************************)
EXTENDS TaskScheduler, TLC

CONSTANTS api, docs, client, codex, claude

MCDeps == [t \in Tasks |-> IF t = client THEN {docs} ELSE {}]

WriteScope ==
    (api :> {<<"src", "api">>})
    @@ (docs :> {<<"docs">>})
    @@ (client :> {<<"docs", "client">>, <<"src", "client">>})

MCScope == [t \in Tasks |-> [paths |-> WriteScope[t], wide |-> FALSE]]

MCProvider == [t \in Tasks |-> IF t = client THEN claude ELSE codex]

MCRank == [t \in Tasks |-> CASE t = api -> 1 [] t = docs -> 2 [] t = client -> 3]

MCProviderLimit == (codex :> 1) @@ (claude :> 2)

Symmetry == Permutations(ClaimIds)
=============================================================================

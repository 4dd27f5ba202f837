--------------------------- MODULE ExclusiveGrant ---------------------------
(***************************************************************************)
(* What a table of leases promises those who take leases from it, whatever *)
(* clocks, sweeps and late requests do below: an authority is granted to   *)
(* one id at a time, it is never passed from one id to another in a single *)
(* step, and an id that was ended is never granted anything again.         *)
(***************************************************************************)
CONSTANTS
    Authorities,    \* what may be granted
    Ids             \* to whom: one id for each lease

VARIABLES
    holders,        \* authority -> the ids that may trust that they have it
    ended           \* the ids whose lease is over for good

Init ==
    /\ \A a \in Authorities : \A i, j \in holders[a] : i = j
    /\ \A a \in Authorities : holders[a] \cap ended = {}

Keep(a) == holders'[a] = holders[a]

\* The holder gives the authority back, or no longer trusts it.
Lose(a) == holders'[a] = {}

Grant(a) == holders[a] = {} /\ \E i \in Ids \ ended' : holders'[a] = {i}

Next ==
    /\ ended \subseteq ended'
    /\ \A a \in Authorities : Keep(a) \/ Lose(a) \/ Grant(a)
    /\ \A a \in Authorities : holders'[a] \cap ended' = {}

Spec == Init /\ [][Next]_<<holders, ended>>
=============================================================================

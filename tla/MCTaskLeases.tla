----------------------------- MODULE MCTaskLeases -----------------------------
(* TaskLeases for TLC: the lease ids, owners and worktrees are interchangeable. *)
EXTENDS TaskLeases, TLC

Symmetry ==
    Permutations(Owners) \cup Permutations(CoordIds) \cup Permutations(WorkerIds)
=============================================================================

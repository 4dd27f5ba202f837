------------------------------ MODULE TaskLeases ------------------------------
(***************************************************************************)
(* The coordinator and worker leases of one workspace, as kept by          *)
(* crates/orchestrator-state/src/leases.rs in the tables coordinator_leases *)
(* and worker_leases.                                                      *)
(*                                                                         *)
(* Every operation is one IMMEDIATE SQLite transaction: it first expires    *)
(* stale rows against the timestamp of the request, then checks, then      *)
(* writes.  An operation that returns an error drops its transaction, so   *)
(* the sweep it did is rolled back with it and the error is a stuttering    *)
(* step.  The timestamp is Utc::now() read by the CALLER before it waits   *)
(* for the database, so it may lag behind the clock by up to MaxLag.       *)
(***************************************************************************)
EXTENDS Naturals, FiniteSets

CONSTANTS
    Tasks,       \* task ids
    Owners,      \* owner ids: one per coordinating process
    CoordIds,    \* primary keys available to coordinator_leases (a bound)
    WorkerIds,   \* primary keys available to worker_leases (a bound)
    Worktrees,   \* worktree ids
    NoWorktree,  \* worktree_id IS NULL
    NoCoord,     \* coordinator_lease_id IS NULL: a worker of a legacy database
    MaxTtl,      \* the longest TTL a caller asks for (a bound)
    MaxClock,    \* where the clock stops (a bound)
    MaxLag       \* how far a request's timestamp may lag behind the clock

ASSUME LeaseConstants ==
    /\ MaxTtl \in Nat /\ MaxClock \in Nat /\ MaxLag \in Nat
    /\ NoCoord \notin CoordIds
    /\ CoordIds \cap WorkerIds = {}    \* lease ids are UUIDs
    /\ NoWorktree \notin Worktrees

VARIABLES
    clock,   \* the wall clock
    coord,   \* coordinator_leases, by lease_id
    worker   \* worker_leases, by lease_id

vars == <<clock, coord, worker>>

-----------------------------------------------------------------------------
(* Rows.  released_at is abstracted to how the row ended: "lapsed" when the *)
(* expiry sweep set it, "released" when the holder did.  Columns that no     *)
(* operation reads again (acquired_at, renewed_at, a worker's provider and  *)
(* worktree) are left out.                                                  *)

NoRow == [st |-> "absent"]

Modes == {"read_only", "writable"}

Expiries == 1 .. (MaxClock + MaxTtl)

CoordinatorLease ==
    [st : {"active", "released", "lapsed"}, task : Tasks, owner : Owners,
     worktree : Worktrees \cup {NoWorktree}, expires : Expiries]

WorkerLease ==
    [st : {"active", "released", "lapsed"}, task : Tasks,
     parent : CoordIds \cup {NoCoord}, mode : Modes, expires : Expiries]

Active(row) == row.st = "active"

(* TTLs that checked_expiry accepts, and the expiry it computes. *)
Ttls == 1 .. MaxTtl

CheckedExpiry(at, ttl) == at + ttl

(* The timestamps a request may carry: its caller read the clock earlier.  *)
Stamps == {t \in 0 .. clock : clock <= t + MaxLag}

-----------------------------------------------------------------------------
(* expire_stale_leases: coordinators first, then the workers that expired  *)
(* or whose coordinator is no longer active.                               *)

ExpiredCoordinators(at) ==
    [c \in CoordIds |->
        IF Active(coord[c]) /\ coord[c].expires <= at
        THEN [coord[c] EXCEPT !.st = "lapsed"]
        ELSE coord[c]]

Orphaned(C, row) ==
    /\ row.parent # NoCoord
    /\ C[row.parent].st \in {"released", "lapsed"}

ExpiredWorkers(at) ==
    [w \in WorkerIds |->
        IF /\ Active(worker[w])
           /\ \/ worker[w].expires <= at
              \/ Orphaned(ExpiredCoordinators(at), worker[w])
        THEN [worker[w] EXCEPT !.st = "lapsed"]
        ELSE worker[w]]

HasActiveRow(rows, t) == \E i \in DOMAIN rows : Active(rows[i]) /\ rows[i].task = t

ActiveChildren(W, c) == {w \in WorkerIds : Active(W[w]) /\ W[w].parent = c}

-----------------------------------------------------------------------------
(* A database is new, or holds one live worker row that predates           *)
(* coordinator leases (its coordinator_lease_id is NULL).                  *)

LegacyWorker(t, mode, expires) ==
    [st |-> "active", task |-> t, parent |-> NoCoord, mode |-> mode, expires |-> expires]

Init ==
    /\ clock = 0
    /\ coord = [c \in CoordIds |-> NoRow]
    /\ \/ worker = [w \in WorkerIds |-> NoRow]
       \/ \E legacy \in WorkerIds, t \in Tasks, mode \in Modes, e \in Ttls :
            worker = [w \in WorkerIds |->
                        IF w = legacy THEN LegacyWorker(t, mode, e) ELSE NoRow]

-----------------------------------------------------------------------------
(* acquire_coordinator_lease *)

AcquireCoordinator(t, o, wt, ttl, at) ==
    \E c \in CoordIds :
        /\ coord[c] = NoRow
        /\ ~ HasActiveRow(ExpiredCoordinators(at), t)
        /\ ~ HasActiveRow(ExpiredWorkers(at), t)
        /\ coord' = [ExpiredCoordinators(at) EXCEPT ![c] =
                        [st |-> "active", task |-> t, owner |-> o,
                         worktree |-> wt, expires |-> CheckedExpiry(at, ttl)]]
        /\ worker' = ExpiredWorkers(at)
        /\ UNCHANGED clock

(* renew_coordinator_lease: by its owner, and never to before the expiry   *)
(* of an active child.                                                     *)

(* Faulty variant: the expiry of the children is not checked.              *)
RenewCoordinatorIgnoringChildren(c, o, ttl, at) ==
    /\ Active(ExpiredCoordinators(at)[c])
    /\ coord[c].owner = o
    /\ coord' = [ExpiredCoordinators(at) EXCEPT ![c].expires = CheckedExpiry(at, ttl)]
    /\ worker' = ExpiredWorkers(at)
    /\ UNCHANGED clock

(* Faulty variant: the update does not ask for released_at IS NULL.        *)
RenewCoordinatorEvenIfReleased(c, o, ttl, at) ==
    /\ coord[c] # NoRow
    /\ coord[c].owner = o
    /\ \A w \in ActiveChildren(ExpiredWorkers(at), c) :
            worker[w].expires <= CheckedExpiry(at, ttl)
    /\ coord' = [ExpiredCoordinators(at) EXCEPT
                    ![c].st = "active", ![c].expires = CheckedExpiry(at, ttl)]
    /\ worker' = ExpiredWorkers(at)
    /\ UNCHANGED clock

RenewCoordinator(c, o, ttl, at) ==
    /\ Active(ExpiredCoordinators(at)[c])
    /\ coord[c].owner = o
    /\ \A w \in ActiveChildren(ExpiredWorkers(at), c) :
            worker[w].expires <= CheckedExpiry(at, ttl)
    /\ coord' = [ExpiredCoordinators(at) EXCEPT ![c].expires = CheckedExpiry(at, ttl)]
    /\ worker' = ExpiredWorkers(at)
    /\ UNCHANGED clock

(* release_coordinator_lease: refused while a child is active; repeating   *)
(* it commits nothing but the sweep.                                       *)

ReleaseCoordinator(c, o, at) ==
    /\ coord[c] # NoRow
    /\ coord[c].owner = o
    /\ \/ /\ ~ Active(ExpiredCoordinators(at)[c])
          /\ coord' = ExpiredCoordinators(at)
       \/ /\ Active(ExpiredCoordinators(at)[c])
          /\ ActiveChildren(ExpiredWorkers(at), c) = {}
          /\ coord' = [ExpiredCoordinators(at) EXCEPT ![c].st = "released"]
    /\ worker' = ExpiredWorkers(at)
    /\ UNCHANGED clock

-----------------------------------------------------------------------------
(* acquire_worker_lease: under an active coordinator of the same task, in  *)
(* its worktree when it names one, not beyond its expiry, one writer only. *)

AcquireWorker(t, c, wt, mode, ttl, at) ==
    \E w \in WorkerIds :
        /\ worker[w] = NoRow
        /\ Active(ExpiredCoordinators(at)[c])
        /\ coord[c].task = t
        /\ coord[c].worktree \in {NoWorktree, wt}
        /\ CheckedExpiry(at, ttl) <= coord[c].expires
        /\ mode = "writable" =>
              \A v \in WorkerIds :
                 LET row == ExpiredWorkers(at)[v] IN
                 Active(row) /\ row.task = t => row.mode # "writable"
        /\ coord' = ExpiredCoordinators(at)
        /\ worker' = [ExpiredWorkers(at) EXCEPT ![w] =
                        [st |-> "active", task |-> t, parent |-> c,
                         mode |-> mode, expires |-> CheckedExpiry(at, ttl)]]
        /\ UNCHANGED clock

(* renew_worker_lease *)

RenewWorker(c, w, ttl, at) ==
    /\ Active(ExpiredWorkers(at)[w])
    /\ worker[w].parent = c
    /\ Active(ExpiredCoordinators(at)[c])
    /\ CheckedExpiry(at, ttl) <= coord[c].expires
    /\ coord' = ExpiredCoordinators(at)
    /\ worker' = [ExpiredWorkers(at) EXCEPT ![w].expires = CheckedExpiry(at, ttl)]
    /\ UNCHANGED clock

(* release_worker_lease: repeating it commits nothing but the sweep.       *)

ReleaseWorker(c, w, at) ==
    /\ worker[w] # NoRow
    /\ worker[w].parent = c
    /\ coord' = ExpiredCoordinators(at)
    /\ worker' = IF Active(ExpiredWorkers(at)[w])
                 THEN [ExpiredWorkers(at) EXCEPT ![w].st = "released"]
                 ELSE ExpiredWorkers(at)
    /\ UNCHANGED clock

(* active_coordinator_lease and active_worker_leases commit the sweep.     *)

ReadActiveLeases(at) ==
    /\ coord' = ExpiredCoordinators(at)
    /\ worker' = ExpiredWorkers(at)
    /\ UNCHANGED clock

Tick ==
    /\ clock < MaxClock
    /\ clock' = clock + 1
    /\ UNCHANGED <<coord, worker>>

Next ==
    \/ Tick
    \/ \E at \in Stamps :
        \/ ReadActiveLeases(at)
        \/ \E t \in Tasks, ttl \in Ttls, wt \in Worktrees \cup {NoWorktree} :
              \/ \E o \in Owners : AcquireCoordinator(t, o, wt, ttl, at)
              \/ \E c \in CoordIds, mode \in Modes :
                    AcquireWorker(t, c, wt, mode, ttl, at)
        \/ \E c \in CoordIds, o \in Owners :
              \/ \E ttl \in Ttls : RenewCoordinator(c, o, ttl, at)
              \/ ReleaseCoordinator(c, o, at)
        \/ \E c \in CoordIds, w \in WorkerIds :
              \/ \E ttl \in Ttls : RenewWorker(c, w, ttl, at)
              \/ ReleaseWorker(c, w, at)

Spec == Init /\ [][Next]_vars

-----------------------------------------------------------------------------
(* Properties. *)

(* Rows are well formed and no expiry lies further ahead than the longest   *)
(* TTL (checked_expiry computes it from the request's own timestamp).      *)
TypeOK ==
    /\ clock \in 0 .. MaxClock
    /\ coord \in [CoordIds -> CoordinatorLease \cup {NoRow}]
    /\ worker \in [WorkerIds -> WorkerLease \cup {NoRow}]

(* The process that was given this lease still trusts it: it has not       *)
(* released it, and the expiry it was told lies ahead of the clock.        *)
Trusted(row) == row.st \in {"active", "lapsed"} /\ row.expires > clock

TrustedCoordinators(t) == {c \in CoordIds : Trusted(coord[c]) /\ coord[c].task = t}

TrustedWorkers(t) == {w \in WorkerIds : Trusted(worker[w]) /\ worker[w].task = t}

(* "exclusive authority to coordinate a task" (leases.rs:11): no two       *)
(* processes trust a coordinator lease of one task at the same time, and   *)
(* whoever trusts one trusts it alone: every worker anyone still trusts is *)
(* its own child.                                                          *)
ExclusiveAuthority ==
    \A t \in Tasks : \A c \in TrustedCoordinators(t) :
        /\ \A d \in TrustedCoordinators(t) : d = c
        /\ \A w \in TrustedWorkers(t) : worker[w].parent = c

(* At any time at most one provider process believes that it may write to  *)
(* a task's worktree (acquire_worker_lease).                               *)
OneWriter ==
    \A t \in Tasks : \A v, w \in TrustedWorkers(t) :
        worker[v].mode = "writable" /\ worker[w].mode = "writable" => v = w

(* The sweep takes a lease away only after the expiry its holder was told, *)
(* even though it also releases workers because of their coordinator       *)
(* (expire_stale_leases): a worker never outlives its coordinator.         *)
NeverRevokedEarly ==
    /\ \A c \in CoordIds : coord[c].st = "lapsed" => coord[c].expires <= clock
    /\ \A w \in WorkerIds : worker[w].st = "lapsed" => worker[w].expires <= clock

(* What a process may conclude from a lease that it still trusts, whatever *)
(* requests with old timestamps come in between.                           *)
LeasesSafe == ExclusiveAuthority /\ OneWriter /\ NeverRevokedEarly

(* An ended lease never comes back and never changes: renewals and         *)
(* releases that arrive after it ended find no row to update.              *)
EndedIsFinal ==
    [][/\ \A c \in CoordIds :
            coord[c].st \in {"released", "lapsed"} => coord'[c] = coord[c]
       /\ \A w \in WorkerIds :
            worker[w].st \in {"released", "lapsed"} => worker'[w] = worker[w]]_vars

(* The promise of the two tables, as ExclusiveGrant has it: to coordinate a *)
(* task and to write to its worktree are authorities of one trusted lease  *)
(* at a time.                                                              *)
Writers(t) == {w \in TrustedWorkers(t) : worker[w].mode = "writable"}

EndedLeases ==
    {c \in CoordIds : coord[c].st \in {"released", "lapsed"}}
        \cup {w \in WorkerIds : worker[w].st \in {"released", "lapsed"}}

Authority == {"coordinate", "write"} \X Tasks

Holders ==
    [a \in Authority |->
        IF a[1] = "write" THEN Writers(a[2]) ELSE TrustedCoordinators(a[2])]

Promise == INSTANCE ExclusiveGrant WITH
    Authorities <- Authority, Ids <- CoordIds \cup WorkerIds,
    holders <- Holders, ended <- EndedLeases

(* The lease tables implement that promise although a request is judged by *)
(* a timestamp older than the clock: a renewal may revive what its holder  *)
(* no longer trusts, but only before anyone else was granted it, and never *)
(* a lease that a sweep or a release has ended (leases.rs:11).             *)
ImplementsExclusiveGrant == Promise!Spec

-----------------------------------------------------------------------------
(* The inductive strengthening: what every committed transaction leaves    *)
(* behind in the tables.                                                   *)

(* The unique index on unreleased coordinators, and no unreleased worker   *)
(* of the task that is not a child of that coordinator.                    *)
CoordinatorOwnsTask(C, W) ==
    \A c \in CoordIds : Active(C[c]) =>
        /\ \A d \in CoordIds : Active(C[d]) /\ C[d].task = C[c].task => d = c
        /\ \A w \in WorkerIds : Active(W[w]) /\ W[w].task = C[c].task => W[w].parent = c

(* An active child has an active coordinator of its task that expires no   *)
(* earlier.                                                                *)
ChildWithinParent(C, W) ==
    \A w \in WorkerIds : Active(W[w]) /\ W[w].parent # NoCoord =>
        /\ Active(C[W[w].parent])
        /\ C[W[w].parent].task = W[w].task
        /\ W[w].expires <= C[W[w].parent].expires

OneActiveWriter(W) ==
    \A v, w \in WorkerIds :
        /\ Active(W[v]) /\ Active(W[w]) /\ W[v].task = W[w].task
        /\ W[v].mode = "writable" /\ W[w].mode = "writable"
        => v = w

LapsedIsExpired(rows, now) ==
    \A i \in DOMAIN rows : rows[i].st = "lapsed" => rows[i].expires <= now

TablesOK(C, W, now) ==
    /\ CoordinatorOwnsTask(C, W)
    /\ ChildWithinParent(C, W)
    /\ OneActiveWriter(W)
    /\ LapsedIsExpired(C, now)
    /\ LapsedIsExpired(W, now)

IInv == TypeOK /\ TablesOK(coord, worker, clock)
=============================================================================

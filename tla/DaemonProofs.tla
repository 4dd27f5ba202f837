----------------------------- MODULE DaemonProofs -----------------------------
(***************************************************************************)
(* There is one daemon, for every number of processes, every TTL and every *)
(* lag: IInv of DaemonLease is inductive, and the lease changes hands only *)
(* by release or after its expiry. The start of the daemon by commands     *)
(* (DaemonBootstrap) keeps its own invariant: one process owns the lock    *)
(* and runs the runtimes.                                                  *)
(***************************************************************************)
EXTENDS DaemonLease, Sequences, TLAPS

(* A timestamp is a natural number not ahead of the clock. *)
LEMMA StampBound ==
    ASSUME TypeOK, NEW at \in Stamps
    PROVE  at \in Nat /\ at <= clock /\ at \in 0 .. MaxClock
BY DaemonRowConstants, DaemonLeaseConstants DEF TypeOK, Stamps

-----------------------------------------------------------------------------
(* What the statements of daemon_instances.rs do to any table. *)

(* An unreleased row is a full row. *)
LEMMA UnreleasedRow ==
    ASSUME NEW R \in DaemonTable, NEW d \in Daemons, Unreleased(R[d])
    PROVE  R[d] \in DaemonInstance
BY DEF DaemonTable, Unreleased, NoInstance

(* The sweep of acquire_daemon_lease_with_phase. *)
LEMMA ExpireFacts ==
    ASSUME NEW R \in DaemonTable, NEW at \in Nat
    PROVE  /\ ExpireInstances(R, at) \in DaemonTable
           /\ \A d \in Daemons :
                /\ ~ Unreleased(R[d]) => ExpireInstances(R, at)[d] = R[d]
                /\ Unreleased(R[d]) /\ ~ Unreleased(ExpireInstances(R, at)[d])
                     => R[d].expires <= at
<1>1. \A d \in Daemons : Unreleased(R[d]) => R[d] \in DaemonInstance
    BY UnreleasedRow
<1> QED
    BY <1>1 DEF ExpireInstances, DaemonTable, DaemonInstance, Unreleased

(* Its INSERT, when the sweep left no unreleased row: only the new row is. *)
LEMMA AcquireFacts ==
    ASSUME NEW R \in DaemonTable, NEW at \in 0 .. MaxClock, NEW d \in Daemons,
           NEW phase \in Phases, LeaseAvailable(R, at)
    PROVE  LET A == AcquireLease(R, d, phase, at) IN
           /\ A \in DaemonTable
           /\ \A e \in Daemons : Unreleased(A[e]) <=> e = d
           /\ \A e \in Daemons : e # d => A[e] = ExpireInstances(R, at)[e]
<1>1. at \in Nat /\ at + LeaseTtl \in 0 .. (MaxClock + LeaseTtl)
    BY DaemonRowConstants
<1>2. NewInstance(phase, at) \in DaemonInstance /\ Unreleased(NewInstance(phase, at))
    BY <1>1 DEF NewInstance, DaemonInstance, Unreleased
<1>3. /\ ExpireInstances(R, at) \in DaemonTable
      /\ \A e \in Daemons : ~ Unreleased(ExpireInstances(R, at)[e])
    BY <1>1, ExpireFacts DEF LeaseAvailable
<1> QED
    BY <1>2, <1>3 DEF AcquireLease, DaemonTable

(* release_daemon touches one row, which is unreleased no more.            *)
LEMMA ReleaseFacts ==
    ASSUME NEW R \in DaemonTable, NEW d \in Daemons
    PROVE  LET A == ReleaseInstance(R, d) IN
           /\ A \in DaemonTable
           /\ ~ Unreleased(A[d])
           /\ \A e \in Daemons : e # d => A[e] = R[e]
           /\ R[d].st = "released" => A[d] = R[d]
<1>1. Unreleased(R[d]) => R[d] \in DaemonInstance
    BY UnreleasedRow
<1> QED
    BY <1>1 DEF ReleaseInstance, DaemonTable, DaemonInstance, Unreleased

(* heartbeat_daemon keeps the row unreleased and its stamps in range.      *)
LEMMA HeartbeatFacts ==
    ASSUME NEW R \in DaemonTable, NEW d \in Daemons, NEW at \in 0 .. MaxClock,
           CanHeartbeat(R, d, at)
    PROVE  LET A == HeartbeatLease(R, d, at) IN
           /\ A \in DaemonTable
           /\ Unreleased(R[d]) /\ Unreleased(A[d])
           /\ \A e \in Daemons : e # d => A[e] = R[e]
<1>1. Unreleased(R[d]) /\ R[d] \in DaemonInstance
    BY UnreleasedRow DEF CanHeartbeat
<1>2. at + LeaseTtl \in 0 .. (MaxClock + LeaseTtl)
    BY DaemonRowConstants
<1> QED
    BY <1>1, <1>2 DEF HeartbeatLease, DaemonTable, DaemonInstance, Unreleased

(* transition_daemon_phase changes no more than the phase.                 *)
LEMMA PhaseFacts ==
    ASSUME NEW R \in DaemonTable, NEW d \in Daemons, NEW phase \in Phases,
           CanTransition(R, d, phase)
    PROVE  LET A == TransitionPhase(R, d, phase) IN
           /\ A \in DaemonTable
           /\ Unreleased(R[d]) /\ Unreleased(A[d])
           /\ \A e \in Daemons : e # d => A[e] = R[e]
<1>1. Unreleased(R[d]) /\ R[d] \in DaemonInstance
    BY UnreleasedRow DEF CanTransition
<1> QED
    BY <1>1 DEF TransitionPhase, DaemonTable, DaemonInstance, Unreleased

(* request_daemon_stop changes no more than the stop flag.                 *)
LEMMA StopFacts ==
    ASSUME NEW R \in DaemonTable, NEW d \in Daemons, Unreleased(R[d])
    PROVE  LET A == RequestStopOf(R, d) IN
           /\ A \in DaemonTable
           /\ Unreleased(A[d])
           /\ \A e \in Daemons : e # d => A[e] = R[e]
<1>1. R[d] \in DaemonInstance
    BY UnreleasedRow
<1> QED
    BY <1>1 DEF RequestStopOf, DaemonTable, DaemonInstance, Unreleased

-----------------------------------------------------------------------------
(* The invariant. *)

(* No process, no row, a free lock.                                        *)
LEMMA InitOK == Init => IInv
BY DaemonRowConstants
   DEF Init, IInv, TypeOK, HoldsLock, FreshRow, DaemonOwnsLease, DaemonTable, Pcs, Owning

(* A process on its own, d: it changes its own row only, and its row is    *)
(* unreleased afterwards exactly if it believes to own the lease.          *)
LEMMA OwnRowStep ==
    ASSUME IInv, NEW d \in Daemons, pc[d] \in Owning \cup {"unwinding"},
           NEW to \in Owning \cup {"unwinding"},
           pc' = [pc EXCEPT ![d] = to],
           rows' \in DaemonTable,
           \A e \in Daemons : e # d => rows'[e] = rows[e],
           pc[d] \in Owning /\ to \in Owning => Unreleased(rows'[d]),
           pc[d] = "unwinding" => to = "unwinding",
           UNCHANGED <<clock, lock>>,
           beat' \in [Daemons -> {"none", "live", "failed", "stopped"}],
           cancel' \in [Daemons -> BOOLEAN]
    PROVE  IInv'
<1>1. lock = d /\ \A e \in Daemons : e # d => pc[e] \in {"off", "dead"}
    BY DEF IInv, TypeOK, HoldsLock, Owning, Pcs
<1>2. TypeOK'
    BY DEF IInv, TypeOK, Owning, Pcs
<1>3. HoldsLock'
    BY <1>1 DEF IInv, TypeOK, HoldsLock
<1>4. FreshRow'
    BY <1>1 DEF IInv, TypeOK, FreshRow, Owning
<1>5. DaemonOwnsLease'
    BY <1>1 DEF IInv, TypeOK, DaemonOwnsLease, Owning
<1> QED
    BY <1>2, <1>3, <1>4, <1>5 DEF IInv

(* A process gives its lease up. *)
LEMMA GiveUpStep ==
    ASSUME IInv, NEW d \in Daemons, pc[d] \in Owning, NEW R \in DaemonTable,
           \A e \in Daemons : e # d => R[e] = rows[e],
           rows' = ReleaseInstance(R, d), pc' = [pc EXCEPT ![d] = "unwinding"],
           UNCHANGED <<clock, lock>>,
           beat' \in [Daemons -> {"none", "live", "failed", "stopped"}],
           cancel' \in [Daemons -> BOOLEAN]
    PROVE  IInv'
<1>1. rows' \in DaemonTable /\ \A e \in Daemons : e # d => rows'[e] = rows[e]
    BY ReleaseFacts
<1> QED
    BY <1>1, OwnRowStep, "unwinding" \notin Owning DEF Owning

(* A process leaves, or never got further than the lock. *)
LEMMA LeaveStep ==
    ASSUME IInv, NEW d \in Daemons, pc[d] \notin {"off", "dead"}, Leave(d),
           UNCHANGED <<clock, rows, beat, cancel>>
    PROVE  IInv'
<1>1. lock = d /\ \A e \in Daemons : e # d => pc[e] \in {"off", "dead"}
    BY DEF IInv, TypeOK, HoldsLock, Pcs
<1>2. TypeOK'
    BY DEF IInv, TypeOK, Leave, Pcs
<1>3. HoldsLock' /\ FreshRow' /\ DaemonOwnsLease'
    BY <1>1 DEF IInv, TypeOK, Leave, HoldsLock, FreshRow, DaemonOwnsLease, Owning, Unreleased
<1> QED
    BY <1>2, <1>3 DEF IInv


(* Every step of a process or of the outside preserves IInv.               *)
LEMMA NextOK == IInv /\ [Next]_vars => IInv'
<1> SUFFICES ASSUME IInv, [Next]_vars PROVE IInv'
    OBVIOUS
<1>1. TypeOK /\ rows \in DaemonTable
    BY DEF IInv, TypeOK
<1>2. CASE UNCHANGED vars
    BY <1>2 DEF vars, IInv, TypeOK, HoldsLock, FreshRow, DaemonOwnsLease
<1>3. CASE Tick
    BY <1>3, DaemonRowConstants
       DEF Tick, IInv, TypeOK, HoldsLock, FreshRow, DaemonOwnsLease
<1>4. CASE RequestStop
  <2>1. PICK d \in Daemons : Unreleased(rows[d]) /\ rows' = RequestStopOf(rows, d)
    BY <1>4 DEF RequestStop
  <2>2. /\ rows' \in DaemonTable /\ Unreleased(rows'[d])
        /\ \A e \in Daemons : e # d => rows'[e] = rows[e]
    BY <1>1, <2>1, StopFacts
  <2>3. rows[d] # NoInstance
    BY <2>1 DEF Unreleased, NoInstance
  <2> QED
    BY <1>4, <2>1, <2>2, <2>3
       DEF RequestStop, IInv, TypeOK, HoldsLock, FreshRow, DaemonOwnsLease
<1>5. CASE MaintenanceBegins \/ MaintenanceEnds
    BY <1>5, DaemonLeaseConstants
       DEF MaintenanceBegins, MaintenanceEnds, IInv, TypeOK, HoldsLock, FreshRow,
           DaemonOwnsLease, Owning
<1>6. ASSUME NEW d \in Daemons, TakeOwnerLock(d) PROVE IInv'
  <2>1. lock = Free /\ \A e \in Daemons : pc[e] \in {"off", "dead"}
    BY <1>6, DaemonLeaseConstants DEF TakeOwnerLock, IInv, TypeOK, HoldsLock
  <2> QED
    BY <1>6, <2>1
       DEF TakeOwnerLock, IInv, TypeOK, HoldsLock, FreshRow, DaemonOwnsLease, Owning, Pcs
<1>7. ASSUME NEW d \in Daemons, BootstrapFails(d) \/ ProcessExit(d) \/ Crash(d) PROVE IInv'
    BY <1>7, LeaveStep DEF BootstrapFails, ProcessExit, Crash
<1>8. ASSUME NEW d \in Daemons, NEW at \in Stamps, AcquireStartupLease(d, at) PROVE IInv'
  <2>1. CASE ~ LeaseAvailable(rows, at)
    BY <1>8, <2>1, LeaveStep DEF AcquireStartupLease
  <2>2. CASE LeaseAvailable(rows, at)
    <3>1. /\ rows' = AcquireLease(rows, d, "booting", at)
          /\ pc[d] = "locked" /\ pc' = [pc EXCEPT ![d] = "booting"]
          /\ beat' = [beat EXCEPT ![d] = "live"]
          /\ lock' = lock /\ clock' = clock /\ cancel' = cancel
      BY <1>8, <2>2 DEF AcquireStartupLease
    <3>2. /\ rows' \in DaemonTable
          /\ \A e \in Daemons : Unreleased(rows'[e]) <=> e = d
          /\ \A e \in Daemons : e # d => rows'[e] = ExpireInstances(rows, at)[e]
      BY <1>1, <2>2, <3>1, StampBound, AcquireFacts DEF Phases
    <3>3. lock = d /\ \A e \in Daemons : e # d => pc[e] \in {"off", "dead"}
      BY <3>1 DEF IInv, TypeOK, HoldsLock, Pcs
    <3>4. \A e \in Daemons : rows[e] = NoInstance => ExpireInstances(rows, at)[e] = NoInstance
      BY DEF ExpireInstances, Unreleased, NoInstance
    <3>5. FreshRow'
      BY <3>1, <3>2, <3>3, <3>4 DEF IInv, TypeOK, FreshRow
    <3>6. TypeOK' /\ HoldsLock' /\ DaemonOwnsLease'
      BY <3>1, <3>2, <3>3 DEF IInv, TypeOK, HoldsLock, DaemonOwnsLease, Owning, Pcs
    <3> QED
      BY <3>5, <3>6 DEF IInv
  <2> QED BY <2>1, <2>2
<1>9. ASSUME NEW d \in Daemons, NEW at \in Stamps, StartupHeartbeat(d, at) PROVE IInv'
  <2>1. pc[d] \in Owning \cup {"unwinding"} /\ pc' = [pc EXCEPT ![d] = pc[d]]
    BY <1>9 DEF StartupHeartbeat, Owning, IInv, TypeOK
  <2>2. /\ beat' \in [Daemons -> {"none", "live", "failed", "stopped"}]
        /\ cancel' \in [Daemons -> BOOLEAN]
        /\ UNCHANGED <<clock, lock>>
    BY <1>9 DEF StartupHeartbeat, IInv, TypeOK
  <2>3. \/ rows' = rows
        \/ CanHeartbeat(rows, d, at) /\ rows' = HeartbeatLease(rows, d, at)
    BY <1>9 DEF StartupHeartbeat
  <2>4. /\ rows' \in DaemonTable
        /\ \A e \in Daemons : e # d => rows'[e] = rows[e]
        /\ Unreleased(rows[d]) => Unreleased(rows'[d])
    BY <1>1, <2>3, StampBound, HeartbeatFacts
  <2>5. pc[d] \in Owning => Unreleased(rows'[d])
    BY <2>4 DEF IInv, DaemonOwnsLease
  <2> QED
    BY <2>1, <2>2, <2>4, <2>5, OwnRowStep
<1>10. ASSUME NEW d \in Daemons, StartupError(d) PROVE IInv'
  <2>1. /\ pc[d] \in Owning /\ pc' = [pc EXCEPT ![d] = "unwinding"]
        /\ UNCHANGED <<clock, lock>>
        /\ beat' \in [Daemons -> {"none", "live", "failed", "stopped"}]
        /\ cancel' \in [Daemons -> BOOLEAN]
    BY <1>10 DEF StartupError, Owning, IInv, TypeOK
  <2>2. CASE rows' = ReleaseInstance(rows, d)
    BY <1>1, <2>1, <2>2, GiveUpStep
  <2>3. CASE /\ CanTransition(rows, d, "failed")
             /\ rows' = ReleaseInstance(TransitionPhase(rows, d, "failed"), d)
    <3>1. /\ TransitionPhase(rows, d, "failed") \in DaemonTable
          /\ \A e \in Daemons : e # d => TransitionPhase(rows, d, "failed")[e] = rows[e]
      BY <1>1, <2>3, PhaseFacts DEF Phases
    <3> QED
      BY <2>1, <2>3, <3>1, GiveUpStep
  <2> QED
    BY <1>10, <2>2, <2>3 DEF StartupError
<1>11. ASSUME NEW d \in Daemons, EnterProbing(d) \/ EnterOnline(d) PROVE IInv'
  <2>1. PICK phase \in {"probing", "online"}, to \in Owning :
          /\ pc[d] \in Owning /\ CanTransition(rows, d, phase)
          /\ rows' = TransitionPhase(rows, d, phase)
          /\ pc' = [pc EXCEPT ![d] = to] /\ UNCHANGED <<clock, lock, beat, cancel>>
    BY <1>11 DEF EnterProbing, EnterOnline, EnterPhase, Owning
  <2>2. /\ rows' \in DaemonTable /\ Unreleased(rows'[d])
        /\ \A e \in Daemons : e # d => rows'[e] = rows[e]
    BY <1>1, <2>1, PhaseFacts DEF Phases
  <2>3. /\ beat' \in [Daemons -> {"none", "live", "failed", "stopped"}]
        /\ cancel' \in [Daemons -> BOOLEAN]
    BY <2>1 DEF IInv, TypeOK
  <2> QED
    BY <2>1, <2>2, <2>3, OwnRowStep DEF Owning
<1>12. ASSUME NEW d \in Daemons,
              \/ StartupCancelled(d) \/ StartupFails(d) \/ StartupHeartbeatFailed(d)
              \/ LoopError(d) \/ FinishDrain(d)
       PROVE  IInv'
  <2>1. /\ pc[d] \in Owning /\ pc' = [pc EXCEPT ![d] = "unwinding"]
        /\ rows' = ReleaseInstance(rows, d) /\ UNCHANGED <<clock, lock>>
    BY <1>12 DEF StartupCancelled, StartupFails, StartupHeartbeatFailed, GiveUpStartup,
                 LoopError, FinishDrain, Owning
  <2>2. /\ beat' \in [Daemons -> {"none", "live", "failed", "stopped"}]
        /\ cancel' \in [Daemons -> BOOLEAN]
    BY <1>1, <1>12 DEF StartupCancelled, StartupFails, StartupHeartbeatFailed, GiveUpStartup,
                 LoopError, FinishDrain, TypeOK
  <2> QED
    BY <1>1, <2>1, <2>2, GiveUpStep
<1>13. ASSUME NEW d \in Daemons, NEW at \in Stamps, BeginServing(d, at) \/ ServeHeartbeat(d, at)
       PROVE  IInv'
  <2>1. /\ pc[d] \in Owning /\ UNCHANGED <<clock, lock>>
        /\ beat' \in [Daemons -> {"none", "live", "failed", "stopped"}]
        /\ cancel' \in [Daemons -> BOOLEAN]
    BY <1>1, <1>13 DEF BeginServing, ServeHeartbeat, Owning, TypeOK
  <2>2. \/ /\ rows' = ReleaseInstance(rows, d) /\ pc' = [pc EXCEPT ![d] = "unwinding"]
        \/ /\ CanHeartbeat(rows, d, at) /\ rows' = HeartbeatLease(rows, d, at)
           /\ pc' = [pc EXCEPT ![d] = "serving"]
        \/ rows' = rows /\ pc' = [pc EXCEPT ![d] = "draining"]
    BY <1>1, <1>13 DEF BeginServing, ServeHeartbeat, TypeOK
  <2>3. CASE rows' = ReleaseInstance(rows, d) /\ pc' = [pc EXCEPT ![d] = "unwinding"]
    BY <1>1, <2>1, <2>3, GiveUpStep
  <2>4. CASE /\ CanHeartbeat(rows, d, at) /\ rows' = HeartbeatLease(rows, d, at)
             /\ pc' = [pc EXCEPT ![d] = "serving"]
    <3>1. /\ rows' \in DaemonTable /\ Unreleased(rows'[d])
          /\ \A e \in Daemons : e # d => rows'[e] = rows[e]
      BY <1>1, <2>4, StampBound, HeartbeatFacts
    <3> QED
      BY <2>1, <2>4, <3>1, OwnRowStep DEF Owning
  <2>5. CASE rows' = rows /\ pc' = [pc EXCEPT ![d] = "draining"]
    <3>1. Unreleased(rows'[d])
      BY <2>1, <2>5 DEF IInv, DaemonOwnsLease
    <3> QED
      BY <1>1, <2>1, <2>5, <3>1, OwnRowStep DEF Owning
  <2> QED BY <2>2, <2>3, <2>4, <2>5
<1>14. ASSUME NEW d \in Daemons, ServeCancelled(d) PROVE IInv'
  <2>1. Unreleased(rows'[d])
    BY <1>14 DEF ServeCancelled, IInv, DaemonOwnsLease, Owning
  <2> QED
    BY <1>1, <1>14, <2>1, OwnRowStep DEF ServeCancelled, Owning, TypeOK
<1>15. ASSUME NEW d \in Daemons, Interrupt(d) PROVE IInv'
    BY <1>15 DEF Interrupt, IInv, TypeOK, HoldsLock, FreshRow, DaemonOwnsLease
<1> QED
    BY <1>2, <1>3, <1>4, <1>5, <1>6, <1>7, <1>8, <1>9, <1>10, <1>11, <1>12, <1>13,
       <1>14, <1>15
       DEF Next


-----------------------------------------------------------------------------
(* The daemon's lock, rows and processes satisfy IInv always. *)
THEOREM DaemonInvariant == Spec => []IInv
<1> QED
    BY InitOK, NextOK, PTL DEF Spec

(* Every row and every process is well formed, however often processes     *)
(* start, fail, crash and are stopped.                                     *)
THEOREM TypeCorrect == Spec => []TypeOK
<1>1. IInv => TypeOK
    BY DEF IInv
<1> QED
    BY <1>1, DaemonInvariant, PTL

(* At most one process acts as the daemon, and the one unreleased row is   *)
(* its own, even while it is suspended past its expiry: the owner lock of   *)
(* ipc.rs keeps the takeover of daemon_instances.rs away from it.          *)
THEOREM SingleDaemon == Spec => []DaemonOwnsLease
<1>1. IInv => DaemonOwnsLease
    BY DEF IInv
<1> QED
    BY <1>1, DaemonInvariant, PTL

(* What a step may do to a row: leave it, acquire it, change it while it   *)
(* is unreleased; and a row that its process did not give up itself is     *)
(* released only by the sweep.                                             *)
RowStep(d) ==
    /\ rows[d].st = "released" => rows'[d] = rows[d]
    /\ pc[d] = "dead" /\ Unreleased(rows[d]) /\ ~ Unreleased(rows'[d])
        => rows[d].expires <= clock

(* Releasing its own row is a legal step for a process that is not dead.   *)
LEMMA ReleasingRow ==
    ASSUME rows \in DaemonTable, NEW d \in Daemons, pc[d] # "dead", NEW R \in DaemonTable,
           rows[d].st = "released" => R[d] = rows[d],
           \A e \in Daemons : e # d => R[e] = rows[e],
           rows' = ReleaseInstance(R, d), NEW e \in Daemons
    PROVE  RowStep(e)
<1>1. CASE e = d
    BY <1>1, ReleaseFacts DEF RowStep
<1>2. CASE e # d
    BY <1>2, ReleaseFacts DEF RowStep
<1> QED BY <1>1, <1>2

(* Every step treats every row as RowStep allows.                          *)
LEMMA RowSteps == IInv /\ [Next]_vars => \A d \in Daemons : RowStep(d)
<1> SUFFICES ASSUME IInv, [Next]_vars, NEW e \in Daemons PROVE RowStep(e)
    OBVIOUS
<1>1. TypeOK /\ rows \in DaemonTable
    BY DEF IInv, TypeOK
<1>2. CASE UNCHANGED rows
    BY <1>2 DEF RowStep
<1>3. ASSUME NEW d \in Daemons, Unreleased(rows[d]), Unreleased(rows'[d]),
             \A f \in Daemons : f # d => rows'[f] = rows[f]
      PROVE  RowStep(e)
    BY <1>3 DEF RowStep, Unreleased
<1>4. ASSUME NEW d \in Daemons, NEW at \in Stamps,
             CanHeartbeat(rows, d, at), rows' = HeartbeatLease(rows, d, at)
      PROVE  RowStep(e)
    BY <1>1, <1>3, <1>4, StampBound, HeartbeatFacts
<1>5. CASE RequestStop
    BY <1>1, <1>3, <1>5, StopFacts DEF RequestStop
<1>6. ASSUME NEW d \in Daemons, NEW at \in Stamps, AcquireStartupLease(d, at)
      PROVE  RowStep(e)
  <2>1. CASE ~ LeaseAvailable(rows, at)
    BY <1>2, <1>6, <2>1 DEF AcquireStartupLease
  <2>2. CASE LeaseAvailable(rows, at)
    <3>1. rows' = AcquireLease(rows, d, "booting", at) /\ rows[d] = NoInstance
      BY <1>6, <2>2 DEF AcquireStartupLease, IInv, FreshRow
    <3>2. at \in Nat /\ at <= clock /\ at \in 0 .. MaxClock /\ clock \in Nat
      BY <1>1, StampBound, DaemonRowConstants DEF TypeOK
    <3>3. \A f \in Daemons : f # d => rows'[f] = ExpireInstances(rows, at)[f]
      BY <1>1, <2>2, <3>1, <3>2, AcquireFacts DEF Phases
    <3>4. CASE e = d
      BY <3>1, <3>4 DEF RowStep, NoInstance, Unreleased
    <3>5. CASE e # d
      <4>1. /\ ~ Unreleased(rows[e]) => rows'[e] = rows[e]
            /\ Unreleased(rows[e]) /\ ~ Unreleased(rows'[e]) => rows[e].expires <= at
        BY <1>1, <3>2, <3>3, <3>5, ExpireFacts
      <4>2. Unreleased(rows[e]) => rows[e].expires \in Nat
        BY <1>1, UnreleasedRow, DaemonRowConstants DEF DaemonInstance
      <4> QED
        BY <3>2, <4>1, <4>2 DEF RowStep, Unreleased
    <3> QED BY <3>4, <3>5
  <2> QED BY <2>1, <2>2
<1>7. ASSUME NEW d \in Daemons, pc[d] # "dead", rows' = ReleaseInstance(rows, d)
      PROVE  RowStep(e)
    BY <1>1, <1>7, ReleasingRow
<1>8. ASSUME NEW d \in Daemons, StartupError(d) PROVE RowStep(e)
  <2>1. pc[d] # "dead"
    BY <1>8 DEF StartupError
  <2>2. CASE rows' = ReleaseInstance(rows, d)
    BY <1>7, <2>1, <2>2
  <2>3. CASE /\ CanTransition(rows, d, "failed")
             /\ rows' = ReleaseInstance(TransitionPhase(rows, d, "failed"), d)
    <3>1. /\ TransitionPhase(rows, d, "failed") \in DaemonTable /\ Unreleased(rows[d])
          /\ \A f \in Daemons : f # d => TransitionPhase(rows, d, "failed")[f] = rows[f]
      BY <1>1, <2>3, PhaseFacts DEF Phases
    <3>2. rows[d].st # "released"
      BY <3>1 DEF Unreleased
    <3> QED
      BY <1>1, <2>1, <2>3, <3>1, <3>2, ReleasingRow
  <2> QED
    BY <1>8, <2>2, <2>3 DEF StartupError
<1>9. ASSUME NEW d \in Daemons, EnterProbing(d) \/ EnterOnline(d) PROVE RowStep(e)
  <2>1. PICK phase \in {"probing", "online"} :
          CanTransition(rows, d, phase) /\ rows' = TransitionPhase(rows, d, phase)
    BY <1>9 DEF EnterProbing, EnterOnline, EnterPhase
  <2> QED
    BY <1>1, <1>3, <2>1, PhaseFacts DEF Phases
<1>10. ASSUME NEW d \in Daemons,
              \/ StartupCancelled(d) \/ StartupFails(d) \/ StartupHeartbeatFailed(d)
              \/ LoopError(d) \/ FinishDrain(d)
       PROVE  RowStep(e)
    BY <1>7, <1>10 DEF StartupCancelled, StartupFails, StartupHeartbeatFailed,
                       GiveUpStartup, LoopError, FinishDrain
<1>11. ASSUME NEW d \in Daemons, NEW at \in Stamps,
              StartupHeartbeat(d, at) \/ BeginServing(d, at) \/ ServeHeartbeat(d, at)
       PROVE  RowStep(e)
    BY <1>2, <1>4, <1>7, <1>11 DEF StartupHeartbeat, BeginServing, ServeHeartbeat
<1>12. ASSUME NEW d \in Daemons,
              \/ TakeOwnerLock(d) \/ BootstrapFails(d) \/ ServeCancelled(d)
              \/ ProcessExit(d) \/ Crash(d) \/ Interrupt(d)
       PROVE  RowStep(e)
    BY <1>2, <1>12 DEF TakeOwnerLock, BootstrapFails, ServeCancelled, ProcessExit, Crash,
                       Interrupt
<1>13. CASE Tick \/ MaintenanceBegins \/ MaintenanceEnds \/ UNCHANGED vars
    BY <1>2, <1>13 DEF Tick, MaintenanceBegins, MaintenanceEnds, vars
<1> QED
    BY <1>5, <1>6, <1>8, <1>9, <1>10, <1>11, <1>12, <1>13 DEF Next

(* A released row never changes again: every statement on it is guarded by *)
(* released_at IS NULL, and an instance id is used once.                   *)
THEOREM ReleasedStaysReleased == Spec => ReleasedIsFinal
<1>1. IInv /\ [Next]_vars =>
        [\A d \in Daemons : rows[d].st = "released" => rows'[d] = rows[d]]_vars
    BY RowSteps DEF RowStep
<1> QED
    BY <1>1, DaemonInvariant, PTL DEF Spec, ReleasedIsFinal

(* Nobody takes the lease of a crashed daemon before it has expired, with  *)
(* timestamps however old.                                                 *)
THEOREM NoEarlyTakeover == Spec => TakeoverAfterExpiry
<1>1. IInv /\ [Next]_vars =>
        [\A d \in Daemons :
            /\ pc[d] = "dead" /\ Unreleased(rows[d]) /\ ~ Unreleased(rows'[d])
            => rows[d].expires <= clock]_vars
    BY RowSteps DEF RowStep
<1> QED
    BY <1>1, DaemonInvariant, PTL DEF Spec, TakeoverAfterExpiry

(* No step of any process takes a row too early or rewrites a released one.*)
THEOREM RowsAreHonoured == Spec => RowsHonoured
<1> QED
    BY ReleasedStaysReleased, NoEarlyTakeover, PTL DEF RowsHonoured

(* A process becomes the daemon only while it holds the owner lock.        *)
LEMMA ActsAfterLock ==
    ASSUME IInv, [Next]_vars, NEW d \in Daemons, pc'[d] \in Owning
    PROVE  pc[d] \in Owning \cup {"locked"}
<1>1. pc \in [Daemons -> Pcs]
    BY DEF IInv, TypeOK
<1>2. CASE UNCHANGED pc
    BY <1>2
<1>3. ASSUME NEW e \in Daemons, NEW to \in Pcs \ Owning, pc' = [pc EXCEPT ![e] = to]
      PROVE  pc[d] \in Owning
    BY <1>1, <1>3
<1>4. ASSUME NEW e \in Daemons, NEW to, pc' = [pc EXCEPT ![e] = to],
             pc[e] \in Owning \cup {"locked"}
      PROVE  pc[d] \in Owning \cup {"locked"}
    BY <1>1, <1>4
<1>5. {"locked", "unwinding", "dead"} \subseteq Pcs \ Owning
    BY DEF Pcs, Owning
<1>6. {"booting", "probing", "starting", "serving"} \subseteq Owning
    BY DEF Owning
<1>7. ASSUME NEW e \in Daemons,
             \/ TakeOwnerLock(e) \/ BootstrapFails(e) \/ StartupError(e)
             \/ StartupCancelled(e) \/ StartupFails(e) \/ StartupHeartbeatFailed(e)
             \/ LoopError(e) \/ FinishDrain(e) \/ ProcessExit(e) \/ Crash(e)
      PROVE  pc[d] \in Owning
    BY <1>3, <1>5, <1>7 DEF TakeOwnerLock, BootstrapFails, StartupError, StartupCancelled,
         StartupFails, StartupHeartbeatFailed, GiveUpStartup, LoopError, FinishDrain,
         ProcessExit, Crash, Leave
<1>8. ASSUME NEW e \in Daemons,
             \/ EnterProbing(e) \/ EnterOnline(e) \/ ServeCancelled(e)
             \/ \E at \in Stamps :
                  \/ AcquireStartupLease(e, at) \/ BeginServing(e, at) \/ ServeHeartbeat(e, at)
      PROVE  pc[d] \in Owning \cup {"locked"}
    BY <1>2, <1>4, <1>6, <1>8 DEF EnterProbing, EnterOnline, EnterPhase, ServeCancelled,
         AcquireStartupLease, BeginServing, ServeHeartbeat, Leave
<1>9. CASE \/ Tick \/ RequestStop \/ MaintenanceBegins \/ MaintenanceEnds \/ UNCHANGED vars
           \/ \E e \in Daemons : Interrupt(e) \/ \E at \in Stamps : StartupHeartbeat(e, at)
    BY <1>2, <1>9 DEF Tick, RequestStop, MaintenanceBegins, MaintenanceEnds, vars, Interrupt,
         StartupHeartbeat
<1> QED
    BY <1>7, <1>8, <1>9 DEF Next

(* At most one process acts as the daemon, and its row is not released.    *)
ActsAlone ==
    /\ \A d, e \in Acting["daemon"] : d = e
    /\ Acting["daemon"] \cap ReleasedInstances = {}

(* The lock has one holder, and the holder's row is the unreleased one.    *)
LEMMA ActingExclusive == IInv => ActsAlone
<1> SUFFICES ASSUME IInv PROVE ActsAlone
    OBVIOUS
<1>1. \A d \in Acting["daemon"] : d \in Daemons /\ lock = d /\ rows[d].st = "active"
    BY DEF IInv, DaemonOwnsLease, Acting, Unreleased
<1> QED
    BY <1>1 DEF ReleasedInstances, ActsAlone

(* Owner lock, rows and processes implement ExclusiveGrant: the role of    *)
(* the daemon is granted to one instance at a time, is never passed on in  *)
(* one step, and never goes to an instance whose row is released.          *)
THEOREM RoleRefinement == Spec => ImplementsExclusiveRole
<1>1. Init => Role!Init
    BY InitOK, ActingExclusive DEF Role!Init, ActsAlone
<1>2. IInv /\ IInv' /\ [Next]_vars => [Role!Next]_<<Acting, ReleasedInstances>>
  <2> SUFFICES ASSUME IInv, IInv', [Next]_vars PROVE Role!Next
    OBVIOUS
  <2>1. ReleasedInstances \subseteq ReleasedInstances'
    BY RowSteps DEF RowStep, ReleasedInstances
  <2>2. /\ \A d, e \in Acting'["daemon"] : d = e
        /\ Acting'["daemon"] \cap ReleasedInstances' = {}
    <3>1. ActsAlone'
      BY ActingExclusive, PTL
    <3> QED
      BY <3>1 DEF ActsAlone
  <2>3. ASSUME NEW d \in Acting["daemon"], NEW e \in Acting'["daemon"]
        PROVE  d = e
    <3>1. d \in Daemons /\ lock = d /\ e \in Daemons /\ pc'[e] \in Owning
      BY <2>3 DEF IInv, DaemonOwnsLease, Acting
    <3>2. pc[e] \in Owning \cup {"locked"}
      BY <3>1, ActsAfterLock
    <3>3. lock = e
      BY <3>1, <3>2 DEF IInv, HoldsLock, Owning
    <3> QED
      BY <3>1, <3>3
  <2>4. Role!Keep("daemon") \/ Role!Lose("daemon") \/ Role!Grant("daemon")
    <3>1. CASE Acting'["daemon"] = {}
      BY <3>1 DEF Role!Lose
    <3>2. ASSUME NEW e \in Acting'["daemon"]
          PROVE  Role!Keep("daemon") \/ Role!Grant("daemon")
      <4>1. Acting'["daemon"] = {e} /\ e \notin ReleasedInstances' /\ e \in Daemons
        BY <2>2, <3>2 DEF Acting
      <4>2. CASE Acting["daemon"] = {}
        BY <4>1, <4>2 DEF Role!Grant
      <4>3. CASE Acting["daemon"] # {}
        <5>1. Acting["daemon"] = {e}
          BY <2>3, <4>3
        <5> QED
          BY <4>1, <5>1 DEF Role!Keep
      <4> QED
        BY <4>2, <4>3
    <3> QED
      BY <3>1, <3>2
  <2> QED
    BY <2>1, <2>2, <2>4 DEF Role!Next
<1> QED
    BY <1>1, <1>2, DaemonInvariant, PTL DEF Spec, ImplementsExclusiveRole, Role!Spec

-----------------------------------------------------------------------------
(* The start of the daemon by commands. Boot is DaemonBootstrap over state *)
(* of its own; holder stands for its variable lock, a name DaemonLease has *)
(* taken.                                                                  *)
CONSTANTS Commands, Kind, Repo, Incumbents, Legacy, MaxFaults, None

VARIABLES proc, holder, path, client, faults

Boot == INSTANCE DaemonBootstrap WITH lock <- holder

(* The owner lock names its holder. *)
LEMMA HolderNames ==
    ASSUME Boot!BootConstants
    PROVE  /\ \A p, q \in Boot!Processes : Boot!Daemon(p) = Boot!Daemon(q) => p = q
           /\ \A c, e \in Commands : Boot!Probe(c) = Boot!Probe(e) => c = e
           /\ \A p \in Boot!Processes, c \in Commands : Boot!Daemon(p) # Boot!Probe(c)
           /\ \A p \in Boot!Processes : Boot!Daemon(p) # None /\ Boot!Daemon(p) \in Boot!Holders
           /\ \A c \in Commands : Boot!Probe(c) # None /\ Boot!Probe(c) \in Boot!Holders
           /\ None \in Boot!Holders
BY DEF Boot!BootConstants, Boot!Daemon, Boot!Probe, Boot!Holders, Boot!Processes

(* The workspace of every command and process is one. *)
LEMMA RepoType == \A p \in Boot!Processes : Repo[p] \in Boot!Workspaces
BY DEF Boot!Workspaces

(* A step of some processes and commands keeps the invariant when each of  *)
(* them is left well, no process that has bound the endpoint stops serving *)
(* what it serves, and only a command that spawns brings one to life.      *)
LEMMA Moves ==
    ASSUME Boot!IInv, Boot!TypeOK', Boot!LockHeld',
           \A p \in Boot!Processes :
              \/ proc'[p] = proc[p]
              \/ /\ Boot!RuntimesHeld(p)' /\ Boot!EndpointHeld(p)'
                 /\ proc[p].pc = "unborn" /\ p \in Commands =>
                       proc'[p].pc = "unborn" \/ client'[p].spawned
                 /\ proc[p].ipc # "none" => proc'[p].ipc # "none"
                 /\ \A w \in Boot!Workspaces :
                       proc[p].ipc # "none" /\ Boot!Serves(p, w) => Boot!Serves(p, w)',
           \A c \in Commands : client'[c] = client[c] \/ Boot!CommandHeld(c)'
    PROVE  Boot!IInv'
<1>1. ASSUME NEW p \in Boot!Processes PROVE Boot!RuntimesHeld(p)' /\ Boot!EndpointHeld(p)'
    <2>1. CASE proc'[p] = proc[p]
        BY <2>1 DEF Boot!IInv, Boot!RuntimesHeld, Boot!EndpointHeld, Boot!Serves
    <2> QED
        BY <2>1
<1>2. ASSUME NEW c \in Commands PROVE Boot!CommandHeld(c)'
    <2>1. CASE client'[c] = client[c]
        <3>1. Boot!CommandHeld(c) /\ c \in Boot!Processes /\ Repo[c] \in Boot!Workspaces
            BY RepoType DEF Boot!IInv, Boot!Processes
        <3>2. ~client[c].spawned => proc'[c].pc = "unborn" /\ ~client[c].child
            BY <2>1, <3>1 DEF Boot!CommandHeld
        <3>3. ASSUME client[c].pc = "connected"
              PROVE  /\ proc'[client[c].via].ipc # "none"
                     /\ Boot!Serves(client[c].via, Repo[c])'
            <4> DEFINE v == client[c].via
            <4>1. v \in Boot!Processes /\ proc[v].ipc # "none" /\ Boot!Serves(v, Repo[c])
                BY <3>1, <3>3 DEF Boot!CommandHeld
            <4>2. CASE proc'[v] = proc[v]
                BY <2>1, <4>1, <4>2 DEF Boot!Serves
            <4>3. CASE proc'[v] # proc[v]
                <5>1. proc'[v].ipc # "none"
                    BY <4>1, <4>3
                <5>2. ASSUME NEW u \in Boot!Processes, u = v PROVE Boot!Serves(u, Repo[c])'
                    BY <3>1, <4>1, <4>3, <5>2
                <5> QED
                    BY <2>1, <4>1, <5>1, <5>2 DEF Boot!Serves
            <4> QED
                BY <4>2, <4>3
        <3> QED
            BY <2>1, <3>1, <3>2, <3>3 DEF Boot!CommandHeld, Boot!Serves
    <2> QED
        BY <2>1
<1> QED
    BY <1>1, <1>2 DEF Boot!IInv

-----------------------------------------------------------------------------
(* The process. *)

(* A record of the table of processes is a full record. *)
LEMMA ProcFacts ==
    ASSUME Boot!IInv, NEW p \in Boot!Processes
    PROVE  /\ proc[p] \in Boot!ProcRecord /\ Repo[p] \in Boot!Workspaces
           /\ proc[p].runtimes \in [Boot!Workspaces -> Nat]
           /\ Boot!RuntimesHeld(p) /\ Boot!EndpointHeld(p)
BY RepoType DEF Boot!IInv, Boot!TypeOK, Boot!ProcRecord

(* A step of one process that ends in a full record and leaves the lock in *)
(* order.                                                                  *)
LEMMA ProcMoves ==
    ASSUME Boot!IInv, NEW p \in Boot!Processes, NEW r \in Boot!ProcRecord,
           proc' = [proc EXCEPT ![p] = r],
           holder' \in Boot!Holders, path' \in Boot!Processes \union {None}, faults' \in 0..MaxFaults,
           UNCHANGED client, Boot!LockHeld', Boot!RuntimesHeld(p)', Boot!EndpointHeld(p)',
           proc[p].pc = "unborn" => r.pc = "unborn",
           proc[p].ipc # "none" => r.ipc # "none",
           \A w \in Boot!Workspaces : proc[p].ipc # "none" /\ Boot!Serves(p, w) => Boot!Serves(p, w)'
    PROVE  Boot!IInv'
<1>1. Boot!TypeOK'
    BY DEF Boot!IInv, Boot!TypeOK
<1>2. proc'[p] = r /\ \A q \in Boot!Processes : q # p => proc'[q] = proc[q]
    BY DEF Boot!IInv, Boot!TypeOK
<1> QED
    BY <1>1, <1>2, Moves

(* A process ends: its listener, its lock and its runtimes go with it.     *)
LEMMA EndFacts ==
    ASSUME Boot!BootConstants, Boot!IInv, NEW p \in Boot!Processes, Boot!End(p)
    PROVE  /\ proc' \in [Boot!Processes -> Boot!ProcRecord]
           /\ holder' \in Boot!Holders
           /\ \A q \in Boot!Processes : q # p => proc'[q] = proc[q]
           /\ proc'[p].pc = "gone" /\ proc'[p].ipc = "closed"
           /\ \A w \in Boot!Workspaces : proc'[p].runtimes[w] = 0
           /\ \A q \in Boot!Processes :
                holder' = Boot!Daemon(q) <=> proc'[q].pc \in {"owned", "probing", "online"}
           /\ \A c \in Commands : holder = Boot!Probe(c) => holder' = Boot!Probe(c)
<1> DEFINE r == [proc[p] EXCEPT !.pc = "gone", !.ipc = "closed", !.runtimes = Boot!NoRuntimes]
<1>1. proc \in [Boot!Processes -> Boot!ProcRecord] /\ holder \in Boot!Holders
    BY DEF Boot!IInv, Boot!TypeOK
<1>2. Boot!NoRuntimes \in [Boot!Workspaces -> Nat] /\ \A w \in Boot!Workspaces : Boot!NoRuntimes[w] = 0
    BY DEF Boot!NoRuntimes
<1>3. proc' = [proc EXCEPT ![p] = r]
    BY DEF Boot!End
<1>4. /\ proc' \in [Boot!Processes -> Boot!ProcRecord]
      /\ \A q \in Boot!Processes : q # p => proc'[q] = proc[q]
      /\ proc'[p].pc = "gone" /\ proc'[p].ipc = "closed" /\ proc'[p].runtimes = Boot!NoRuntimes
    <2>1. /\ r \in Boot!ProcRecord
          /\ r.pc = "gone" /\ r.ipc = "closed" /\ r.runtimes = Boot!NoRuntimes
        BY <1>1, <1>2 DEF Boot!ProcRecord
    <2> HIDE DEF r
    <2> QED
        BY <1>1, <1>3, <2>1
<1>5. holder' = IF holder = Boot!Daemon(p) THEN None ELSE holder
    BY DEF Boot!End
<1>6. \A q \in Boot!Processes :
        holder' = Boot!Daemon(q) <=> proc'[q].pc \in {"owned", "probing", "online"}
    BY <1>4, <1>5, HolderNames DEF Boot!IInv, Boot!LockHeld
<1>7. holder' \in Boot!Holders /\ \A c \in Commands : holder = Boot!Probe(c) => holder' = Boot!Probe(c)
    BY <1>1, <1>5, HolderNames
<1> QED
    BY <1>2, <1>4, <1>6, <1>7

(* A process that is there ends, whatever the commands do that did not     *)
(* spawn or connect.                                                       *)
LEMMA EndOK ==
    ASSUME Boot!BootConstants, Boot!IInv, NEW p \in Boot!Processes, Boot!End(p), proc[p].pc # "unborn",
           path' \in Boot!Processes \union {None}, faults' \in 0..MaxFaults,
           client' \in [Commands -> Boot!ClientRecord],
           \A c \in Commands :
              client'[c] = client[c] \/ (Boot!CommandHeld(c)' /\ client'[c].pc # "return")
    PROVE  Boot!IInv'
<1>1. /\ proc' \in [Boot!Processes -> Boot!ProcRecord] /\ holder' \in Boot!Holders
      /\ \A q \in Boot!Processes : q # p => proc'[q] = proc[q]
      /\ proc'[p].pc = "gone" /\ proc'[p].ipc = "closed"
      /\ \A w \in Boot!Workspaces : proc'[p].runtimes[w] = 0
      /\ \A q \in Boot!Processes :
            holder' = Boot!Daemon(q) <=> proc'[q].pc \in {"owned", "probing", "online"}
      /\ \A c \in Commands : holder = Boot!Probe(c) => holder' = Boot!Probe(c)
    BY EndFacts
<1>2. Boot!TypeOK'
    BY <1>1 DEF Boot!TypeOK
<1>3. Boot!LockHeld'
    BY <1>1 DEF Boot!IInv, Boot!LockHeld
<1>4. Boot!RuntimesHeld(p)' /\ Boot!EndpointHeld(p)' /\ \A w \in Boot!Workspaces : Boot!Serves(p, w)'
    BY <1>1 DEF Boot!RuntimesHeld, Boot!EndpointHeld, Boot!Serves
<1> QED
    BY <1>1, <1>2, <1>3, <1>4, Moves

(* DaemonOwnerLock::acquire *)
LEMMA AcquireLockOK ==
    ASSUME Boot!BootConstants, Boot!IInv, NEW p \in Boot!Processes, Boot!AcquireLock(p)
    PROVE  Boot!IInv'
<1>1. proc[p].pc = "starting" /\ UNCHANGED <<path, client, faults>>
    BY DEF Boot!AcquireLock
<1>2. CASE holder = None
    <2> DEFINE r == [proc[p] EXCEPT !.pc = "owned"]
    <2>1. proc' = [proc EXCEPT ![p] = r] /\ holder' = Boot!Daemon(p)
        BY <1>2 DEF Boot!AcquireLock
    <2>2. r \in Boot!ProcRecord /\ r.pc = "owned" /\ r.ipc = proc[p].ipc /\ r.runtimes = proc[p].runtimes
        BY ProcFacts DEF Boot!ProcRecord
    <2>3. proc'[p] = r /\ \A q \in Boot!Processes : q # p => proc'[q] = proc[q]
        BY <2>1 DEF Boot!IInv, Boot!TypeOK
    <2>4. proc[p].ipc = "none"
        BY <1>1 DEF Boot!IInv, Boot!EndpointHeld
    <2>5. Boot!LockHeld'
        BY <1>1, <1>2, <2>1, <2>2, <2>3, HolderNames DEF Boot!IInv, Boot!LockHeld
    <2>6. Boot!RuntimesHeld(p)' /\ Boot!EndpointHeld(p)'
        BY <1>1, <2>2, <2>3, <2>4, ProcFacts DEF Boot!RuntimesHeld, Boot!EndpointHeld
    <2> QED
        BY <1>1, <2>1, <2>2, <2>4, <2>5, <2>6, HolderNames, ProcMoves DEF Boot!IInv, Boot!TypeOK
<1>3. CASE holder # None
    BY <1>1, <1>3, EndOK DEF Boot!AcquireLock, Boot!IInv, Boot!TypeOK
<1> QED
    BY <1>2, <1>3

(* A startup that fails before the bind, an exit, a crash.                 *)
LEMMA EndsOK ==
    ASSUME Boot!BootConstants, Boot!IInv, NEW p \in Boot!Processes, Boot!BootFails(p) \/ Boot!Exit(p) \/ Boot!Crash(p)
    PROVE  Boot!IInv'
<1>1. Boot!End(p) /\ proc[p].pc # "unborn" /\ UNCHANGED <<path, client>>
    BY DEF Boot!BootFails, Boot!Exit, Boot!Crash, Boot!Alive
<1>2. faults' \in 0..MaxFaults
    BY DEF Boot!BootFails, Boot!Exit, Boot!Crash, Boot!IInv, Boot!TypeOK, Boot!BootConstants
<1> QED
    BY <1>1, <1>2, EndOK DEF Boot!IInv, Boot!TypeOK

(* IpcServer::bind *)
LEMMA BindOK ==
    ASSUME Boot!BootConstants, Boot!IInv, NEW p \in Boot!Processes, Boot!Bind(p)
    PROVE  Boot!IInv'
<1> DEFINE r == [proc[p] EXCEPT !.pc = "probing", !.ipc = "serving", !.active = {Repo[p]}]
<1>1. /\ proc[p].pc = "owned" /\ proc' = [proc EXCEPT ![p] = r]
      /\ path' = p /\ UNCHANGED <<holder, client, faults>>
    BY DEF Boot!Bind
<1>2. /\ r \in Boot!ProcRecord /\ r.pc = "probing" /\ r.ipc = "serving"
      /\ r.active = {Repo[p]} /\ r.runtimes = proc[p].runtimes
    <2>1. proc[p] \in Boot!ProcRecord /\ {Repo[p]} \in SUBSET Boot!Workspaces
        BY ProcFacts
    <2> QED
        BY <2>1 DEF Boot!ProcRecord
<1>3. proc'[p] = r /\ \A q \in Boot!Processes : q # p => proc'[q] = proc[q]
    BY <1>1 DEF Boot!IInv, Boot!TypeOK
<1>4. proc[p].ipc = "none"
    BY <1>1 DEF Boot!IInv, Boot!EndpointHeld
<1>5. Boot!LockHeld'
    BY <1>1, <1>2, <1>3 DEF Boot!IInv, Boot!LockHeld
<1>6. Boot!RuntimesHeld(p)' /\ Boot!EndpointHeld(p)'
    BY <1>1, <1>2, <1>3, ProcFacts DEF Boot!RuntimesHeld, Boot!EndpointHeld, Boot!Serves
<1> QED
    BY <1>1, <1>2, <1>4, <1>5, <1>6, ProcMoves DEF Boot!IInv, Boot!TypeOK

(* The main task returns and drops the owner lock: the early returns, the  *)
(* IPC task that ended first, and the end of every runtime.                *)
LEMMA ReturnsOK ==
    ASSUME Boot!BootConstants, Boot!IInv, NEW p \in Boot!Processes,
           Boot!StartupReturns(p) \/ Boot!IpcStopped(p) \/ Boot!Leave(p)
    PROVE  Boot!IInv'
<1>1. /\ proc[p].pc \in {"probing", "online"} /\ holder' = None
      /\ UNCHANGED <<path, client>>
    BY DEF Boot!StartupReturns, Boot!IpcStopped, Boot!Leave
<1>2. faults' \in 0..MaxFaults
    BY DEF Boot!StartupReturns, Boot!IpcStopped, Boot!Leave, Boot!IInv, Boot!TypeOK, Boot!BootConstants
<1>3. Boot!NoRuntimes \in [Boot!Workspaces -> Nat] /\ \A w \in Boot!Workspaces : Boot!NoRuntimes[w] = 0
    BY DEF Boot!NoRuntimes
<1>4. PICK r \in Boot!ProcRecord :
        /\ proc' = [proc EXCEPT ![p] = r]
        /\ r.pc = "leaving" /\ r.ipc = proc[p].ipc
        /\ \A w \in Boot!Workspaces : r.runtimes[w] = 0
    <2>1. CASE Boot!StartupReturns(p)
        <3> DEFINE r == [proc[p] EXCEPT !.pc = "leaving"]
        <3>1. r \in Boot!ProcRecord /\ r.pc = "leaving" /\ r.ipc = proc[p].ipc /\ r.runtimes = proc[p].runtimes
            BY ProcFacts DEF Boot!ProcRecord
        <3>2. \A w \in Boot!Workspaces : proc[p].runtimes[w] = 0
            BY <2>1, ProcFacts DEF Boot!StartupReturns, Boot!RuntimesHeld
        <3>3. proc' = [proc EXCEPT ![p] = r]
            BY <2>1 DEF Boot!StartupReturns
        <3> QED
            BY <3>1, <3>2, <3>3
    <2>2. CASE Boot!IpcStopped(p)
        <3> DEFINE r == [proc[p] EXCEPT !.pc = "leaving", !.cancelled = TRUE, !.runtimes = Boot!NoRuntimes]
        <3>1. r \in Boot!ProcRecord /\ r.pc = "leaving" /\ r.ipc = proc[p].ipc /\ r.runtimes = Boot!NoRuntimes
            BY <1>3, ProcFacts DEF Boot!ProcRecord
        <3>2. proc' = [proc EXCEPT ![p] = r]
            BY <2>2 DEF Boot!IpcStopped
        <3> QED
            BY <1>3, <3>1, <3>2
    <2>3. CASE Boot!Leave(p)
        <3> DEFINE r == [proc[p] EXCEPT !.pc = "leaving"]
        <3>1. r \in Boot!ProcRecord /\ r.pc = "leaving" /\ r.ipc = proc[p].ipc /\ r.runtimes = proc[p].runtimes
            BY ProcFacts DEF Boot!ProcRecord
        <3>2. proc' = [proc EXCEPT ![p] = r] /\ proc[p].runtimes = Boot!NoRuntimes
            BY <2>3 DEF Boot!Leave
        <3> QED
            BY <1>3, <3>1, <3>2
    <2> QED
        BY <2>1, <2>2, <2>3
<1>5. proc'[p] = r /\ \A q \in Boot!Processes : q # p => proc'[q] = proc[q]
    BY <1>4 DEF Boot!IInv, Boot!TypeOK
<1>6. Boot!LockHeld'
    BY <1>1, <1>4, <1>5, HolderNames DEF Boot!IInv, Boot!LockHeld
<1>7. Boot!RuntimesHeld(p)' /\ Boot!EndpointHeld(p)' /\ \A w \in Boot!Workspaces : Boot!Serves(p, w)'
    BY <1>4, <1>5 DEF Boot!RuntimesHeld, Boot!EndpointHeld, Boot!Serves
<1> QED
    BY <1>1, <1>2, <1>4, <1>6, <1>7, HolderNames, ProcMoves DEF Boot!IInv, Boot!TypeOK

(* A step of a process that keeps its place among the holders of the lock. *)
LEMMA StayMoves ==
    ASSUME Boot!BootConstants, Boot!IInv, NEW p \in Boot!Processes, NEW r \in Boot!ProcRecord,
           proc' = [proc EXCEPT ![p] = r],
           r.pc = proc[p].pc \/ (proc[p].pc = "probing" /\ r.pc = "online"),
           proc[p].pc # "unborn",
           path' \in Boot!Processes \union {None}, faults' \in 0..MaxFaults,
           UNCHANGED <<holder, client>>,
           proc[p].ipc = "none" => r.ipc = "none",
           proc[p].ipc # "none" => r.ipc # "none",
           r.ipc = "serving" => proc[p].ipc = "serving",
           proc[p].cancelled => r.cancelled,
           r.cancelled \/ proc[p].active \union Boot!ToSet(proc[p].queue)
                              \subseteq r.active \union Boot!ToSet(r.queue),
           Boot!RuntimesHeld(p)'
    PROVE  Boot!IInv'
<1>1. proc'[p] = r /\ \A q \in Boot!Processes : q # p => proc'[q] = proc[q]
    BY DEF Boot!IInv, Boot!TypeOK
<1>2. Boot!LockHeld'
    BY <1>1 DEF Boot!IInv, Boot!LockHeld
<1>3. \A w \in Boot!Workspaces : Boot!Serves(p, w) => Boot!Serves(p, w)'
    BY <1>1 DEF Boot!Serves
<1>4. Boot!EndpointHeld(p)'
    <2>1. proc[p].ipc = "serving" => Boot!Serves(p, Repo[p])'
        BY <1>3, ProcFacts DEF Boot!EndpointHeld
    <2> QED
        BY <1>1, <2>1, ProcFacts DEF Boot!EndpointHeld
<1> QED
    BY <1>2, <1>3, <1>4, ProcMoves DEF Boot!IInv, Boot!TypeOK

(* The runtime of the startup workspace begins. *)
LEMMA GoOnlineOK ==
    ASSUME Boot!BootConstants, Boot!IInv, NEW p \in Boot!Processes, Boot!GoOnline(p)
    PROVE  Boot!IInv'
<1> DEFINE n == [proc[p].runtimes EXCEPT ![Repo[p]] = 1]
           r == [proc[p] EXCEPT !.pc = "online", !.runtimes = n]
<1>1. /\ proc[p].pc = "probing" /\ proc' = [proc EXCEPT ![p] = r]
      /\ UNCHANGED <<holder, path, client, faults>>
    BY DEF Boot!GoOnline
<1>2. /\ n \in [Boot!Workspaces -> Nat] /\ n[Repo[p]] = 1
      /\ \A w \in Boot!Workspaces : w # Repo[p] => n[w] = proc[p].runtimes[w]
    BY ProcFacts
<1>3. /\ r \in Boot!ProcRecord /\ r.pc = "online" /\ r.ipc = proc[p].ipc
      /\ r.cancelled = proc[p].cancelled /\ r.active = proc[p].active
      /\ r.queue = proc[p].queue /\ r.runtimes = n
    BY <1>2, ProcFacts DEF Boot!ProcRecord
<1>4. proc'[p] = r
    BY <1>1 DEF Boot!IInv, Boot!TypeOK
<1>5. Boot!RuntimesHeld(p)'
    BY <1>1, <1>2, <1>3, <1>4, ProcFacts DEF Boot!RuntimesHeld
<1> HIDE DEF r
<1> QED
    BY <1>1, <1>3, <1>5, StayMoves DEF Boot!IInv, Boot!TypeOK

(* What is taken from the queue is active or cancels the daemon.           *)
LEMMA QueueTaken ==
    ASSUME NEW q \in Seq(Boot!Workspaces), q # <<>>
    PROVE  /\ Head(q) \in Boot!Workspaces /\ Tail(q) \in Seq(Boot!Workspaces)
           /\ Boot!ToSet(q) \subseteq {Head(q)} \union Boot!ToSet(Tail(q))
<1>1. /\ Len(q) \in Nat /\ Len(q) > 0 /\ Len(Tail(q)) = Len(q) - 1
      /\ Tail(q) \in Seq(Boot!Workspaces) /\ Head(q) = q[1] /\ q[1] \in Boot!Workspaces
      /\ DOMAIN q = 1..Len(q) /\ DOMAIN Tail(q) = 1..Len(Tail(q))
    OBVIOUS
<1>2. \A i \in 1..(Len(q) - 1) : Tail(q)[i] = q[i + 1]
    BY <1>1
<1>3. ASSUME NEW i \in DOMAIN q PROVE q[i] \in {Head(q)} \union Boot!ToSet(Tail(q))
    <2>1. CASE i = 1
        BY <1>1, <2>1
    <2>2. CASE i # 1
        <3>1. i - 1 \in DOMAIN Tail(q) /\ Tail(q)[i - 1] = q[i]
            BY <1>1, <1>2, <1>3, <2>2
        <3> QED
            BY <3>1 DEF Boot!ToSet
    <2> QED
        BY <2>1, <2>2
<1> QED
    BY <1>1, <1>3 DEF Boot!ToSet

(* serve_workspace_activations *)
LEMMA ActivateOK ==
    ASSUME Boot!BootConstants, Boot!IInv, NEW p \in Boot!Processes, Boot!Activate(p)
    PROVE  Boot!IInv'
<1> DEFINE w == Head(proc[p].queue)
           q == Tail(proc[p].queue)
           a == proc[p].active \union {w}
           taken == [proc EXCEPT ![p].queue = Tail(@), ![p].active = @ \union {w}]
           n == [proc[p].runtimes EXCEPT ![w] = @ + 1]
<1>1. proc[p].pc = "online" /\ proc[p].queue # <<>> /\ UNCHANGED <<holder, path, client>>
    BY DEF Boot!Activate
<1>2. proc[p] \in Boot!ProcRecord /\ proc[p].queue \in Seq(Boot!Workspaces) /\ proc[p].active \subseteq Boot!Workspaces
    BY ProcFacts DEF Boot!ProcRecord
<1>3. w \in Boot!Workspaces /\ q \in Seq(Boot!Workspaces) /\ Boot!ToSet(proc[p].queue) \subseteq {w} \union Boot!ToSet(q)
    BY <1>1, <1>2, QueueTaken
<1>4. proc[p].active \union Boot!ToSet(proc[p].queue) \subseteq a \union Boot!ToSet(q)
    BY <1>3
<1>5. faults' \in 0..MaxFaults
    BY DEF Boot!Activate, Boot!IInv, Boot!TypeOK, Boot!BootConstants
<1>6. ASSUME NEW r \in Boot!ProcRecord, proc' = [proc EXCEPT ![p] = r],
             r.pc = proc[p].pc, r.ipc = proc[p].ipc, r.active = a, r.queue = q,
             proc[p].cancelled => r.cancelled,
             \A v \in Boot!Workspaces : r.runtimes[v] = proc[p].runtimes[v]
                                    \/ (v = w /\ w \notin proc[p].active
                                        /\ r.runtimes[v] = proc[p].runtimes[v] + 1)
      PROVE  Boot!IInv'
    <2>1. proc'[p] = r
        BY <1>6 DEF Boot!IInv, Boot!TypeOK
    <2>2. proc[p].runtimes \in [Boot!Workspaces -> Nat] /\ Boot!RuntimesHeld(p)
        BY ProcFacts
    <2>3. \A v \in Boot!Workspaces :
            r.runtimes[v] <= 1 /\ (r.runtimes[v] > 0 => v \in r.active)
        BY <1>1, <1>3, <1>6, <2>2 DEF Boot!RuntimesHeld
    <2>4. Boot!RuntimesHeld(p)'
        BY <1>1, <1>6, <2>1, <2>3 DEF Boot!RuntimesHeld
    <2> QED
        BY <1>1, <1>4, <1>5, <1>6, <2>4, StayMoves DEF Boot!IInv, Boot!TypeOK
<1>7. CASE w \in proc[p].active
    <2> DEFINE r == [proc[p] EXCEPT !.queue = q, !.active = a]
    <2>1. proc' = [proc EXCEPT ![p] = r]
        BY <1>7 DEF Boot!Activate
    <2>2. /\ r \in Boot!ProcRecord /\ r.pc = proc[p].pc /\ r.ipc = proc[p].ipc /\ r.active = a
          /\ r.queue = q /\ r.cancelled = proc[p].cancelled /\ r.runtimes = proc[p].runtimes
        BY <1>2, <1>3 DEF Boot!ProcRecord
    <2> HIDE DEF r
    <2> QED
        BY <1>6, <2>1, <2>2
<1>8. CASE w \notin proc[p].active /\ proc' = [taken EXCEPT ![p].runtimes[w] = @ + 1]
    <2> DEFINE r == [proc[p] EXCEPT !.queue = q, !.active = a, !.runtimes = n]
    <2>1. taken[p].runtimes = proc[p].runtimes /\ p \in DOMAIN proc /\ p \in DOMAIN taken
        BY <1>2 DEF Boot!IInv, Boot!TypeOK, Boot!ProcRecord
    <2>2. n \in [Boot!Workspaces -> Nat] /\ n[w] = proc[p].runtimes[w] + 1
          /\ \A v \in Boot!Workspaces : v # w => n[v] = proc[p].runtimes[v]
        BY <1>3, ProcFacts
    <2>3. /\ r \in Boot!ProcRecord /\ r.pc = proc[p].pc /\ r.ipc = proc[p].ipc /\ r.active = a
          /\ r.queue = q /\ r.cancelled = proc[p].cancelled /\ r.runtimes = n
        BY <1>2, <1>3, <2>2 DEF Boot!ProcRecord
    <2>4. proc' = [proc EXCEPT ![p] = r]
        BY <1>8, <2>1
    <2> HIDE DEF r, n
    <2> QED
        BY <1>6, <1>8, <2>2, <2>3, <2>4
<1>9. CASE w \notin proc[p].active /\ proc' = [taken EXCEPT ![p].cancelled = TRUE]
    <2> DEFINE r == [proc[p] EXCEPT !.queue = q, !.active = a, !.cancelled = TRUE]
    <2>1. proc' = [proc EXCEPT ![p] = r]
        BY <1>2, <1>9 DEF Boot!IInv, Boot!TypeOK
    <2>2. /\ r \in Boot!ProcRecord /\ r.pc = proc[p].pc /\ r.ipc = proc[p].ipc /\ r.active = a
          /\ r.queue = q /\ r.cancelled /\ r.runtimes = proc[p].runtimes
        BY <1>2, <1>3 DEF Boot!ProcRecord
    <2> HIDE DEF r
    <2> QED
        BY <1>6, <2>1, <2>2
<1> QED
    BY <1>7, <1>8, <1>9 DEF Boot!Activate

(* A runtime ends and cancels the rest of its daemon. *)
LEMMA RuntimeEndsOK ==
    ASSUME Boot!BootConstants, Boot!IInv, NEW p \in Boot!Processes, Boot!RuntimeEnds(p)
    PROVE  Boot!IInv'
<1>1. proc[p].pc = "online" /\ UNCHANGED <<holder, path, client>>
    BY DEF Boot!RuntimeEnds
<1>2. faults' \in 0..MaxFaults
    BY DEF Boot!RuntimeEnds, Boot!IInv, Boot!TypeOK, Boot!BootConstants
<1>3. PICK w \in Boot!Workspaces :
        /\ proc[p].runtimes[w] > 0
        /\ proc' = [proc EXCEPT ![p].cancelled = TRUE, ![p].active = @ \ {w},
                                ![p].runtimes[w] = @ - 1]
    BY DEF Boot!RuntimeEnds
<1> DEFINE n == [proc[p].runtimes EXCEPT ![w] = @ - 1]
           r == [proc[p] EXCEPT !.cancelled = TRUE, !.active = @ \ {w}, !.runtimes = n]
<1>4. proc[p] \in Boot!ProcRecord /\ proc[p].runtimes \in [Boot!Workspaces -> Nat] /\ Boot!RuntimesHeld(p)
    BY ProcFacts
<1>5. proc[p].runtimes[w] = 1
    BY <1>3, <1>4 DEF Boot!RuntimesHeld
<1>6. n \in [Boot!Workspaces -> Nat] /\ n[w] = 0 /\ \A v \in Boot!Workspaces : v # w => n[v] = proc[p].runtimes[v]
    BY <1>4, <1>5
<1>7. /\ r \in Boot!ProcRecord /\ r.pc = proc[p].pc /\ r.ipc = proc[p].ipc /\ r.cancelled
      /\ r.active = proc[p].active \ {w} /\ r.queue = proc[p].queue /\ r.runtimes = n
    BY <1>4, <1>6 DEF Boot!ProcRecord
<1>8. proc' = [proc EXCEPT ![p] = r]
    BY <1>3
<1>9. proc'[p] = r
    BY <1>8 DEF Boot!IInv, Boot!TypeOK
<1>10. Boot!RuntimesHeld(p)'
    BY <1>1, <1>4, <1>6, <1>7, <1>9 DEF Boot!RuntimesHeld
<1> HIDE DEF r
<1> QED
    BY <1>1, <1>2, <1>7, <1>8, <1>10, StayMoves DEF Boot!IInv, Boot!TypeOK

(* The IPC task ends, or the daemon is cancelled. *)
LEMMA IpcOK ==
    ASSUME Boot!BootConstants, Boot!IInv, NEW p \in Boot!Processes, Boot!IpcCloses(p) \/ Boot!IpcFails(p) \/ Boot!Signal(p)
    PROVE  Boot!IInv'
<1>1. /\ proc[p].pc # "unborn" /\ UNCHANGED <<holder, client>>
      /\ path' \in Boot!Processes \union {None} /\ faults' \in 0..MaxFaults
    BY DEF Boot!IpcCloses, Boot!IpcFails, Boot!Signal, Boot!Alive, Boot!IInv, Boot!TypeOK, Boot!BootConstants
<1>2. proc[p] \in Boot!ProcRecord /\ Boot!RuntimesHeld(p)
    BY ProcFacts
<1>3. PICK r \in Boot!ProcRecord :
        /\ proc' = [proc EXCEPT ![p] = r]
        /\ r.pc = proc[p].pc /\ r.active = proc[p].active /\ r.queue = proc[p].queue
        /\ r.runtimes = proc[p].runtimes
        /\ \/ r.ipc = proc[p].ipc
           \/ proc[p].ipc = "serving" /\ r.ipc = "closed"
        /\ proc[p].cancelled => r.cancelled
    <2>1. CASE Boot!IpcCloses(p) \/ Boot!IpcFails(p)
        <3> DEFINE r == [proc[p] EXCEPT !.ipc = "closed"]
        <3>1. proc' = [proc EXCEPT ![p] = r] /\ proc[p].ipc = "serving"
            BY <2>1 DEF Boot!IpcCloses, Boot!IpcFails
        <3>2. /\ r \in Boot!ProcRecord /\ r.pc = proc[p].pc /\ r.active = proc[p].active
              /\ r.queue = proc[p].queue /\ r.runtimes = proc[p].runtimes
              /\ r.ipc = "closed" /\ r.cancelled = proc[p].cancelled
            BY <1>2 DEF Boot!ProcRecord
        <3> QED
            BY <3>1, <3>2
    <2>2. CASE Boot!Signal(p)
        <3> DEFINE r == [proc[p] EXCEPT !.cancelled = TRUE]
        <3>1. proc' = [proc EXCEPT ![p] = r]
            BY <2>2 DEF Boot!Signal
        <3>2. /\ r \in Boot!ProcRecord /\ r.pc = proc[p].pc /\ r.active = proc[p].active
              /\ r.queue = proc[p].queue /\ r.runtimes = proc[p].runtimes
              /\ r.ipc = proc[p].ipc /\ r.cancelled
            BY <1>2 DEF Boot!ProcRecord
        <3> QED
            BY <3>1, <3>2
    <2> QED
        BY <2>1, <2>2
<1>4. proc'[p] = r
    BY <1>3 DEF Boot!IInv, Boot!TypeOK
<1>5. Boot!RuntimesHeld(p)'
    BY <1>2, <1>3, <1>4 DEF Boot!RuntimesHeld
<1> QED
    BY <1>1, <1>3, <1>5, StayMoves

-----------------------------------------------------------------------------
(* The commands. *)

(* A record of a command is a full record. *)
LEMMA ClientFacts ==
    ASSUME Boot!IInv, NEW c \in Commands
    PROVE  client[c] \in Boot!ClientRecord /\ Boot!CommandHeld(c) /\ c \in Boot!Processes /\ Repo[c] \in Boot!Workspaces
BY RepoType DEF Boot!IInv, Boot!TypeOK, Boot!Processes

(* A step of one command alone. *)
LEMMA ClientMoves ==
    ASSUME Boot!IInv, NEW c \in Commands, NEW r \in Boot!ClientRecord,
           client' = [client EXCEPT ![c] = r],
           UNCHANGED <<proc, path>>, holder' \in Boot!Holders, faults' \in 0..MaxFaults,
           Boot!LockHeld', Boot!CommandHeld(c)'
    PROVE  Boot!IInv'
<1>1. client'[c] = r /\ \A e \in Commands : e # c => client'[e] = client[e]
    BY DEF Boot!IInv, Boot!TypeOK
<1>2. Boot!TypeOK'
    BY DEF Boot!IInv, Boot!TypeOK
<1> QED
    BY <1>1, <1>2, Moves

(* A command that goes to a place where nothing is asked of it, perhaps    *)
(* without its child.                                                      *)
LEMMA PlainMoves ==
    ASSUME Boot!IInv, NEW c \in Commands, NEW r \in Boot!ClientRecord,
           client' = [client EXCEPT ![c] = r],
           UNCHANGED <<proc, holder, path>>, faults' \in 0..MaxFaults,
           r.spawned = client[c].spawned,
           r.child => client[c].child,
           r.pc # "return" \/ client[c].pc = "return",
           r.pc \in {"stop", "probe", "return", "discover", "register"} => ~r.child,
           r.pc # "connected"
    PROVE  Boot!IInv'
<1>1. client'[c] = r /\ \A e \in Commands : e # c => client'[e] = client[e]
    BY DEF Boot!IInv, Boot!TypeOK
<1>2. Boot!LockHeld'
    BY <1>1 DEF Boot!IInv, Boot!LockHeld
<1>3. Boot!CommandHeld(c)'
    BY <1>1, ClientFacts DEF Boot!CommandHeld
<1> QED
    BY <1>2, <1>3, ClientMoves DEF Boot!IInv, Boot!TypeOK

(* An endpoint that answers is the listener of a process. *)
LEMMA ReachableFacts ==
    ASSUME Boot!IInv, Boot!Reachable
    PROVE  path \in Boot!Processes /\ proc[path].ipc = "serving" /\ Boot!Serves(path, Repo[path])
BY DEF Boot!IInv, Boot!TypeOK, Boot!Reachable, Boot!EndpointHeld

(* Goto changes one field. *)
LEMMA GotoOK ==
    ASSUME Boot!IInv, NEW c \in Commands, NEW to, Boot!Goto(c, to),
           to \in {"ping", "poll", "legacy", "failed"},
           UNCHANGED <<proc, holder, path>>, faults' \in 0..MaxFaults
    PROVE  Boot!IInv'
<1> DEFINE r == [client[c] EXCEPT !.pc = to]
<1>1. client' = [client EXCEPT ![c] = r]
    BY DEF Boot!Goto
<1>2. r \in Boot!ClientRecord /\ r.pc = to /\ r.child = client[c].child /\ r.spawned = client[c].spawned
    BY ClientFacts DEF Boot!ClientRecord
<1> HIDE DEF r
<1> QED
    BY <1>1, <1>2, PlainMoves

(* The endpoint that answered is chosen by a command that has no child, or *)
(* whose child it is.                                                      *)
LEMMA SelectedOK ==
    ASSUME Boot!IInv, NEW c \in Commands, Boot!Reachable, Boot!Selected(c, path),
           client[c].child => path = c,
           UNCHANGED <<proc, holder, path, faults>>
    PROVE  Boot!IInv'
<1> DEFINE to == IF Boot!Receipt(c, path) THEN "connected" ELSE "register"
           r == [client[c] EXCEPT !.via = path, !.pc = to]
<1>1. client' = [client EXCEPT ![c] = r]
    BY DEF Boot!Selected
<1>2. path \in Boot!Processes /\ proc[path].ipc = "serving" /\ Boot!Serves(path, Repo[path])
    BY ReachableFacts
<1>3. /\ r \in Boot!ClientRecord /\ r.pc = to /\ r.via = path
      /\ r.child = client[c].child /\ r.spawned = client[c].spawned
    BY <1>2, ClientFacts DEF Boot!ClientRecord
<1>4. client'[c] = r /\ \A e \in Commands : e # c => client'[e] = client[e]
    BY <1>1 DEF Boot!IInv, Boot!TypeOK
<1>5. Boot!LockHeld'
    <2>1. to # "return"
        OBVIOUS
    <2> HIDE DEF r, to
    <2> QED
        BY <1>3, <1>4, <2>1 DEF Boot!IInv, Boot!LockHeld
<1>6. to = "connected" => path = c /\ Boot!Serves(path, Repo[c])
    BY <1>2 DEF Boot!Receipt
<1>7. to # "connected" => ~client[c].child /\ to = "register"
    BY DEF Boot!Receipt
<1>8. Boot!CommandHeld(c)'
    <2>1. Boot!CommandHeld(c)
        BY ClientFacts
    <2> HIDE DEF r, to
    <2> QED
        BY <1>2, <1>3, <1>4, <1>6, <1>7, <2>1 DEF Boot!CommandHeld, Boot!Serves
<1> HIDE DEF r
<1> QED
    BY <1>1, <1>3, <1>5, <1>8, ClientMoves DEF Boot!IInv, Boot!TypeOK

(* classify_ready_child *)
LEMMA ClassifyOK ==
    ASSUME Boot!IInv, NEW c \in Commands, Boot!Reachable, Boot!Classify(c, path),
           UNCHANGED <<proc, holder, path, faults>>
    PROVE  Boot!IInv'
<1>1. CASE client[c].child /\ path # c
    <2> DEFINE r == [client[c] EXCEPT !.via = path, !.pc = "reap"]
    <2>1. client' = [client EXCEPT ![c] = r]
        BY <1>1 DEF Boot!Classify
    <2>2. r \in Boot!ClientRecord /\ r.pc = "reap" /\ r.child = client[c].child /\ r.spawned = client[c].spawned
        BY ReachableFacts, ClientFacts DEF Boot!ClientRecord
    <2> HIDE DEF r
    <2> QED
        BY <2>1, <2>2, PlainMoves DEF Boot!IInv, Boot!TypeOK
<1>2. CASE ~(client[c].child /\ path # c)
    BY <1>2, SelectedOK DEF Boot!Classify
<1> QED
    BY <1>1, <1>2

(* discover_live_endpoint and the ping of wait_until_ready. *)
LEMMA DiscoverPingOK ==
    ASSUME Boot!IInv, NEW c \in Commands, Boot!Discover(c) \/ Boot!Ping(c)
    PROVE  Boot!IInv'
<1>1. UNCHANGED <<proc, holder, path, faults>> /\ faults' \in 0..MaxFaults
    BY DEF Boot!Discover, Boot!Ping, Boot!IInv, Boot!TypeOK
<1>2. CASE Boot!Discover(c)
    <2>1. ~client[c].child
        BY <1>2, ClientFacts DEF Boot!Discover, Boot!CommandHeld
    <2> QED
        BY <1>1, <1>2, <2>1, SelectedOK, GotoOK DEF Boot!Discover
<1>3. CASE Boot!Ping(c)
    BY <1>1, <1>3, ClassifyOK, GotoOK DEF Boot!Ping
<1> QED
    BY <1>2, <1>3

(* poll_non_owner_contender and a clock that advances. *)
LEMMA PollOK ==
    ASSUME Boot!IInv, NEW c \in Commands, Boot!Poll(c) \/ Boot!TimePasses(c)
    PROVE  Boot!IInv'
<1>1. UNCHANGED <<proc, holder, path, faults>>
    BY DEF Boot!Poll, Boot!TimePasses
<1>2. CASE Boot!Poll(c)
    <2> DEFINE b == client[c].child /\ Boot!Alive(c)
               r == [client[c] EXCEPT !.child = b, !.pc = "spawn"]
    <2>1. client' = [client EXCEPT ![c] = r]
        BY <1>2 DEF Boot!Poll
    <2>2. b \in BOOLEAN
        OBVIOUS
    <2>3. r \in Boot!ClientRecord /\ r.pc = "spawn" /\ r.child = b /\ r.spawned = client[c].spawned
        BY <2>2, ClientFacts DEF Boot!ClientRecord
    <2> HIDE DEF r
    <2> QED
        BY <1>1, <2>1, <2>3, PlainMoves DEF Boot!IInv, Boot!TypeOK
<1>3. CASE Boot!TimePasses(c)
    <2> DEFINE r == [client[c] EXCEPT !.late = TRUE]
    <2>1. client' = [client EXCEPT ![c] = r] /\ client[c].pc # "connected"
        BY <1>3 DEF Boot!TimePasses
    <2>2. r \in Boot!ClientRecord /\ r.pc = client[c].pc /\ r.child = client[c].child /\ r.spawned = client[c].spawned
        BY ClientFacts DEF Boot!ClientRecord
    <2>3. r.pc \in {"stop", "probe", "return", "discover", "register"} => ~r.child
        BY <2>2, ClientFacts DEF Boot!CommandHeld
    <2> HIDE DEF r
    <2> QED
        BY <1>1, <2>1, <2>2, <2>3, PlainMoves DEF Boot!IInv, Boot!TypeOK
<1> QED
    BY <1>2, <1>3

(* spawn_contender_once: the process is born. *)
LEMMA SpawnOK ==
    ASSUME Boot!BootConstants, Boot!IInv, NEW c \in Commands, Boot!Spawn(c)
    PROVE  Boot!IInv'
<1> DEFINE spawns == ~client[c].child /\ ~client[c].spawned
<1>1. client[c].pc = "spawn" /\ UNCHANGED <<holder, path>>
    BY DEF Boot!Spawn
<1>2. CASE /\ client' = [client EXCEPT ![c].child = client[c].child \/ spawns,
                                       ![c].spawned = TRUE, ![c].pc = "deadline"]
           /\ proc' = IF spawns THEN [proc EXCEPT ![c].pc = "starting"] ELSE proc
           /\ UNCHANGED faults
    <2> DEFINE b == client[c].child \/ spawns
               r == [client[c] EXCEPT !.child = b, !.spawned = TRUE, !.pc = "deadline"]
               s == [proc[c] EXCEPT !.pc = "starting"]
    <2>1. client' = [client EXCEPT ![c] = r]
        BY <1>2
    <2>2. b \in BOOLEAN
        BY ClientFacts DEF Boot!ClientRecord
    <2>3. r \in Boot!ClientRecord /\ r.pc = "deadline" /\ r.spawned
        BY <2>2, ClientFacts DEF Boot!ClientRecord
    <2>4. client'[c] = r /\ \A e \in Commands : e # c => client'[e] = client[e]
        BY <2>1 DEF Boot!IInv, Boot!TypeOK
    <2>5. c \in Boot!Processes /\ proc[c] \in Boot!ProcRecord
        BY ClientFacts, ProcFacts
    <2>6. /\ s \in Boot!ProcRecord /\ s.pc = "starting" /\ s.ipc = proc[c].ipc
          /\ s.runtimes = proc[c].runtimes
        BY <2>5 DEF Boot!ProcRecord
    <2>7. \A q \in Boot!Processes : q # c => proc'[q] = proc[q]
        BY <1>2 DEF Boot!IInv, Boot!TypeOK
    <2>8. proc'[c] = proc[c] \/ (spawns /\ proc'[c] = s)
        BY <1>2, <2>5 DEF Boot!IInv, Boot!TypeOK
    <2>9. spawns => proc[c].pc = "unborn" /\ proc[c].ipc = "none"
        BY <2>5, ClientFacts, ProcFacts DEF Boot!CommandHeld, Boot!EndpointHeld
    <2>10. Boot!TypeOK'
        BY <1>1, <1>2, <2>1, <2>3, <2>5, <2>6 DEF Boot!IInv, Boot!TypeOK
    <2> HIDE DEF r, s, spawns
    <2>11. Boot!LockHeld'
        BY <1>1, <2>3, <2>4, <2>6, <2>7, <2>8, <2>9 DEF Boot!IInv, Boot!LockHeld
    <2>12. Boot!CommandHeld(c)'
        BY <2>3, <2>4 DEF Boot!CommandHeld
    <2>13. ASSUME proc'[c] = s, spawns PROVE Boot!RuntimesHeld(c)' /\ Boot!EndpointHeld(c)'
        BY <2>5, <2>6, <2>9, <2>13, ProcFacts DEF Boot!RuntimesHeld, Boot!EndpointHeld
    <2> QED
        BY <2>3, <2>4, <2>7, <2>8, <2>9, <2>10, <2>11, <2>12, <2>13, Moves
<1>3. CASE faults < MaxFaults /\ faults' = faults + 1 /\ Boot!Goto(c, "failed") /\ UNCHANGED proc
    <2>1. faults' \in 0..MaxFaults
        BY <1>3 DEF Boot!IInv, Boot!TypeOK, Boot!BootConstants
    <2> QED
        BY <1>1, <1>3, <2>1, GotoOK
<1> QED
    BY <1>2, <1>3 DEF Boot!Spawn

(* The command gives up and ends its child if it has one that lives.       *)
LEMMA AbandonOK ==
    ASSUME Boot!BootConstants, Boot!IInv, NEW c \in Commands, Boot!Abandon(c), UNCHANGED <<path, faults>>
    PROVE  Boot!IInv'
<1> DEFINE r == [client[c] EXCEPT !.pc = "failed", !.child = FALSE]
<1>1. client' = [client EXCEPT ![c] = r]
    BY DEF Boot!Abandon
<1>2. r \in Boot!ClientRecord /\ r.pc = "failed" /\ ~r.child /\ r.spawned = client[c].spawned
    BY ClientFacts DEF Boot!ClientRecord
<1>3. client'[c] = r /\ \A e \in Commands : e # c => client'[e] = client[e]
    BY <1>1 DEF Boot!IInv, Boot!TypeOK
<1> HIDE DEF r
<1>4. CASE client[c].child /\ Boot!Alive(c)
    <2>1. Boot!End(c) /\ proc[c].pc # "unborn" /\ c \in Boot!Processes
        BY <1>4, ClientFacts DEF Boot!Abandon, Boot!Alive
    <2>2. client[c].spawned
        BY <1>4, ClientFacts DEF Boot!CommandHeld
    <2>3. Boot!CommandHeld(c)' /\ client'[c].pc # "return"
        BY <1>2, <1>3, <2>2 DEF Boot!CommandHeld
    <2>4. client' \in [Commands -> Boot!ClientRecord]
        BY <1>1, <1>2 DEF Boot!IInv, Boot!TypeOK
    <2> QED
        BY <1>3, <2>1, <2>3, <2>4, EndOK DEF Boot!IInv, Boot!TypeOK
<1>5. CASE ~(client[c].child /\ Boot!Alive(c))
    <2>1. UNCHANGED <<proc, holder>>
        BY <1>5 DEF Boot!Abandon
    <2> QED
        BY <1>1, <1>2, <2>1, PlainMoves DEF Boot!IInv, Boot!TypeOK
<1> QED
    BY <1>4, <1>5

(* The deadline, the status of an older release, and the reaping. *)
LEMMA WaitOK ==
    ASSUME Boot!BootConstants, Boot!IInv, NEW c \in Commands,
           Boot!Deadline(c) \/ Boot!LegacyStatus(c) \/ Boot!Reap(c)
    PROVE  Boot!IInv'
<1>1. UNCHANGED <<path, faults>> /\ faults' \in 0..MaxFaults
    BY DEF Boot!Deadline, Boot!LegacyStatus, Boot!Reap, Boot!IInv, Boot!TypeOK
<1>2. CASE Boot!Abandon(c)
    BY <1>1, <1>2, AbandonOK
<1>3. CASE Boot!Goto(c, "ping") /\ UNCHANGED <<proc, holder>>
    BY <1>1, <1>3, GotoOK
<1>4. CASE Boot!Reachable /\ Boot!Classify(c, path) /\ UNCHANGED <<proc, holder>>
    BY <1>1, <1>4, ClassifyOK
<1>5. CASE /\ client' = [client EXCEPT ![c].child = FALSE, ![c].pc = "register"]
           /\ UNCHANGED <<proc, holder>>
    <2> DEFINE r == [client[c] EXCEPT !.child = FALSE, !.pc = "register"]
    <2>1. client' = [client EXCEPT ![c] = r]
        BY <1>5
    <2>2. r \in Boot!ClientRecord /\ r.pc = "register" /\ ~r.child /\ r.spawned = client[c].spawned
        BY ClientFacts DEF Boot!ClientRecord
    <2> HIDE DEF r
    <2> QED
        BY <1>1, <1>5, <2>1, <2>2, PlainMoves
<1> QED
    BY <1>2, <1>3, <1>4, <1>5 DEF Boot!Deadline, Boot!LegacyStatus, Boot!Reap

(* One more activation is queued. *)
LEMMA QueueAppended ==
    ASSUME NEW q \in Seq(Boot!Workspaces), NEW w \in Boot!Workspaces
    PROVE  /\ Append(q, w) \in Seq(Boot!Workspaces)
           /\ Boot!ToSet(q) \subseteq Boot!ToSet(Append(q, w)) /\ w \in Boot!ToSet(Append(q, w))
<1> DEFINE s == Append(q, w)
<1>1. /\ s \in Seq(Boot!Workspaces) /\ Len(q) \in Nat /\ Len(s) = Len(q) + 1
      /\ DOMAIN q = 1..Len(q) /\ DOMAIN s = 1..(Len(q) + 1)
      /\ s[Len(q) + 1] = w /\ \A i \in 1..Len(q) : s[i] = q[i]
    OBVIOUS
<1>2. Len(q) + 1 \in DOMAIN s /\ \A i \in DOMAIN q : i \in DOMAIN s /\ s[i] = q[i]
    BY <1>1
<1> HIDE DEF s
<1>3. Boot!ToSet(q) \subseteq Boot!ToSet(s) /\ w \in Boot!ToSet(s)
    BY <1>1, <1>2 DEF Boot!ToSet
<1> QED
    BY <1>1, <1>3 DEF s

(* register_workspace *)
LEMMA RegisterOK ==
    ASSUME Boot!BootConstants, Boot!IInv, NEW c \in Commands, Boot!Register(c)
    PROVE  Boot!IInv'
<1>1. client[c].pc = "register" /\ UNCHANGED <<holder, path, faults>> /\ faults' \in 0..MaxFaults
    BY DEF Boot!Register, Boot!IInv, Boot!TypeOK
<1>2. CASE Boot!Goto(c, "failed") /\ UNCHANGED proc
    BY <1>1, <1>2, GotoOK
<1>3. CASE /\ Boot!Reachable
           /\ proc' = [proc EXCEPT ![path].queue = Append(@, Repo[c])]
           /\ \/ client' = [client EXCEPT ![c].pc = "connected", ![c].via = path]
              \/ Boot!Goto(c, "failed")
    <2>1. path \in Boot!Processes /\ proc[path].ipc = "serving"
        BY <1>3, ReachableFacts
    <2>2. PICK p \in Boot!Processes : p = path
        BY <2>1
    <2> DEFINE q == Append(proc[p].queue, Repo[c])
               s == [proc[p] EXCEPT !.queue = q]
    <2>3. proc[p] \in Boot!ProcRecord /\ proc[p].queue \in Seq(Boot!Workspaces) /\ Repo[c] \in Boot!Workspaces
        BY ProcFacts, ClientFacts DEF Boot!ProcRecord
    <2>4. /\ q \in Seq(Boot!Workspaces) /\ Boot!ToSet(proc[p].queue) \subseteq Boot!ToSet(q) /\ Repo[c] \in Boot!ToSet(q)
        BY <2>3, QueueAppended
    <2> HIDE DEF q
    <2>5. /\ s \in Boot!ProcRecord /\ s.pc = proc[p].pc /\ s.ipc = proc[p].ipc
          /\ s.cancelled = proc[p].cancelled /\ s.active = proc[p].active
          /\ s.queue = q /\ s.runtimes = proc[p].runtimes
        BY <2>3, <2>4 DEF Boot!ProcRecord
    <2>6. proc' = [proc EXCEPT ![p] = s]
        BY <1>3, <2>2 DEF q
    <2>7. proc'[p] = s /\ \A e \in Boot!Processes : e # p => proc'[e] = proc[e]
        BY <2>6 DEF Boot!IInv, Boot!TypeOK
    <2> HIDE DEF s
    <2>8. (\A w \in Boot!Workspaces : Boot!Serves(p, w) => Boot!Serves(p, w)') /\ Boot!Serves(p, Repo[c])'
        BY <2>4, <2>5, <2>7 DEF Boot!Serves
    <2>9. Boot!RuntimesHeld(p)' /\ Boot!EndpointHeld(p)'
        BY <2>5, <2>7, <2>8, ProcFacts DEF Boot!RuntimesHeld, Boot!EndpointHeld
    <2>10. PICK r \in Boot!ClientRecord :
            /\ client' = [client EXCEPT ![c] = r]
            /\ r.child = client[c].child /\ r.spawned = client[c].spawned
            /\ \/ r.pc = "connected" /\ r.via = p
               \/ r.pc = "failed"
        <3>1. CASE client' = [client EXCEPT ![c].pc = "connected", ![c].via = path]
            <4> DEFINE r == [client[c] EXCEPT !.pc = "connected", !.via = path]
            <4>1. client' = [client EXCEPT ![c] = r]
                BY <3>1
            <4>2. /\ r \in Boot!ClientRecord /\ r.pc = "connected" /\ r.via = path
                  /\ r.child = client[c].child /\ r.spawned = client[c].spawned
                BY <2>1, ClientFacts DEF Boot!ClientRecord
            <4> QED
                BY <2>2, <4>1, <4>2
        <3>2. CASE Boot!Goto(c, "failed")
            <4> DEFINE r == [client[c] EXCEPT !.pc = "failed"]
            <4>1. client' = [client EXCEPT ![c] = r]
                BY <3>2 DEF Boot!Goto
            <4>2. /\ r \in Boot!ClientRecord /\ r.pc = "failed"
                  /\ r.child = client[c].child /\ r.spawned = client[c].spawned
                BY ClientFacts DEF Boot!ClientRecord
            <4> QED
                BY <4>1, <4>2
        <3> QED
            BY <1>3, <3>1, <3>2
    <2>11. client'[c] = r /\ \A e \in Commands : e # c => client'[e] = client[e]
        BY <2>10 DEF Boot!IInv, Boot!TypeOK
    <2>12. ~client[c].child
        BY <1>1, ClientFacts DEF Boot!CommandHeld
    <2>13. Boot!TypeOK'
        BY <1>1, <2>5, <2>6, <2>10 DEF Boot!IInv, Boot!TypeOK
    <2>14. Boot!LockHeld'
        BY <1>1, <2>5, <2>7, <2>10, <2>11 DEF Boot!IInv, Boot!LockHeld
    <2>15. Boot!CommandHeld(c)'
        <3>1. ~r.spawned => proc[c].pc = "unborn"
            BY <2>10, ClientFacts DEF Boot!CommandHeld
        <3>2. proc'[c].pc = proc[c].pc
            BY <2>5, <2>7, ClientFacts
        <3> QED
            BY <2>1, <2>2, <2>5, <2>7, <2>8, <2>10, <2>11, <2>12, <3>1, <3>2
               DEF Boot!CommandHeld, Boot!Serves
    <2> QED
        BY <2>5, <2>7, <2>8, <2>9, <2>11, <2>13, <2>14, <2>15, Moves
<1> QED
    BY <1>2, <1>3 DEF Boot!Register

(* daemon.stop: the daemon that answers is cancelled. *)
LEMMA StopOK ==
    ASSUME Boot!BootConstants, Boot!IInv, NEW c \in Commands, Boot!Stop(c)
    PROVE  Boot!IInv'
<1>1. client[c].pc = "stop" /\ UNCHANGED <<holder, path, faults>> /\ faults' \in 0..MaxFaults
    BY DEF Boot!Stop, Boot!IInv, Boot!TypeOK
<1>2. ~client[c].child /\ holder \in Boot!Holders
    BY <1>1, ClientFacts DEF Boot!CommandHeld, Boot!IInv, Boot!TypeOK
<1>3. CASE Boot!Goto(c, "failed") /\ UNCHANGED proc
    BY <1>1, <1>3, GotoOK
<1>4. CASE Boot!Stopped(c) /\ UNCHANGED proc
    <2>1. PICK r \in Boot!ClientRecord :
            /\ client' = [client EXCEPT ![c] = r]
            /\ r.child = client[c].child /\ r.spawned = client[c].spawned
            /\ r.pc \in {"discover", "stopped"}
        <3>1. CASE Kind[c] = "restart"
            <4> DEFINE r == [client[c] EXCEPT !.pc = "discover", !.late = FALSE, !.target = holder]
            <4>1. client' = [client EXCEPT ![c] = r]
                BY <1>1, <1>4, <3>1 DEF Boot!Stopped
            <4>2. r \in Boot!ClientRecord /\ r.pc = "discover" /\ r.child = client[c].child /\ r.spawned = client[c].spawned
                BY <1>2, ClientFacts DEF Boot!ClientRecord
            <4> QED
                BY <4>1, <4>2
        <3>2. CASE Kind[c] # "restart"
            <4> DEFINE r == [client[c] EXCEPT !.pc = "stopped", !.target = holder]
            <4>1. client' = [client EXCEPT ![c] = r]
                BY <1>1, <1>4, <3>2 DEF Boot!Stopped
            <4>2. r \in Boot!ClientRecord /\ r.pc = "stopped" /\ r.child = client[c].child /\ r.spawned = client[c].spawned
                BY <1>2, ClientFacts DEF Boot!ClientRecord
            <4> QED
                BY <4>1, <4>2
        <3> QED
            BY <3>1, <3>2
    <2> QED
        BY <1>1, <1>2, <1>4, <2>1, PlainMoves
<1>5. CASE /\ Boot!Reachable
           /\ proc' = [proc EXCEPT ![path].cancelled = TRUE]
           /\ client' = [client EXCEPT ![c].pc = "probe", ![c].target = holder]
    <2>1. PICK p \in Boot!Processes : p = path
        BY <1>5, ReachableFacts
    <2> DEFINE s == [proc[p] EXCEPT !.cancelled = TRUE]
               r == [client[c] EXCEPT !.pc = "probe", !.target = holder]
    <2>2. /\ s \in Boot!ProcRecord /\ s.pc = proc[p].pc /\ s.ipc = proc[p].ipc /\ s.cancelled
          /\ s.active = proc[p].active /\ s.runtimes = proc[p].runtimes
        BY ProcFacts DEF Boot!ProcRecord
    <2>3. /\ r \in Boot!ClientRecord /\ r.pc = "probe"
          /\ r.child = client[c].child /\ r.spawned = client[c].spawned
        BY <1>2, ClientFacts DEF Boot!ClientRecord
    <2>4. proc' = [proc EXCEPT ![p] = s] /\ client' = [client EXCEPT ![c] = r]
        BY <1>5, <2>1
    <2> HIDE DEF r, s
    <2>5. proc'[p] = s /\ \A e \in Boot!Processes : e # p => proc'[e] = proc[e]
        BY <2>4 DEF Boot!IInv, Boot!TypeOK
    <2>6. client'[c] = r /\ \A e \in Commands : e # c => client'[e] = client[e]
        BY <2>4 DEF Boot!IInv, Boot!TypeOK
    <2>7. Boot!TypeOK'
        BY <1>1, <2>2, <2>3, <2>4 DEF Boot!IInv, Boot!TypeOK
    <2>8. Boot!LockHeld'
        BY <1>1, <2>2, <2>3, <2>5, <2>6 DEF Boot!IInv, Boot!LockHeld
    <2>9. \A w \in Boot!Workspaces : Boot!Serves(p, w)'
        BY <2>2, <2>5 DEF Boot!Serves
    <2>10. Boot!RuntimesHeld(p)' /\ Boot!EndpointHeld(p)'
        BY <2>2, <2>5, <2>9, ProcFacts DEF Boot!RuntimesHeld, Boot!EndpointHeld
    <2>11. Boot!CommandHeld(c)'
        <3>1. proc'[c].pc = proc[c].pc
            BY <2>2, <2>5, ClientFacts
        <3> QED
            BY <1>2, <2>3, <2>6, <3>1, ClientFacts DEF Boot!CommandHeld
    <2> QED
        BY <2>2, <2>5, <2>6, <2>7, <2>8, <2>9, <2>10, <2>11, Moves
<1> QED
    BY <1>3, <1>4, <1>5 DEF Boot!Stop

(* The command takes the owner lock for a moment and gives it back.        *)
LEMMA ProbeOK ==
    ASSUME Boot!BootConstants, Boot!IInv, NEW c \in Commands, Boot!ProbeLock(c) \/ Boot!ProbeReturns(c)
    PROVE  Boot!IInv'
<1>1. UNCHANGED <<proc, path, faults>> /\ faults' \in 0..MaxFaults
    BY DEF Boot!ProbeLock, Boot!ProbeReturns, Boot!IInv, Boot!TypeOK
<1>2. client[c].pc \in {"probe", "return"}
    BY DEF Boot!ProbeLock, Boot!ProbeReturns
<1>3. ~client[c].child
    BY <1>2, ClientFacts DEF Boot!CommandHeld
<1>4. CASE Boot!Goto(c, "failed") /\ UNCHANGED holder
    BY <1>1, <1>4, GotoOK
<1>5. CASE holder = None /\ holder' = Boot!Probe(c) /\ Boot!Goto(c, "return")
    <2> DEFINE r == [client[c] EXCEPT !.pc = "return"]
    <2>1. client' = [client EXCEPT ![c] = r]
        BY <1>5 DEF Boot!Goto
    <2>2. r \in Boot!ClientRecord /\ r.pc = "return" /\ r.child = client[c].child /\ r.spawned = client[c].spawned
        BY ClientFacts DEF Boot!ClientRecord
    <2> HIDE DEF r
    <2>3. client'[c] = r /\ \A e \in Commands : e # c => client'[e] = client[e]
        BY <2>1 DEF Boot!IInv, Boot!TypeOK
    <2>4. Boot!LockHeld'
        BY <1>1, <1>5, <2>3, HolderNames DEF Boot!IInv, Boot!LockHeld
    <2>5. Boot!CommandHeld(c)'
        BY <1>1, <1>3, <2>2, <2>3, ClientFacts DEF Boot!CommandHeld
    <2> QED
        BY <1>1, <1>5, <2>1, <2>2, <2>4, <2>5, HolderNames, ClientMoves
<1>6. CASE client[c].pc = "return" /\ holder' = None /\ Boot!Stopped(c)
    <2>1. PICK r \in Boot!ClientRecord :
            /\ client' = [client EXCEPT ![c] = r]
            /\ r.child = client[c].child /\ r.spawned = client[c].spawned
            /\ r.pc \in {"discover", "stopped"}
        <3>1. CASE Kind[c] = "restart"
            <4> DEFINE r == [client[c] EXCEPT !.pc = "discover", !.late = FALSE]
            <4>1. client' = [client EXCEPT ![c] = r]
                BY <1>6, <3>1, ClientFacts DEF Boot!Stopped, Boot!ClientRecord
            <4>2. r \in Boot!ClientRecord /\ r.pc = "discover" /\ r.child = client[c].child /\ r.spawned = client[c].spawned
                BY ClientFacts DEF Boot!ClientRecord
            <4> QED
                BY <4>1, <4>2
        <3>2. CASE Kind[c] # "restart"
            <4> DEFINE r == [client[c] EXCEPT !.pc = "stopped"]
            <4>1. client' = [client EXCEPT ![c] = r]
                BY <1>6, <3>2, ClientFacts DEF Boot!Stopped, Boot!ClientRecord
            <4>2. r \in Boot!ClientRecord /\ r.pc = "stopped" /\ r.child = client[c].child /\ r.spawned = client[c].spawned
                BY ClientFacts DEF Boot!ClientRecord
            <4> QED
                BY <4>1, <4>2
        <3> QED
            BY <3>1, <3>2
    <2>2. client'[c] = r /\ \A e \in Commands : e # c => client'[e] = client[e]
        BY <2>1 DEF Boot!IInv, Boot!TypeOK
    <2>3. holder = Boot!Probe(c)
        BY <1>6 DEF Boot!IInv, Boot!LockHeld
    <2>4. Boot!LockHeld'
        BY <1>1, <1>6, <2>1, <2>2, <2>3, HolderNames DEF Boot!IInv, Boot!LockHeld
    <2>5. Boot!CommandHeld(c)'
        BY <1>1, <1>3, <2>1, <2>2, ClientFacts DEF Boot!CommandHeld
    <2> QED
        BY <1>1, <1>6, <2>1, <2>4, <2>5, HolderNames, ClientMoves
<1> QED
    BY <1>4, <1>5, <1>6 DEF Boot!ProbeLock, Boot!ProbeReturns

-----------------------------------------------------------------------------
(* No command has done anything, and perhaps one daemon is online. *)
LEMMA BootInitOK == ASSUME Boot!BootConstants, Boot!Init PROVE Boot!IInv
<1>1. Boot!NoRuntimes \in [Boot!Workspaces -> Nat] /\ \A w \in Boot!Workspaces : Boot!NoRuntimes[w] = 0
    BY DEF Boot!NoRuntimes
<1>2. Boot!Unborn \in Boot!ProcRecord /\ Boot!Unborn.pc = "unborn" /\ Boot!Unborn.ipc = "none" /\ Boot!Unborn.runtimes = Boot!NoRuntimes
    BY <1>1 DEF Boot!Unborn, Boot!ProcRecord
<1>3. ASSUME NEW p \in Boot!Processes
      PROVE  /\ Boot!Online(p) \in Boot!ProcRecord /\ Boot!Online(p).pc = "online"
             /\ Boot!Online(p).active = {Repo[p]}
             /\ \A w \in Boot!Workspaces : Boot!Online(p).runtimes[w] = IF w = Repo[p] THEN 1 ELSE 0
    <2> DEFINE n == [Boot!NoRuntimes EXCEPT ![Repo[p]] = 1]
    <2>1. Repo[p] \in Boot!Workspaces
        BY RepoType
    <2>2. n \in [Boot!Workspaces -> Nat] /\ \A w \in Boot!Workspaces : n[w] = IF w = Repo[p] THEN 1 ELSE 0
        BY <1>1, <2>1
    <2>3. Boot!Online(p).runtimes = n
        BY DEF Boot!Online
    <2> HIDE DEF n
    <2>4. Boot!Online(p) = [pc |-> "online", ipc |-> "serving", cancelled |-> FALSE,
                       active |-> {Repo[p]}, queue |-> <<>>, runtimes |-> n]
        BY DEF Boot!Online, n
    <2>5. <<>> \in Seq(Boot!Workspaces) /\ {Repo[p]} \in SUBSET Boot!Workspaces
        BY <2>1
    <2> QED
        BY <2>2, <2>4, <2>5 DEF Boot!ProcRecord
<1>4. /\ client \in [Commands -> Boot!ClientRecord]
      /\ \A c \in Commands : /\ ~client[c].spawned /\ ~client[c].child
                             /\ client[c].pc \in {"discover", "stop"}
    BY HolderNames DEF Boot!Init, Boot!ClientRecord
<1>5. faults \in 0..MaxFaults
    BY DEF Boot!Init, Boot!BootConstants
<1>6. CASE proc = [p \in Boot!Processes |-> Boot!Unborn] /\ holder = None /\ path = None
    <2>1. Boot!TypeOK
        BY <1>2, <1>4, <1>5, <1>6, HolderNames DEF Boot!TypeOK
    <2>2. Boot!LockHeld
        BY <1>2, <1>4, <1>6, HolderNames DEF Boot!LockHeld
    <2>3. \A p \in Boot!Processes : Boot!RuntimesHeld(p) /\ Boot!EndpointHeld(p)
        BY <1>1, <1>2, <1>6 DEF Boot!RuntimesHeld, Boot!EndpointHeld
    <2>4. \A c \in Commands : Boot!CommandHeld(c)
        BY <1>2, <1>4, <1>6 DEF Boot!CommandHeld, Boot!Processes
    <2> QED
        BY <2>1, <2>2, <2>3, <2>4 DEF Boot!IInv
<1>7. ASSUME NEW up \in Incumbents,
             proc = [p \in Boot!Processes |-> IF p = up THEN Boot!Online(p) ELSE Boot!Unborn],
             holder = Boot!Daemon(up), path = up
      PROVE  Boot!IInv
    <2>0. up \in Boot!Processes /\ up \notin Commands
        BY DEF Boot!Processes, Boot!BootConstants
    <2>1. proc[up] = Boot!Online(up) /\ \A p \in Boot!Processes : p # up => proc[p] = Boot!Unborn
        BY <1>7, <2>0
    <2>2. Boot!TypeOK
        BY <1>2, <1>3, <1>4, <1>5, <1>7, <2>0, HolderNames DEF Boot!TypeOK
    <2>3. Boot!LockHeld
        BY <1>2, <1>3, <1>4, <1>7, <2>0, <2>1, HolderNames DEF Boot!LockHeld
    <2>4. Boot!RuntimesHeld(up) /\ Boot!EndpointHeld(up)
        BY <1>3, <2>0, <2>1 DEF Boot!RuntimesHeld, Boot!EndpointHeld, Boot!Serves
    <2>5. \A p \in Boot!Processes : p # up => Boot!RuntimesHeld(p) /\ Boot!EndpointHeld(p)
        BY <1>1, <1>2, <2>1 DEF Boot!RuntimesHeld, Boot!EndpointHeld
    <2>6. \A c \in Commands : Boot!CommandHeld(c)
        BY <1>2, <1>4, <2>0, <2>1 DEF Boot!CommandHeld, Boot!Processes
    <2> QED
        BY <2>2, <2>3, <2>4, <2>5, <2>6 DEF Boot!IInv
<1> QED
    BY <1>6, <1>7 DEF Boot!Init

(* Every step keeps the invariant. *)
LEMMA BootStepOK ==
    ASSUME Boot!BootConstants, Boot!IInv, [Boot!Next]_(Boot!vars)
    PROVE  Boot!IInv'
<1>1. ASSUME NEW c \in Commands, Boot!ClientNext(c) PROVE Boot!IInv'
    BY <1>1, DiscoverPingOK, PollOK, SpawnOK, WaitOK, RegisterOK, StopOK, ProbeOK
       DEF Boot!ClientNext
<1>2. ASSUME NEW p \in Boot!Processes, Boot!ProcNext(p) PROVE Boot!IInv'
    BY <1>2, AcquireLockOK, EndsOK, BindOK, ReturnsOK, GoOnlineOK, ActivateOK,
       RuntimeEndsOK, IpcOK DEF Boot!ProcNext
<1>3. CASE UNCHANGED Boot!vars
    BY <1>3, Moves DEF Boot!vars, Boot!IInv, Boot!TypeOK, Boot!LockHeld
<1> QED
    BY <1>1, <1>2, <1>3 DEF Boot!Next

(* The inductive invariant of the start of the daemon: the owner lock      *)
(* (DaemonOwnerLock) is held exactly by the process between acquire and    *)
(* the return of its main task, runtimes run only in that process and on   *)
(* active workspaces, and a connected command is served by the process it  *)
(* reached. For every number of commands, incumbents, workspaces and       *)
(* faults.                                                                 *)
THEOREM BootInvariant == ASSUME Boot!BootConstants PROVE Boot!Spec => []Boot!IInv
<1>1. Boot!Init => Boot!IInv
    BY BootInitOK
<1>2. Boot!IInv /\ [Boot!Next]_(Boot!vars) => Boot!IInv'
    BY BootStepOK
<1> QED
    BY <1>1, <1>2, PTL DEF Boot!Spec

(* WorkspaceActivator never runs two runtimes of one workspace: not in one *)
(* process when two commands register the same path, and not in two        *)
(* processes when contenders are spawned while an incumbent serves.        *)
THEOREM RuntimeIsSingle == ASSUME Boot!BootConstants PROVE Boot!Spec => []Boot!OneRuntime
<1>1. Boot!IInv => Boot!OneRuntime
    <2> SUFFICES ASSUME Boot!IInv, NEW w \in Boot!Workspaces, NEW p \in Boot!Processes, NEW q \in Boot!Processes
                 PROVE  /\ proc[p].runtimes[w] <= 1
                        /\ proc[p].runtimes[w] > 0 /\ proc[q].runtimes[w] > 0 => p = q
        BY DEF Boot!OneRuntime
    <2>1. Boot!RuntimesHeld(p) /\ Boot!RuntimesHeld(q)
        BY DEF Boot!IInv
    <2>2. proc[p].runtimes[w] > 0 /\ proc[q].runtimes[w] > 0 => holder = Boot!Daemon(p) /\ holder = Boot!Daemon(q)
        BY <2>1 DEF Boot!IInv, Boot!LockHeld, Boot!RuntimesHeld
    <2> QED
        BY <2>1, <2>2, HolderNames DEF Boot!RuntimesHeld
<1> QED
    BY <1>1, BootInvariant, PTL

(* A command that ensure_daemon left connected reached a process that has  *)
(* its own workspace active or queued, unless that process is on its way   *)
(* out; and the contender it spawned is still its child only if it is the  *)
(* daemon it is connected to.                                              *)
THEOREM ConnectionsHold ==
    ASSUME Boot!BootConstants
    PROVE  Boot!Spec => [](Boot!ConnectedIsActive /\ Boot!NoStrayContender)
<1>1. Boot!IInv => Boot!ConnectedIsActive /\ Boot!NoStrayContender
    BY DEF Boot!IInv, Boot!CommandHeld, Boot!ConnectedIsActive, Boot!NoStrayContender
<1> QED
    BY <1>1, BootInvariant, PTL

=============================================================================

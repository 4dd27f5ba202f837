--------------------------- MODULE TaskLeasesProofs ---------------------------
(***************************************************************************)
(* The lease tables are safe for every set of tasks, owners, lease ids and *)
(* worktrees and every bound on the TTL, the clock and the lag: IInv is     *)
(* inductive, and the properties of TaskLeases follow from it.             *)
(***************************************************************************)
EXTENDS TaskLeases, TLAPS

CTable == [CoordIds -> CoordinatorLease \cup {NoRow}]

WTable == [WorkerIds -> WorkerLease \cup {NoRow}]

-----------------------------------------------------------------------------
(* A timestamp is a natural number not ahead of the clock. *)
LEMMA StampBound ==
    ASSUME TypeOK, NEW at \in Stamps
    PROVE  at \in Nat /\ at <= clock /\ clock \in Nat /\ clock <= MaxClock
BY LeaseConstants DEF TypeOK, Stamps

(* checked_expiry stays within Expiries. *)
LEMMA ExpiryBound ==
    ASSUME TypeOK, NEW at \in Stamps, NEW ttl \in Ttls
    PROVE  CheckedExpiry(at, ttl) \in Expiries
BY StampBound, LeaseConstants DEF Ttls, CheckedExpiry, Expiries

(* The coordinator half of expire_stale_leases: what it keeps, and what it *)
(* turns into a lapsed row.                                                *)
LEMMA SweptCoordinator ==
    ASSUME TypeOK, NEW at \in Stamps, NEW c \in CoordIds
    PROVE  LET C == ExpiredCoordinators(at) IN
           /\ C \in CTable
           /\ Active(C[c]) => C[c] = coord[c]
           /\ ~ Active(coord[c]) => C[c] = coord[c]
           /\ Active(coord[c]) /\ ~ Active(C[c]) =>
                C[c] = [coord[c] EXCEPT !.st = "lapsed"] /\ coord[c].expires <= at
BY DEF TypeOK, ExpiredCoordinators, CTable, CoordinatorLease, Active, NoRow

(* Its worker half. *)
LEMMA SweptWorker ==
    ASSUME TypeOK, NEW at \in Stamps, NEW w \in WorkerIds
    PROVE  LET W == ExpiredWorkers(at) IN
           /\ W \in WTable
           /\ Active(W[w]) => W[w] = worker[w]
           /\ Active(W[w]) => ~ Orphaned(ExpiredCoordinators(at), worker[w])
           /\ ~ Active(worker[w]) => W[w] = worker[w]
           /\ Active(worker[w]) /\ ~ Active(W[w]) =>
                /\ W[w] = [worker[w] EXCEPT !.st = "lapsed"]
                /\ \/ worker[w].expires <= at
                   \/ Orphaned(ExpiredCoordinators(at), worker[w])
BY DEF TypeOK, ExpiredWorkers, WTable, WorkerLease, Active, NoRow

(* The sweep preserves what the tables promise each other: a worker it     *)
(* takes away with its coordinator had expired by then as well.            *)
LEMMA SweepOK ==
    ASSUME IInv, NEW at \in Stamps
    PROVE  TablesOK(ExpiredCoordinators(at), ExpiredWorkers(at), clock)
<1> DEFINE C == ExpiredCoordinators(at)
           W == ExpiredWorkers(at)
<1>1. TypeOK /\ TablesOK(coord, worker, clock)
    BY DEF IInv
<1>2. at \in Nat /\ at <= clock /\ clock \in Nat
    BY <1>1, StampBound
<1>3. \A c \in CoordIds :
        /\ Active(C[c]) => C[c] = coord[c]
        /\ ~ Active(coord[c]) => C[c] = coord[c]
        /\ Active(coord[c]) /\ ~ Active(C[c]) =>
             C[c] = [coord[c] EXCEPT !.st = "lapsed"] /\ coord[c].expires <= at
    BY <1>1, SweptCoordinator
<1>4. \A w \in WorkerIds :
        /\ Active(W[w]) => W[w] = worker[w]
        /\ Active(W[w]) => ~ Orphaned(C, worker[w])
        /\ ~ Active(worker[w]) => W[w] = worker[w]
        /\ Active(worker[w]) /\ ~ Active(W[w]) =>
             /\ W[w] = [worker[w] EXCEPT !.st = "lapsed"]
             /\ worker[w].expires <= at \/ Orphaned(C, worker[w])
    BY <1>1, SweptWorker
<1>5. /\ C \in CTable /\ coord \in CTable
      /\ W \in WTable /\ worker \in WTable
    BY <1>1 DEF TypeOK, CTable, WTable, ExpiredCoordinators, ExpiredWorkers,
                CoordinatorLease, WorkerLease, Active, NoRow
<1> HIDE DEF C, W
<1>6. CoordinatorOwnsTask(C, W)
  <2>1. \A c \in CoordIds : Active(C[c]) => C[c] = coord[c]
    BY <1>3
  <2>2. \A w \in WorkerIds : Active(W[w]) => W[w] = worker[w]
    BY <1>4
  <2>3. CoordinatorOwnsTask(coord, worker)
    BY <1>1 DEF TablesOK
  <2> QED
    BY <2>1, <2>2, <2>3 DEF CoordinatorOwnsTask
<1>7. ChildWithinParent(C, W)
  <2> SUFFICES ASSUME NEW w \in WorkerIds, Active(W[w]), W[w].parent # NoCoord
               PROVE  /\ Active(C[W[w].parent])
                      /\ C[W[w].parent].task = W[w].task
                      /\ W[w].expires <= C[W[w].parent].expires
    BY DEF ChildWithinParent
  <2>1. W[w] = worker[w] /\ Active(worker[w]) /\ ~ Orphaned(C, worker[w])
    BY <1>4
  <2>2. W[w].parent \in CoordIds
    BY <1>5, <2>1 DEF WTable, WorkerLease, Active, NoRow
  <2>3. /\ Active(coord[W[w].parent])
        /\ coord[W[w].parent].task = W[w].task
        /\ W[w].expires <= coord[W[w].parent].expires
    BY <1>1, <2>1 DEF TablesOK, ChildWithinParent
  <2>4. C[W[w].parent].st \notin {"released", "lapsed"}
    BY <2>1 DEF Orphaned
  <2>5. C[W[w].parent] \in CoordinatorLease \cup {NoRow} /\ C[W[w].parent] # NoRow
    BY <1>3, <1>5, <2>2, <2>3 DEF CTable, Active, NoRow, CoordinatorLease
  <2>6. Active(C[W[w].parent])
    BY <2>4, <2>5 DEF CoordinatorLease, Active
  <2> QED
    BY <1>3, <2>2, <2>3, <2>6
<1>8. OneActiveWriter(W)
    BY <1>1, <1>4 DEF TablesOK, OneActiveWriter
<1>9. LapsedIsExpired(C, clock)
  <2> SUFFICES ASSUME NEW c \in CoordIds, C[c].st = "lapsed"
               PROVE  C[c].expires <= clock
    BY <1>5 DEF LapsedIsExpired, CTable
  <2>1. CASE Active(coord[c])
    <3>1. coord[c] \in CoordinatorLease
      BY <1>5, <2>1 DEF CTable, Active, NoRow
    <3>2. ~ Active(C[c])
      BY DEF Active
    <3>3. C[c].expires = coord[c].expires /\ coord[c].expires <= at
      BY <1>3, <2>1, <3>1, <3>2 DEF CoordinatorLease
    <3> QED
      BY <1>2, <3>1, <3>3 DEF CoordinatorLease, Expiries
  <2>2. CASE ~ Active(coord[c])
    BY <1>1, <1>3, <1>5, <2>2 DEF TablesOK, LapsedIsExpired, CTable
  <2> QED BY <2>1, <2>2
<1>10. LapsedIsExpired(W, clock)
  <2> SUFFICES ASSUME NEW w \in WorkerIds, W[w].st = "lapsed"
               PROVE  W[w].expires <= clock
    BY <1>5 DEF LapsedIsExpired, WTable
  <2>1. CASE Active(worker[w])
    <3>1. worker[w] \in WorkerLease
      BY <1>5, <2>1 DEF WTable, Active, NoRow
    <3>2. ~ Active(W[w])
      BY DEF Active
    <3>3. W[w].expires = worker[w].expires
      BY <1>4, <2>1, <3>1, <3>2 DEF WorkerLease
    <3>4. ASSUME Orphaned(C, worker[w]) PROVE worker[w].expires <= at
      <4> DEFINE p == worker[w].parent
      <4>1. p \in CoordIds /\ Active(coord[p]) /\ worker[w].expires <= coord[p].expires
        BY <1>1, <2>1, <3>1, <3>4
           DEF TablesOK, ChildWithinParent, Orphaned, WorkerLease
      <4>2. ~ Active(C[p])
        BY <3>4 DEF Orphaned, Active
      <4>3. coord[p].expires <= at
        BY <1>3, <4>1, <4>2
      <4>4. coord[p] \in CoordinatorLease
        BY <1>5, <4>1 DEF CTable, Active, NoRow
      <4> QED
        BY <1>2, <3>1, <4>1, <4>3, <4>4, LeaseConstants
           DEF CoordinatorLease, WorkerLease, Expiries
    <3>5. worker[w].expires <= at
      BY <1>4, <2>1, <3>2, <3>4
    <3> QED
      BY <1>2, <3>1, <3>3, <3>5, LeaseConstants DEF WorkerLease, Expiries
  <2>2. CASE ~ Active(worker[w])
    BY <1>1, <1>4, <1>5, <2>2 DEF TablesOK, LapsedIsExpired, WTable
  <2> QED BY <2>1, <2>2
<1> QED
    BY <1>6, <1>7, <1>8, <1>9, <1>10 DEF TablesOK, C, W

-----------------------------------------------------------------------------
(* What each statement does to tables that are in order, whatever the rows *)
(* are: one lemma per write of leases.rs.                                  *)

(* INSERT INTO coordinator_leases, when the task has no active lease.      *)
LEMMA InsertCoordinator ==
    ASSUME NEW C \in CTable, NEW W \in WTable, NEW now \in Nat, TablesOK(C, W, now),
           NEW c \in CoordIds, C[c] = NoRow,
           NEW row \in CoordinatorLease, Active(row),
           ~ HasActiveRow(C, row.task), ~ HasActiveRow(W, row.task)
    PROVE  LET D == [C EXCEPT ![c] = row] IN D \in CTable /\ TablesOK(D, W, now)
<1> DEFINE D == [C EXCEPT ![c] = row]
<1>1. D \in CTable
    BY DEF CTable
<1>2. \A d \in CoordIds : D[d] = IF d = c THEN row ELSE C[d]
    BY DEF CTable
<1>3. \A w \in WorkerIds : Active(W[w]) /\ W[w].parent # NoCoord => W[w].parent \in CoordIds
    BY DEF WTable, WorkerLease, Active, NoRow
<1>4. /\ \A d \in CoordIds : Active(C[d]) => C[d].task # row.task
      /\ \A w \in WorkerIds : Active(W[w]) => W[w].task # row.task
    BY DEF HasActiveRow, CTable, WTable
<1>5. ~ Active(C[c]) /\ row.st # "lapsed"
    BY DEF Active, NoRow
<1> HIDE DEF D
<1>6. CoordinatorOwnsTask(D, W)
    BY <1>2, <1>4, <1>5 DEF TablesOK, CoordinatorOwnsTask
<1>7. ChildWithinParent(D, W)
    BY <1>2, <1>3, <1>5 DEF TablesOK, ChildWithinParent
<1>8. LapsedIsExpired(D, now)
    BY <1>1, <1>2, <1>5 DEF TablesOK, LapsedIsExpired, CTable
<1> QED
    BY <1>1, <1>6, <1>7, <1>8 DEF TablesOK, D

(* UPDATE coordinator_leases SET expires_at, not before its children's.    *)
LEMMA ExtendCoordinator ==
    ASSUME NEW C \in CTable, NEW W \in WTable, NEW now \in Nat, TablesOK(C, W, now),
           NEW c \in CoordIds, Active(C[c]), NEW e \in Expiries,
           \A w \in ActiveChildren(W, c) : W[w].expires <= e
    PROVE  LET D == [C EXCEPT ![c].expires = e] IN D \in CTable /\ TablesOK(D, W, now)
<1> DEFINE D == [C EXCEPT ![c].expires = e]
<1>1. C[c] \in CoordinatorLease
    BY DEF CTable, Active, NoRow
<1>2. D \in CTable
    BY <1>1 DEF CTable, CoordinatorLease
<1>3. /\ \A d \in CoordIds : d # c => D[d] = C[d]
      /\ D[c].st = C[c].st /\ D[c].task = C[c].task /\ D[c].expires = e
    BY <1>1 DEF CTable, CoordinatorLease
<1>4. \A w \in WorkerIds : Active(W[w]) /\ W[w].parent # NoCoord => W[w].parent \in CoordIds
    BY DEF WTable, WorkerLease, Active, NoRow
<1>5. \A w \in WorkerIds : Active(W[w]) /\ W[w].parent = c => W[w].expires <= e
    BY DEF ActiveChildren
<1> HIDE DEF D
<1>6. \A d \in CoordIds : (Active(D[d]) <=> Active(C[d])) /\ D[d].task = C[d].task
    BY <1>3 DEF Active
<1>7. CoordinatorOwnsTask(D, W)
    BY <1>6 DEF TablesOK, CoordinatorOwnsTask
<1>8. ChildWithinParent(D, W)
    BY <1>3, <1>4, <1>5, <1>6 DEF TablesOK, ChildWithinParent
<1>9. LapsedIsExpired(D, now)
    BY <1>2, <1>3 DEF TablesOK, LapsedIsExpired, CTable, Active
<1> QED
    BY <1>2, <1>7, <1>8, <1>9 DEF TablesOK, D

(* UPDATE coordinator_leases SET released_at, when it has no active child. *)
LEMMA EndCoordinator ==
    ASSUME NEW C \in CTable, NEW W \in WTable, NEW now \in Nat, TablesOK(C, W, now),
           NEW c \in CoordIds, Active(C[c]), ActiveChildren(W, c) = {}
    PROVE  LET D == [C EXCEPT ![c].st = "released"] IN D \in CTable /\ TablesOK(D, W, now)
<1> DEFINE D == [C EXCEPT ![c].st = "released"]
<1>1. C[c] \in CoordinatorLease
    BY DEF CTable, Active, NoRow
<1>2. D \in CTable
    BY <1>1 DEF CTable, CoordinatorLease
<1>3. /\ \A d \in CoordIds : d # c => D[d] = C[d]
      /\ D[c].st = "released"
    BY <1>1 DEF CTable, CoordinatorLease
<1>4. \A w \in WorkerIds : Active(W[w]) => W[w].parent # c
    BY DEF ActiveChildren
<1>5. \A w \in WorkerIds : Active(W[w]) /\ W[w].parent # NoCoord => W[w].parent \in CoordIds
    BY DEF WTable, WorkerLease, Active, NoRow
<1> HIDE DEF D
<1>6. CoordinatorOwnsTask(D, W)
    BY <1>3 DEF TablesOK, CoordinatorOwnsTask, Active
<1>7. ChildWithinParent(D, W)
    BY <1>3, <1>4, <1>5 DEF TablesOK, ChildWithinParent, Active
<1>8. LapsedIsExpired(D, now)
    BY <1>2, <1>3 DEF TablesOK, LapsedIsExpired, CTable
<1> QED
    BY <1>2, <1>6, <1>7, <1>8 DEF TablesOK, D

(* INSERT INTO worker_leases under an active coordinator, not beyond its   *)
(* expiry, and not a second writer.                                        *)
LEMMA InsertWorker ==
    ASSUME NEW C \in CTable, NEW W \in WTable, NEW now \in Nat, TablesOK(C, W, now),
           NEW w \in WorkerIds, W[w] = NoRow,
           NEW row \in WorkerLease, Active(row),
           row.parent \in CoordIds, Active(C[row.parent]),
           C[row.parent].task = row.task, row.expires <= C[row.parent].expires,
           row.mode = "writable" =>
              \A v \in WorkerIds : Active(W[v]) /\ W[v].task = row.task => W[v].mode # "writable"
    PROVE  LET V == [W EXCEPT ![w] = row] IN V \in WTable /\ TablesOK(C, V, now)
<1> DEFINE V == [W EXCEPT ![w] = row]
<1>1. V \in WTable
    BY DEF WTable
<1>2. \A v \in WorkerIds : V[v] = IF v = w THEN row ELSE W[v]
    BY DEF WTable
<1>3. ~ Active(W[w]) /\ row.st # "lapsed"
    BY DEF Active, NoRow
<1> HIDE DEF V
<1>4. CoordinatorOwnsTask(C, V)
    BY <1>2, <1>3 DEF TablesOK, CoordinatorOwnsTask
<1>5. ChildWithinParent(C, V)
    BY <1>2, <1>3 DEF TablesOK, ChildWithinParent
<1>6. OneActiveWriter(V)
    BY <1>2, <1>3 DEF TablesOK, OneActiveWriter
<1>7. LapsedIsExpired(V, now)
    BY <1>1, <1>2, <1>3 DEF TablesOK, LapsedIsExpired, WTable
<1> QED
    BY <1>1, <1>4, <1>5, <1>6, <1>7 DEF TablesOK, V

(* UPDATE worker_leases SET expires_at, not beyond its coordinator's.      *)
LEMMA ExtendWorker ==
    ASSUME NEW C \in CTable, NEW W \in WTable, NEW now \in Nat, TablesOK(C, W, now),
           NEW w \in WorkerIds, Active(W[w]), W[w].parent \in CoordIds,
           NEW e \in Expiries, e <= C[W[w].parent].expires
    PROVE  LET V == [W EXCEPT ![w].expires = e] IN V \in WTable /\ TablesOK(C, V, now)
<1> DEFINE V == [W EXCEPT ![w].expires = e]
<1>1. W[w] \in WorkerLease
    BY DEF WTable, Active, NoRow
<1>2. V \in WTable
    BY <1>1 DEF WTable, WorkerLease
<1>3. /\ \A v \in WorkerIds : v # w => V[v] = W[v]
      /\ V[w].st = W[w].st /\ V[w].task = W[w].task /\ V[w].parent = W[w].parent
      /\ V[w].mode = W[w].mode /\ V[w].expires = e
    BY <1>1 DEF WTable, WorkerLease
<1> HIDE DEF V
<1>4. \A v \in WorkerIds :
        /\ Active(V[v]) <=> Active(W[v])
        /\ V[v].task = W[v].task /\ V[v].parent = W[v].parent /\ V[v].mode = W[v].mode
    BY <1>3 DEF Active
<1>5. CoordinatorOwnsTask(C, V)
    BY <1>4 DEF TablesOK, CoordinatorOwnsTask
<1>6. ChildWithinParent(C, V)
    BY <1>3, <1>4 DEF TablesOK, ChildWithinParent
<1>7. OneActiveWriter(V)
    BY <1>4 DEF TablesOK, OneActiveWriter
<1>8. LapsedIsExpired(V, now)
    BY <1>2, <1>3 DEF TablesOK, LapsedIsExpired, WTable, Active
<1> QED
    BY <1>2, <1>5, <1>6, <1>7, <1>8 DEF TablesOK, V

(* UPDATE worker_leases SET released_at.                                   *)
LEMMA EndWorker ==
    ASSUME NEW C \in CTable, NEW W \in WTable, NEW now \in Nat, TablesOK(C, W, now),
           NEW w \in WorkerIds, Active(W[w])
    PROVE  LET V == [W EXCEPT ![w].st = "released"] IN V \in WTable /\ TablesOK(C, V, now)
<1> DEFINE V == [W EXCEPT ![w].st = "released"]
<1>1. W[w] \in WorkerLease
    BY DEF WTable, Active, NoRow
<1>2. V \in WTable
    BY <1>1 DEF WTable, WorkerLease
<1>3. /\ \A v \in WorkerIds : v # w => V[v] = W[v]
      /\ V[w].st = "released"
    BY <1>1 DEF WTable, WorkerLease
<1> HIDE DEF V
<1>4. \A v \in WorkerIds : Active(V[v]) => V[v] = W[v]
    BY <1>3 DEF Active
<1>5. CoordinatorOwnsTask(C, V)
    BY <1>4 DEF TablesOK, CoordinatorOwnsTask
<1>6. ChildWithinParent(C, V)
    BY <1>4 DEF TablesOK, ChildWithinParent
<1>7. OneActiveWriter(V)
    BY <1>4 DEF TablesOK, OneActiveWriter
<1>8. LapsedIsExpired(V, now)
    BY <1>2, <1>3 DEF TablesOK, LapsedIsExpired, WTable
<1> QED
    BY <1>2, <1>5, <1>6, <1>7, <1>8 DEF TablesOK, V

-----------------------------------------------------------------------------
(* What an operation finds after its sweep.                                *)
LEMMA AfterSweep ==
    ASSUME IInv, NEW at \in Stamps
    PROVE  LET C == ExpiredCoordinators(at)
               W == ExpiredWorkers(at)
           IN  /\ C \in CTable /\ W \in WTable /\ TablesOK(C, W, clock)
               /\ \A c \in CoordIds : Active(C[c]) => C[c] = coord[c]
               /\ \A c \in CoordIds : coord[c] = NoRow => C[c] = NoRow
               /\ \A w \in WorkerIds : Active(W[w]) => W[w] = worker[w]
               /\ \A w \in WorkerIds : worker[w] = NoRow => W[w] = NoRow
<1>1. TypeOK
    BY DEF IInv
<1>2. ExpiredCoordinators(at) \in CTable /\ ExpiredWorkers(at) \in WTable
    BY <1>1 DEF TypeOK, CTable, WTable, ExpiredCoordinators, ExpiredWorkers,
                CoordinatorLease, WorkerLease, Active, NoRow
<1>3. \A c \in CoordIds :
        /\ Active(ExpiredCoordinators(at)[c]) => ExpiredCoordinators(at)[c] = coord[c]
        /\ coord[c] = NoRow => ExpiredCoordinators(at)[c] = NoRow
  <2> TAKE c \in CoordIds
  <2>1. coord[c] = NoRow => ~ Active(coord[c])
    BY DEF Active, NoRow
  <2> QED
    BY <1>1, <2>1, SweptCoordinator
<1>4. \A w \in WorkerIds :
        /\ Active(ExpiredWorkers(at)[w]) => ExpiredWorkers(at)[w] = worker[w]
        /\ worker[w] = NoRow => ExpiredWorkers(at)[w] = NoRow
  <2> TAKE w \in WorkerIds
  <2>1. worker[w] = NoRow => ~ Active(worker[w])
    BY DEF Active, NoRow
  <2> QED
    BY <1>1, <2>1, SweptWorker
<1> QED
    BY <1>2, <1>3, <1>4, SweepOK

(* Every operation leaves the clock alone, so the new tables are all that  *)
(* IInv is about.                                                          *)
LEMMA Commit ==
    ASSUME TypeOK, UNCHANGED clock,
           coord' \in CTable, worker' \in WTable, TablesOK(coord', worker', clock)
    PROVE  IInv'
BY DEF IInv, TypeOK, CTable, WTable

-----------------------------------------------------------------------------
(* The initial tables hold at most one row, a worker without coordinator.  *)
LEMMA InitOK == Init => IInv
<1> SUFFICES ASSUME Init PROVE IInv
    OBVIOUS
<1>1. clock \in 0 .. MaxClock
    BY LeaseConstants DEF Init
<1>2. coord \in CTable /\ \A c \in CoordIds : coord[c].st = "absent"
    BY DEF Init, CTable, NoRow
<1>3. CASE worker = [w \in WorkerIds |-> NoRow]
  <2>1. worker \in WTable /\ \A w \in WorkerIds : worker[w].st = "absent"
    BY <1>3 DEF WTable, NoRow
  <2> QED
    BY <1>1, <1>2, <2>1
       DEF IInv, TypeOK, CTable, WTable, TablesOK, CoordinatorOwnsTask, ChildWithinParent,
           OneActiveWriter, LapsedIsExpired, Active
<1>4. ASSUME NEW legacy \in WorkerIds, NEW t \in Tasks, NEW mode \in Modes, NEW e \in Ttls,
             worker = [w \in WorkerIds |->
                         IF w = legacy THEN LegacyWorker(t, mode, e) ELSE NoRow]
      PROVE  IInv
  <2>1. e \in Expiries
    BY LeaseConstants DEF Ttls, Expiries
  <2>2. LegacyWorker(t, mode, e) \in WorkerLease
    BY <2>1 DEF LegacyWorker, WorkerLease
  <2>3. /\ worker \in WTable
        /\ \A w \in WorkerIds : worker[w].st # "lapsed"
        /\ \A w \in WorkerIds : Active(worker[w]) => w = legacy /\ worker[w].parent = NoCoord
    BY <1>4, <2>2 DEF WTable, LegacyWorker, NoRow, Active
  <2> QED
    BY <1>1, <1>2, <2>3
       DEF IInv, TypeOK, CTable, WTable, TablesOK, CoordinatorOwnsTask, ChildWithinParent,
           OneActiveWriter, LapsedIsExpired, Active
<1> QED
    BY <1>3, <1>4 DEF Init

(* Every step preserves IInv: the sweep first, then the one write.         *)
LEMMA NextOK == IInv /\ [Next]_vars => IInv'
<1> SUFFICES ASSUME IInv, [Next]_vars PROVE IInv'
    OBVIOUS
<1>1. TypeOK /\ TablesOK(coord, worker, clock)
    BY DEF IInv
<1>2. clock \in Nat
    BY <1>1, LeaseConstants DEF TypeOK
<1>3. CASE Tick
  <2>1. clock' \in 0 .. MaxClock /\ \A x \in Expiries : x <= clock => x <= clock'
    BY <1>1, <1>2, <1>3, LeaseConstants DEF Tick, TypeOK, Expiries
  <2>2. coord \in CTable /\ worker \in WTable
    BY <1>1 DEF TypeOK, CTable, WTable
  <2>3. LapsedIsExpired(coord, clock')
    BY <1>1, <2>1, <2>2 DEF TablesOK, LapsedIsExpired, CTable, CoordinatorLease, NoRow
  <2>4. LapsedIsExpired(worker, clock')
    BY <1>1, <2>1, <2>2 DEF TablesOK, LapsedIsExpired, WTable, WorkerLease, NoRow
  <2>5. coord' = coord /\ worker' = worker
    BY <1>3 DEF Tick
  <2> QED
    BY <1>1, <2>1, <2>3, <2>4, <2>5 DEF IInv, TypeOK, TablesOK
<1>4. CASE UNCHANGED vars
    BY <1>1, <1>4 DEF vars, IInv, TypeOK
<1>5. ASSUME NEW at \in Stamps, ReadActiveLeases(at) PROVE IInv'
    BY <1>1, <1>5, AfterSweep, Commit DEF ReadActiveLeases
<1>6. ASSUME NEW at \in Stamps, NEW t \in Tasks, NEW o \in Owners, NEW ttl \in Ttls,
             NEW wt \in Worktrees \cup {NoWorktree}, AcquireCoordinator(t, o, wt, ttl, at)
      PROVE  IInv'
  <2> DEFINE C == ExpiredCoordinators(at)
             W == ExpiredWorkers(at)
             row == [st |-> "active", task |-> t, owner |-> o,
                     worktree |-> wt, expires |-> CheckedExpiry(at, ttl)]
  <2>1. PICK c \in CoordIds :
          /\ coord[c] = NoRow /\ ~ HasActiveRow(C, t) /\ ~ HasActiveRow(W, t)
          /\ coord' = [C EXCEPT ![c] = row] /\ worker' = W /\ clock' = clock
    BY <1>6 DEF AcquireCoordinator
  <2>2. C \in CTable /\ W \in WTable /\ TablesOK(C, W, clock) /\ C[c] = NoRow
    BY <2>1, AfterSweep
  <2>3. row \in CoordinatorLease /\ Active(row) /\ row.task = t
    BY <1>1, ExpiryBound DEF CoordinatorLease, Active
  <2> HIDE DEF C, W, row
  <2>4. coord' \in CTable /\ TablesOK(coord', W, clock)
    BY <1>2, <2>1, <2>2, <2>3, InsertCoordinator
  <2> QED
    BY <1>1, <2>1, <2>2, <2>4, Commit
<1>7. ASSUME NEW at \in Stamps, NEW c \in CoordIds, NEW o \in Owners, NEW ttl \in Ttls,
             RenewCoordinator(c, o, ttl, at)
      PROVE  IInv'
  <2> DEFINE C == ExpiredCoordinators(at)
             W == ExpiredWorkers(at)
             e == CheckedExpiry(at, ttl)
  <2>1. /\ Active(C[c]) /\ \A w \in ActiveChildren(W, c) : worker[w].expires <= e
        /\ coord' = [C EXCEPT ![c].expires = e] /\ worker' = W /\ clock' = clock
    BY <1>7 DEF RenewCoordinator
  <2>2. /\ C \in CTable /\ W \in WTable /\ TablesOK(C, W, clock)
        /\ \A w \in WorkerIds : Active(W[w]) => W[w] = worker[w]
    BY AfterSweep
  <2>3. e \in Expiries
    BY <1>1, ExpiryBound
  <2> HIDE DEF C, W, e
  <2>4. \A w \in ActiveChildren(W, c) : W[w].expires <= e
    BY <2>1, <2>2 DEF ActiveChildren
  <2>5. coord' \in CTable /\ TablesOK(coord', W, clock)
    BY <1>2, <2>1, <2>2, <2>3, <2>4, ExtendCoordinator
  <2> QED
    BY <1>1, <2>1, <2>2, <2>5, Commit
<1>8. ASSUME NEW at \in Stamps, NEW c \in CoordIds, NEW o \in Owners,
             ReleaseCoordinator(c, o, at)
      PROVE  IInv'
  <2> DEFINE C == ExpiredCoordinators(at)
             W == ExpiredWorkers(at)
  <2>1. /\ \/ coord' = C
           \/ /\ Active(C[c]) /\ ActiveChildren(W, c) = {}
              /\ coord' = [C EXCEPT ![c].st = "released"]
        /\ worker' = W /\ clock' = clock
    BY <1>8 DEF ReleaseCoordinator
  <2>2. C \in CTable /\ W \in WTable /\ TablesOK(C, W, clock)
    BY AfterSweep
  <2> HIDE DEF C, W
  <2>3. coord' \in CTable /\ TablesOK(coord', W, clock)
    BY <1>2, <2>1, <2>2, EndCoordinator
  <2> QED
    BY <1>1, <2>1, <2>2, <2>3, Commit
<1>9. ASSUME NEW at \in Stamps, NEW t \in Tasks, NEW c \in CoordIds, NEW ttl \in Ttls,
             NEW wt \in Worktrees \cup {NoWorktree}, NEW mode \in Modes,
             AcquireWorker(t, c, wt, mode, ttl, at)
      PROVE  IInv'
  <2> DEFINE C == ExpiredCoordinators(at)
             W == ExpiredWorkers(at)
             row == [st |-> "active", task |-> t, parent |-> c, mode |-> mode,
                     expires |-> CheckedExpiry(at, ttl)]
  <2>1. PICK w \in WorkerIds :
          /\ worker[w] = NoRow /\ Active(C[c]) /\ coord[c].task = t
          /\ CheckedExpiry(at, ttl) <= coord[c].expires
          /\ mode = "writable" => \A v \in WorkerIds :
                Active(W[v]) /\ W[v].task = t => W[v].mode # "writable"
          /\ coord' = C /\ worker' = [W EXCEPT ![w] = row] /\ clock' = clock
    BY <1>9 DEF AcquireWorker
  <2>2. /\ C \in CTable /\ W \in WTable /\ TablesOK(C, W, clock)
        /\ C[c] = coord[c] /\ W[w] = NoRow
    BY <2>1, AfterSweep
  <2>3. /\ row \in WorkerLease /\ Active(row) /\ row.task = t /\ row.parent = c
        /\ row.mode = mode /\ row.expires = CheckedExpiry(at, ttl)
    BY <1>1, ExpiryBound DEF WorkerLease, Active
  <2> HIDE DEF C, W, row
  <2>4. worker' \in WTable /\ TablesOK(C, worker', clock)
    BY <1>2, <2>1, <2>2, <2>3, InsertWorker
  <2> QED
    BY <1>1, <2>1, <2>2, <2>4, Commit
<1>10. ASSUME NEW at \in Stamps, NEW c \in CoordIds, NEW w \in WorkerIds, NEW ttl \in Ttls,
              RenewWorker(c, w, ttl, at)
       PROVE  IInv'
  <2> DEFINE C == ExpiredCoordinators(at)
             W == ExpiredWorkers(at)
             e == CheckedExpiry(at, ttl)
  <2>1. /\ Active(W[w]) /\ worker[w].parent = c /\ Active(C[c]) /\ e <= coord[c].expires
        /\ coord' = C /\ worker' = [W EXCEPT ![w].expires = e] /\ clock' = clock
    BY <1>10 DEF RenewWorker
  <2>2. /\ C \in CTable /\ W \in WTable /\ TablesOK(C, W, clock)
        /\ C[c] = coord[c] /\ W[w] = worker[w]
    BY <2>1, AfterSweep
  <2>3. e \in Expiries
    BY <1>1, ExpiryBound
  <2> HIDE DEF C, W, e
  <2>4. worker' \in WTable /\ TablesOK(C, worker', clock)
    BY <1>2, <2>1, <2>2, <2>3, ExtendWorker
  <2> QED
    BY <1>1, <2>1, <2>2, <2>4, Commit
<1>11. ASSUME NEW at \in Stamps, NEW c \in CoordIds, NEW w \in WorkerIds,
              ReleaseWorker(c, w, at)
       PROVE  IInv'
  <2> DEFINE C == ExpiredCoordinators(at)
             W == ExpiredWorkers(at)
  <2>1. /\ coord' = C /\ clock' = clock
        /\ worker' = IF Active(W[w]) THEN [W EXCEPT ![w].st = "released"] ELSE W
    BY <1>11 DEF ReleaseWorker
  <2>2. C \in CTable /\ W \in WTable /\ TablesOK(C, W, clock)
    BY AfterSweep
  <2> HIDE DEF C, W
  <2>3. worker' \in WTable /\ TablesOK(C, worker', clock)
    BY <1>2, <2>1, <2>2, EndWorker
  <2> QED
    BY <1>1, <2>1, <2>2, <2>3, Commit
<1> QED
    BY <1>3, <1>4, <1>5, <1>6, <1>7, <1>8, <1>9, <1>10, <1>11 DEF Next

-----------------------------------------------------------------------------
(* The lease tables of leases.rs satisfy IInv in every reachable state. *)
THEOREM TablesInvariant == Spec => []IInv
<1> QED
    BY InitOK, NextOK, PTL DEF Spec

(* Every row is well formed and every expiry bounded, whatever sequence of *)
(* acquisitions, renewals, releases and sweeps produced it.                *)
THEOREM TypeCorrect == Spec => []TypeOK
<1>1. IInv => TypeOK
    BY DEF IInv
<1> QED
    BY <1>1, TablesInvariant, PTL

(* A row that its holder still trusts is still active in the table. *)
LEMMA TrustedIsActive ==
    ASSUME IInv
    PROVE  /\ \A c \in CoordIds : Trusted(coord[c]) => Active(coord[c])
           /\ \A w \in WorkerIds : Trusted(worker[w]) => Active(worker[w])
<1>1. clock \in Nat /\ coord \in CTable /\ worker \in WTable
    BY LeaseConstants DEF IInv, TypeOK, CTable, WTable
<1>2. \A c \in CoordIds : Trusted(coord[c]) => Active(coord[c])
  <2> SUFFICES ASSUME NEW c \in CoordIds, Trusted(coord[c]), coord[c].st = "lapsed"
               PROVE  FALSE
    BY DEF Trusted, Active
  <2>1. coord[c] \in CoordinatorLease
    BY <1>1 DEF CTable, NoRow
  <2>2. coord[c].expires <= clock /\ coord[c].expires > clock
    BY <1>1 DEF IInv, TablesOK, LapsedIsExpired, CTable, Trusted
  <2> QED
    BY <1>1, <2>1, <2>2, LeaseConstants DEF CoordinatorLease, Expiries
<1>3. \A w \in WorkerIds : Trusted(worker[w]) => Active(worker[w])
  <2> SUFFICES ASSUME NEW w \in WorkerIds, Trusted(worker[w]), worker[w].st = "lapsed"
               PROVE  FALSE
    BY DEF Trusted, Active
  <2>1. worker[w] \in WorkerLease
    BY <1>1 DEF WTable, NoRow
  <2>2. worker[w].expires <= clock /\ worker[w].expires > clock
    BY <1>1 DEF IInv, TablesOK, LapsedIsExpired, WTable, Trusted
  <2> QED
    BY <1>1, <2>1, <2>2, LeaseConstants DEF WorkerLease, Expiries
<1> QED
    BY <1>2, <1>3

(* acquire_coordinator_lease and the sweep give exclusive authority: no    *)
(* two processes trust a coordinator lease of a task, and no worker that   *)
(* is trusted belongs to anybody else.                                     *)
THEOREM Exclusive == Spec => []ExclusiveAuthority
<1>1. IInv => ExclusiveAuthority
  <2> SUFFICES ASSUME IInv, NEW t \in Tasks, NEW c \in TrustedCoordinators(t)
               PROVE  /\ \A d \in TrustedCoordinators(t) : d = c
                      /\ \A w \in TrustedWorkers(t) : worker[w].parent = c
    BY DEF ExclusiveAuthority
  <2>1. c \in CoordIds /\ Active(coord[c]) /\ coord[c].task = t
    BY TrustedIsActive DEF TrustedCoordinators
  <2>2. CoordinatorOwnsTask(coord, worker)
    BY DEF IInv, TablesOK
  <2> QED
    BY <2>1, <2>2, TrustedIsActive
       DEF CoordinatorOwnsTask, TrustedCoordinators, TrustedWorkers
<1> QED
    BY <1>1, TablesInvariant, PTL

(* acquire_worker_lease admits one writer per task. *)
THEOREM SingleWriter == Spec => []OneWriter
<1>1. IInv => OneWriter
  <2> SUFFICES ASSUME IInv PROVE OneWriter
    OBVIOUS
  <2>1. OneActiveWriter(worker)
    BY DEF IInv, TablesOK
  <2> QED
    BY <2>1, TrustedIsActive DEF OneWriter, OneActiveWriter, TrustedWorkers
<1> QED
    BY <1>1, TablesInvariant, PTL

(* expire_stale_leases takes nothing away before its expiry, not even a    *)
(* worker whose coordinator lapsed.                                        *)
THEOREM NoEarlyRevocation == Spec => []NeverRevokedEarly
<1>1. IInv => NeverRevokedEarly
  <2> SUFFICES ASSUME IInv PROVE NeverRevokedEarly
    OBVIOUS
  <2>1. DOMAIN coord = CoordIds /\ DOMAIN worker = WorkerIds
    BY DEF IInv, TypeOK
  <2> QED
    BY <2>1 DEF IInv, TablesOK, LapsedIsExpired, NeverRevokedEarly
<1> QED
    BY <1>1, TablesInvariant, PTL

(* All that a process may conclude from a lease that it trusts.            *)
THEOREM LeasesAreSafe == Spec => []LeasesSafe
<1> QED
    BY Exclusive, SingleWriter, NoEarlyRevocation, PTL DEF LeasesSafe

(* An ended row is not Active and not absent, which every write requires.  *)
Ended(row) == row.st \in {"released", "lapsed"}

KeepsEnded ==
    /\ \A c \in CoordIds : Ended(coord[c]) => coord'[c] = coord[c]
    /\ \A w \in WorkerIds : Ended(worker[w]) => worker'[w] = worker[w]

(* The sweep leaves ended rows as they are, and no row that is active or   *)
(* absent after it had ended before it.                                    *)
LEMMA SweepKeepsEnded ==
    ASSUME TypeOK, NEW at \in Stamps
    PROVE  /\ \A c \in CoordIds : Ended(coord[c]) =>
                ExpiredCoordinators(at)[c] = coord[c] /\ ~ Active(ExpiredCoordinators(at)[c])
           /\ \A w \in WorkerIds : Ended(worker[w]) =>
                ExpiredWorkers(at)[w] = worker[w] /\ ~ Active(ExpiredWorkers(at)[w])
<1>1. \A c \in CoordIds : Ended(coord[c]) => ~ Active(coord[c])
    BY DEF Ended, Active
<1>2. \A w \in WorkerIds : Ended(worker[w]) => ~ Active(worker[w])
    BY DEF Ended, Active
<1> QED
    BY <1>1, <1>2, SweptCoordinator, SweptWorker

(* No operation of leases.rs writes a row that has ended.                  *)
LEMMA StepKeepsEnded == TypeOK /\ Next => KeepsEnded
<1> SUFFICES ASSUME TypeOK, Next PROVE KeepsEnded
    OBVIOUS
<1>1. ASSUME NEW at \in Stamps
      PROVE  /\ DOMAIN ExpiredCoordinators(at) = CoordIds
             /\ DOMAIN ExpiredWorkers(at) = WorkerIds
    BY DEF ExpiredCoordinators, ExpiredWorkers
<1>2. CASE Tick
    BY <1>2 DEF Tick, KeepsEnded
<1>3. ASSUME NEW at \in Stamps, ReadActiveLeases(at) PROVE KeepsEnded
    BY <1>3, SweepKeepsEnded DEF ReadActiveLeases, KeepsEnded
<1>4. ASSUME NEW at \in Stamps, NEW t \in Tasks, NEW o \in Owners, NEW ttl \in Ttls,
             NEW wt \in Worktrees \cup {NoWorktree}, AcquireCoordinator(t, o, wt, ttl, at)
      PROVE  KeepsEnded
  <2>1. ~ Ended(NoRow)
    BY DEF Ended, NoRow
  <2> QED
    BY <1>1, <1>4, <2>1, SweepKeepsEnded DEF AcquireCoordinator, KeepsEnded
<1>5. ASSUME NEW at \in Stamps, NEW c \in CoordIds, NEW o \in Owners, NEW ttl \in Ttls,
             RenewCoordinator(c, o, ttl, at)
      PROVE  KeepsEnded
    BY <1>1, <1>5, SweepKeepsEnded DEF RenewCoordinator, KeepsEnded
<1>6. ASSUME NEW at \in Stamps, NEW c \in CoordIds, NEW o \in Owners,
             ReleaseCoordinator(c, o, at)
      PROVE  KeepsEnded
    BY <1>1, <1>6, SweepKeepsEnded DEF ReleaseCoordinator, KeepsEnded
<1>7. ASSUME NEW at \in Stamps, NEW t \in Tasks, NEW c \in CoordIds, NEW ttl \in Ttls,
             NEW wt \in Worktrees \cup {NoWorktree}, NEW mode \in Modes,
             AcquireWorker(t, c, wt, mode, ttl, at)
      PROVE  KeepsEnded
  <2>1. ~ Ended(NoRow)
    BY DEF Ended, NoRow
  <2> QED
    BY <1>1, <1>7, <2>1, SweepKeepsEnded DEF AcquireWorker, KeepsEnded
<1>8. ASSUME NEW at \in Stamps, NEW c \in CoordIds, NEW w \in WorkerIds, NEW ttl \in Ttls,
             RenewWorker(c, w, ttl, at)
      PROVE  KeepsEnded
    BY <1>1, <1>8, SweepKeepsEnded DEF RenewWorker, KeepsEnded
<1>9. ASSUME NEW at \in Stamps, NEW c \in CoordIds, NEW w \in WorkerIds,
             ReleaseWorker(c, w, at)
      PROVE  KeepsEnded
    BY <1>1, <1>9, SweepKeepsEnded DEF ReleaseWorker, KeepsEnded
<1> QED
    BY <1>2, <1>3, <1>4, <1>5, <1>6, <1>7, <1>8, <1>9 DEF Next

(* A released or lapsed lease is never renewed, released again or reused   *)
(* (the "released_at IS NULL" of every UPDATE in leases.rs).               *)
THEOREM EndedStaysEnded == Spec => EndedIsFinal
<1>1. TypeOK /\ [Next]_vars =>
        [/\ \A c \in CoordIds :
              coord[c].st \in {"released", "lapsed"} => coord'[c] = coord[c]
         /\ \A w \in WorkerIds :
              worker[w].st \in {"released", "lapsed"} => worker'[w] = worker[w]]_vars
    BY StepKeepsEnded DEF KeepsEnded, Ended
<1> QED
    BY <1>1, TypeCorrect, PTL DEF Spec, EndedIsFinal

-----------------------------------------------------------------------------
(* The tables implement ExclusiveGrant. *)

(* A sweep takes no row whose expiry lies ahead of the clock.              *)
LEMMA SweepKeepsTrusted ==
    ASSUME IInv, NEW at \in Stamps
    PROVE  /\ \A c \in CoordIds : Trusted(coord[c]) => Active(ExpiredCoordinators(at)[c])
           /\ \A w \in WorkerIds : Trusted(worker[w]) => Active(ExpiredWorkers(at)[w])
<1> DEFINE C == ExpiredCoordinators(at)
           W == ExpiredWorkers(at)
<1>1. /\ TypeOK /\ C \in CTable /\ W \in WTable /\ TablesOK(C, W, clock)
      /\ clock \in Nat /\ coord \in CTable /\ worker \in WTable
    BY AfterSweep, LeaseConstants DEF IInv, TypeOK, CTable, WTable
<1>2. ASSUME NEW c \in CoordIds, Trusted(coord[c]), ~ Active(C[c])
      PROVE  FALSE
  <2>1. Active(coord[c]) /\ coord[c] \in CoordinatorLease
    BY <1>1, <1>2, TrustedIsActive DEF CTable, Active, NoRow
  <2>2. C[c] = [coord[c] EXCEPT !.st = "lapsed"]
    BY <1>1, <1>2, <2>1, SweptCoordinator
  <2>3. C[c].st = "lapsed" /\ C[c].expires = coord[c].expires
    BY <2>1, <2>2 DEF CoordinatorLease
  <2>4. coord[c].expires <= clock /\ coord[c].expires > clock
    BY <1>1, <1>2, <2>3 DEF TablesOK, LapsedIsExpired, CTable, Trusted
  <2> QED
    BY <1>1, <2>1, <2>4, LeaseConstants DEF CoordinatorLease, Expiries
<1>3. ASSUME NEW w \in WorkerIds, Trusted(worker[w]), ~ Active(W[w])
      PROVE  FALSE
  <2>1. Active(worker[w]) /\ worker[w] \in WorkerLease
    BY <1>1, <1>3, TrustedIsActive DEF WTable, Active, NoRow
  <2>2. W[w] = [worker[w] EXCEPT !.st = "lapsed"]
    BY <1>1, <1>3, <2>1, SweptWorker
  <2>3. W[w].st = "lapsed" /\ W[w].expires = worker[w].expires
    BY <2>1, <2>2 DEF WorkerLease
  <2>4. worker[w].expires <= clock /\ worker[w].expires > clock
    BY <1>1, <1>3, <2>3 DEF TablesOK, LapsedIsExpired, WTable, Trusted
  <2> QED
    BY <1>1, <2>1, <2>4, LeaseConstants DEF WorkerLease, Expiries
<1> QED
    BY <1>2, <1>3

(* What a step may do for a task: a coordinator that is active after it    *)
(* was so before, or nobody was trusted to coordinate the task.            *)
CoordinatorGranted(c) ==
    Active(coord'[c]) =>
        \/ Active(coord[c]) /\ coord[c].task = coord'[c].task
        \/ \A d \in CoordIds : Trusted(coord[d]) => coord[d].task # coord'[c].task

(* The same for the writers of a task.                                     *)
WriterGranted(w) ==
    Active(worker'[w]) =>
        \/ /\ Active(worker[w]) /\ worker[w].task = worker'[w].task
           /\ worker[w].mode = worker'[w].mode
        \/ worker'[w].mode = "writable" =>
              \A v \in WorkerIds :
                  Trusted(worker[v]) /\ worker[v].task = worker'[w].task =>
                      worker[v].mode # "writable"

Granted ==
    /\ \A c \in CoordIds : CoordinatorGranted(c)
    /\ \A w \in WorkerIds : WriterGranted(w)

(* A table that a transaction left as the sweep did grants nothing.        *)
LEMMA SweepGrantsNothing ==
    ASSUME IInv, NEW at \in Stamps
    PROVE  /\ coord' = ExpiredCoordinators(at) => \A c \in CoordIds : CoordinatorGranted(c)
           /\ worker' = ExpiredWorkers(at) => \A w \in WorkerIds : WriterGranted(w)
<1>1. TypeOK
    BY DEF IInv
<1>2. ASSUME coord' = ExpiredCoordinators(at), NEW c \in CoordIds
      PROVE  CoordinatorGranted(c)
  <2>1. Active(coord'[c]) => coord'[c] = coord[c]
    BY <1>1, <1>2, SweptCoordinator
  <2> QED
    BY <2>1 DEF CoordinatorGranted, Active
<1>3. ASSUME worker' = ExpiredWorkers(at), NEW w \in WorkerIds
      PROVE  WriterGranted(w)
  <2>1. Active(worker'[w]) => worker'[w] = worker[w]
    BY <1>1, <1>3, SweptWorker
  <2> QED
    BY <2>1 DEF WriterGranted, Active
<1> QED
    BY <1>2, <1>3

(* No operation of leases.rs grants what somebody else is trusted with:    *)
(* the two inserts check the swept table, every other write changes a row  *)
(* that was active before.                                                 *)
LEMMA StepGrants == IInv /\ Next => Granted
<1> SUFFICES ASSUME IInv, Next PROVE Granted
    OBVIOUS
<1>1. TypeOK /\ coord \in CTable /\ worker \in WTable
    BY DEF IInv, TypeOK, CTable, WTable
<1>2. CASE Tick
    BY <1>2 DEF Tick, Granted, CoordinatorGranted, WriterGranted
<1>3. ASSUME NEW at \in Stamps, ReadActiveLeases(at) PROVE Granted
    BY <1>3, SweepGrantsNothing DEF ReadActiveLeases, Granted
<1>4. ASSUME NEW at \in Stamps, NEW t \in Tasks, NEW o \in Owners, NEW ttl \in Ttls,
             NEW wt \in Worktrees \cup {NoWorktree}, AcquireCoordinator(t, o, wt, ttl, at)
      PROVE  Granted
  <2> DEFINE C == ExpiredCoordinators(at)
             row == [st |-> "active", task |-> t, owner |-> o,
                     worktree |-> wt, expires |-> CheckedExpiry(at, ttl)]
  <2>1. PICK c \in CoordIds :
          /\ coord[c] = NoRow /\ ~ HasActiveRow(C, t)
          /\ coord' = [C EXCEPT ![c] = row] /\ worker' = ExpiredWorkers(at)
    BY <1>4 DEF AcquireCoordinator
  <2>2. \A w \in WorkerIds : WriterGranted(w)
    BY <2>1, SweepGrantsNothing
  <2>3. C \in CTable /\ \A d \in CoordIds : Active(C[d]) => C[d] = coord[d]
    BY AfterSweep, SweptCoordinator, <1>1
  <2>4. ASSUME NEW d \in CoordIds, d # c PROVE CoordinatorGranted(d)
    <3>1. coord'[d] = C[d]
      BY <2>1, <2>3, <2>4 DEF CTable
    <3> QED
      BY <2>3, <3>1 DEF CoordinatorGranted, Active
  <2>5. CoordinatorGranted(c)
    <3>1. coord'[c] = row /\ coord'[c].task = t
      BY <2>1, <2>3 DEF CTable
    <3>2. \A d \in CoordIds : Trusted(coord[d]) => Active(C[d]) /\ C[d].task = coord[d].task
      BY <2>3, SweepKeepsTrusted
    <3>3. \A d \in CoordIds : Active(C[d]) => C[d].task # t
      BY <2>1, <2>3 DEF HasActiveRow, CTable
    <3> QED
      BY <3>1, <3>2, <3>3 DEF CoordinatorGranted
  <2> QED
    BY <2>2, <2>4, <2>5 DEF Granted
<1>5. ASSUME NEW at \in Stamps, NEW c \in CoordIds, NEW o \in Owners, NEW ttl \in Ttls,
             RenewCoordinator(c, o, ttl, at)
      PROVE  Granted
  <2> DEFINE C == ExpiredCoordinators(at)
             e == CheckedExpiry(at, ttl)
  <2>1. /\ Active(C[c]) /\ coord' = [C EXCEPT ![c].expires = e]
        /\ worker' = ExpiredWorkers(at)
    BY <1>5 DEF RenewCoordinator
  <2>2. C \in CTable /\ \A d \in CoordIds : Active(C[d]) => C[d] = coord[d]
    BY AfterSweep, SweptCoordinator, <1>1
  <2>3. C[c] \in CoordinatorLease
    BY <2>1, <2>2 DEF CTable, Active, NoRow
  <2> HIDE DEF C, e
  <2>4. /\ \A d \in CoordIds : d # c => coord'[d] = C[d]
        /\ coord'[c].st = C[c].st /\ coord'[c].task = C[c].task
    BY <2>1, <2>2, <2>3 DEF CTable, CoordinatorLease
  <2>5. \A d \in CoordIds : CoordinatorGranted(d)
    BY <2>1, <2>2, <2>4 DEF CoordinatorGranted, Active
  <2> QED
    BY <2>1, <2>5, SweepGrantsNothing DEF Granted
<1>6. ASSUME NEW at \in Stamps, NEW c \in CoordIds, NEW o \in Owners,
             ReleaseCoordinator(c, o, at)
      PROVE  Granted
  <2> DEFINE C == ExpiredCoordinators(at)
  <2>1. /\ coord' = C \/ (Active(C[c]) /\ coord' = [C EXCEPT ![c].st = "released"])
        /\ worker' = ExpiredWorkers(at)
    BY <1>6 DEF ReleaseCoordinator
  <2>2. C \in CTable /\ \A d \in CoordIds : Active(C[d]) => C[d] = coord[d]
    BY AfterSweep, SweptCoordinator, <1>1
  <2>3. CASE coord' = C
    BY <2>1, <2>3, SweepGrantsNothing DEF Granted
  <2>4. CASE Active(C[c]) /\ coord' = [C EXCEPT ![c].st = "released"]
    <3>1. C[c] \in CoordinatorLease
      BY <2>2, <2>4 DEF CTable, Active, NoRow
    <3> HIDE DEF C
    <3>2. /\ \A d \in CoordIds : d # c => coord'[d] = C[d]
          /\ coord'[c].st = "released"
      BY <2>2, <2>4, <3>1 DEF CTable, CoordinatorLease
    <3>3. \A d \in CoordIds : CoordinatorGranted(d)
      BY <2>2, <3>2 DEF CoordinatorGranted, Active
    <3> QED
      BY <2>1, <3>3, SweepGrantsNothing DEF Granted
  <2> QED
    BY <2>1, <2>3, <2>4
<1>7. ASSUME NEW at \in Stamps, NEW t \in Tasks, NEW c \in CoordIds, NEW ttl \in Ttls,
             NEW wt \in Worktrees \cup {NoWorktree}, NEW mode \in Modes,
             AcquireWorker(t, c, wt, mode, ttl, at)
      PROVE  Granted
  <2> DEFINE W == ExpiredWorkers(at)
             row == [st |-> "active", task |-> t, parent |-> c, mode |-> mode,
                     expires |-> CheckedExpiry(at, ttl)]
  <2>1. PICK w \in WorkerIds :
          /\ worker[w] = NoRow
          /\ mode = "writable" => \A v \in WorkerIds :
                Active(W[v]) /\ W[v].task = t => W[v].mode # "writable"
          /\ coord' = ExpiredCoordinators(at) /\ worker' = [W EXCEPT ![w] = row]
    BY <1>7 DEF AcquireWorker
  <2>2. \A d \in CoordIds : CoordinatorGranted(d)
    BY <2>1, SweepGrantsNothing
  <2>3. W \in WTable /\ \A v \in WorkerIds : Active(W[v]) => W[v] = worker[v]
    BY AfterSweep, SweptWorker, <1>1
  <2>4. ASSUME NEW v \in WorkerIds, v # w PROVE WriterGranted(v)
    <3>1. worker'[v] = W[v]
      BY <2>1, <2>3, <2>4 DEF WTable
    <3> QED
      BY <2>3, <3>1 DEF WriterGranted, Active
  <2>5. WriterGranted(w)
    <3>1. worker'[w] = row /\ worker'[w].task = t /\ worker'[w].mode = mode
      BY <2>1, <2>3 DEF WTable
    <3>2. \A v \in WorkerIds : Trusted(worker[v]) => Active(W[v]) /\ W[v] = worker[v]
      BY <2>3, SweepKeepsTrusted
    <3> QED
      BY <2>1, <3>1, <3>2 DEF WriterGranted
  <2> QED
    BY <2>2, <2>4, <2>5 DEF Granted
<1>8. ASSUME NEW at \in Stamps, NEW c \in CoordIds, NEW w \in WorkerIds, NEW ttl \in Ttls,
             RenewWorker(c, w, ttl, at)
      PROVE  Granted
  <2> DEFINE W == ExpiredWorkers(at)
             e == CheckedExpiry(at, ttl)
  <2>1. /\ Active(W[w]) /\ worker' = [W EXCEPT ![w].expires = e]
        /\ coord' = ExpiredCoordinators(at)
    BY <1>8 DEF RenewWorker
  <2>2. W \in WTable /\ \A v \in WorkerIds : Active(W[v]) => W[v] = worker[v]
    BY AfterSweep, SweptWorker, <1>1
  <2>3. W[w] \in WorkerLease
    BY <2>1, <2>2 DEF WTable, Active, NoRow
  <2> HIDE DEF W, e
  <2>4. /\ \A v \in WorkerIds : v # w => worker'[v] = W[v]
        /\ worker'[w].st = W[w].st /\ worker'[w].task = W[w].task /\ worker'[w].mode = W[w].mode
    BY <2>1, <2>2, <2>3 DEF WTable, WorkerLease
  <2>5. \A v \in WorkerIds : WriterGranted(v)
    BY <2>1, <2>2, <2>4 DEF WriterGranted, Active
  <2> QED
    BY <2>1, <2>5, SweepGrantsNothing DEF Granted
<1>9. ASSUME NEW at \in Stamps, NEW c \in CoordIds, NEW w \in WorkerIds,
             ReleaseWorker(c, w, at)
      PROVE  Granted
  <2> DEFINE W == ExpiredWorkers(at)
  <2>1. /\ worker' = IF Active(W[w]) THEN [W EXCEPT ![w].st = "released"] ELSE W
        /\ coord' = ExpiredCoordinators(at)
    BY <1>9 DEF ReleaseWorker
  <2>2. W \in WTable /\ \A v \in WorkerIds : Active(W[v]) => W[v] = worker[v]
    BY AfterSweep, SweptWorker, <1>1
  <2>3. CASE worker' = W
    BY <2>1, <2>3, SweepGrantsNothing DEF Granted
  <2>4. CASE Active(W[w]) /\ worker' = [W EXCEPT ![w].st = "released"]
    <3>1. W[w] \in WorkerLease
      BY <2>2, <2>4 DEF WTable, Active, NoRow
    <3> HIDE DEF W
    <3>2. /\ \A v \in WorkerIds : v # w => worker'[v] = W[v]
          /\ worker'[w].st = "released"
      BY <2>2, <2>4, <3>1 DEF WTable, WorkerLease
    <3>3. \A v \in WorkerIds : WriterGranted(v)
      BY <2>2, <3>2 DEF WriterGranted, Active
    <3> QED
      BY <2>1, <3>3, SweepGrantsNothing DEF Granted
  <2> QED
    BY <2>1, <2>3, <2>4
<1> QED
    BY <1>2, <1>3, <1>4, <1>5, <1>6, <1>7, <1>8, <1>9 DEF Next

(* At most one lease holds an authority, and it has not ended.             *)
HeldByOne ==
    \A t \in Tasks :
        /\ \A c, d \in TrustedCoordinators(t) : c = d
        /\ \A v, w \in Writers(t) : v = w
        /\ \A x \in TrustedCoordinators(t) \cup Writers(t) : x \notin EndedLeases

(* Whoever holds an authority has an active row, which is the only one.    *)
LEMMA HoldersExclusive == IInv => HeldByOne
<1> SUFFICES ASSUME IInv, NEW t \in Tasks
             PROVE  /\ \A c, d \in TrustedCoordinators(t) : c = d
                    /\ \A v, w \in Writers(t) : v = w
                    /\ \A x \in TrustedCoordinators(t) \cup Writers(t) : x \notin EndedLeases
    BY DEF HeldByOne
<1>1. /\ \A c \in CoordIds : Trusted(coord[c]) => Active(coord[c])
      /\ \A w \in WorkerIds : Trusted(worker[w]) => Active(worker[w])
    BY TrustedIsActive
<1>2. CoordinatorOwnsTask(coord, worker) /\ OneActiveWriter(worker)
    BY DEF IInv, TablesOK
<1>3. \A c, d \in TrustedCoordinators(t) : c = d
    BY <1>1, <1>2 DEF CoordinatorOwnsTask, TrustedCoordinators
<1>4. \A v, w \in Writers(t) : v = w
    BY <1>1, <1>2 DEF OneActiveWriter, Writers, TrustedWorkers
<1>5. \A x \in TrustedCoordinators(t) \cup Writers(t) : x \notin EndedLeases
    BY <1>1, LeaseConstants
       DEF TrustedCoordinators, Writers, TrustedWorkers, EndedLeases, Active
<1> QED
    BY <1>3, <1>4, <1>5

(* A set without two different members, before and after a step that adds  *)
(* none to a set that has one, is kept, emptied or granted.                *)
LEMMA KeptLostOrGranted ==
    ASSUME NEW S, NEW T, \A x, y \in S : x = y, \A x, y \in T : x = y,
           \A x \in T : x \in S \/ S = {}
    PROVE  T = S \/ T = {} \/ (S = {} /\ \E x \in T : T = {x})
<1>1. CASE T # {} /\ S # {}
  <2>1. PICK x \in T : x \in S
    BY <1>1
  <2>2. S = {x} /\ T = {x}
    BY <2>1
  <2> QED
    BY <2>2
<1>2. CASE T # {} /\ S = {}
  <2>1. PICK x \in T : TRUE
    BY <1>2
  <2>2. T = {x}
    BY <2>1
  <2> QED
    BY <1>2, <2>2
<1> QED
    BY <1>1, <1>2

(* TrustedIsActive as a state predicate, to be used after a step too.      *)
TrustedOnlyActive ==
    /\ \A c \in CoordIds : Trusted(coord[c]) => Active(coord[c])
    /\ \A w \in WorkerIds : Trusted(worker[w]) => Active(worker[w])

(* The sweep of leases.rs ends no lease that is still trusted.             *)
LEMMA TrustedAreActive == IInv => TrustedOnlyActive
    BY TrustedIsActive DEF TrustedOnlyActive

(* Who is trusted after a step was trusted before it, or nobody was.       *)
LEMMA StepHolders ==
    ASSUME IInv, IInv', Next, NEW t \in Tasks
    PROVE  /\ \A c \in TrustedCoordinators(t)' : c \in TrustedCoordinators(t) \/ TrustedCoordinators(t) = {}
           /\ \A w \in Writers(t)' : w \in Writers(t) \/ Writers(t) = {}
<1>1. Granted
    BY StepGrants
<1>2. /\ \A c \in CoordIds : Trusted(coord[c])' => Active(coord'[c])
      /\ \A w \in WorkerIds : Trusted(worker[w])' => Active(worker'[w])
  <2>1. TrustedOnlyActive'
    BY TrustedAreActive, PTL
  <2> QED
    BY <2>1 DEF TrustedOnlyActive, Active
<1>3. ASSUME NEW c \in TrustedCoordinators(t)', NEW d \in TrustedCoordinators(t)
      PROVE  c = d
  <2>1. c \in CoordIds /\ Active(coord'[c]) /\ coord'[c].task = t
    BY <1>2, <1>3 DEF TrustedCoordinators
  <2>2. d \in CoordIds /\ Trusted(coord[d]) /\ coord[d].task = t
    BY <1>3 DEF TrustedCoordinators
  <2>3. Active(coord[c]) /\ coord[c].task = t
    BY <1>1, <2>1, <2>2 DEF Granted, CoordinatorGranted
  <2>4. Active(coord[d])
    BY <2>2, TrustedIsActive
  <2> QED
    BY <2>1, <2>2, <2>3, <2>4 DEF IInv, TablesOK, CoordinatorOwnsTask
<1>4. ASSUME NEW w \in Writers(t)', NEW v \in Writers(t)
      PROVE  w = v
  <2>1. w \in WorkerIds /\ Active(worker'[w]) /\ worker'[w].task = t /\ worker'[w].mode = "writable"
    BY <1>2, <1>4 DEF Writers, TrustedWorkers
  <2>2. v \in WorkerIds /\ Trusted(worker[v]) /\ worker[v].task = t /\ worker[v].mode = "writable"
    BY <1>4 DEF Writers, TrustedWorkers
  <2>3. Active(worker[w]) /\ worker[w].task = t /\ worker[w].mode = "writable"
    BY <1>1, <2>1, <2>2 DEF Granted, WriterGranted
  <2>4. Active(worker[v])
    BY <2>2, TrustedIsActive
  <2> QED
    BY <2>1, <2>2, <2>3, <2>4 DEF IInv, TablesOK, OneActiveWriter
<1> QED
    BY <1>3, <1>4

(* The tables of leases.rs implement the promise of ExclusiveGrant: the    *)
(* authority to coordinate a task and the one to write to its worktree are *)
(* granted to one lease at a time and never to one that has ended.         *)
THEOREM Refinement == Spec => ImplementsExclusiveGrant
<1>1. Init => Promise!Init
  <2> SUFFICES ASSUME Init PROVE Promise!Init
    OBVIOUS
  <2>1. IInv
    BY InitOK
  <2>2. ASSUME NEW a \in Authority
        PROVE  (\A i, j \in Holders[a] : i = j) /\ Holders[a] \cap EndedLeases = {}
    <3>1. a[2] \in Tasks /\ Holders[a] \in {TrustedCoordinators(a[2]), Writers(a[2])}
      BY DEF Authority, Holders
    <3> QED
      BY <2>1, <3>1, HoldersExclusive DEF HeldByOne
  <2> QED
    BY <2>2 DEF Promise!Init
<1>2. IInv /\ IInv' /\ [Next]_vars => [Promise!Next]_<<Holders, EndedLeases>>
  <2> SUFFICES ASSUME IInv, IInv', [Next]_vars
               PROVE  [Promise!Next]_<<Holders, EndedLeases>>
    OBVIOUS
  <2>1. CASE UNCHANGED vars
    BY <2>1 DEF vars, Holders, EndedLeases, Writers, TrustedWorkers, TrustedCoordinators, Trusted
  <2>2. CASE Next
    <3>1. EndedLeases \subseteq EndedLeases'
      BY <2>2, StepKeepsEnded DEF IInv, KeepsEnded, Ended, EndedLeases
    <3>2. ASSUME NEW a \in Authority
          PROVE  /\ Promise!Keep(a) \/ Promise!Lose(a) \/ Promise!Grant(a)
                 /\ Holders'[a] \cap EndedLeases' = {}
      <4> DEFINE t == a[2]
                 S == Holders[a]
                 T == Holders'[a]
      <4>1. /\ t \in Tasks
            /\ \/ S = TrustedCoordinators(t) /\ T = TrustedCoordinators(t)'
               \/ S = Writers(t) /\ T = Writers(t)'
        BY DEF Authority, Holders
      <4>2. /\ \A x, y \in S : x = y
            /\ \A x, y \in T : x = y
            /\ T \cap EndedLeases' = {}
        <5>1. HeldByOne /\ HeldByOne'
          BY HoldersExclusive, PTL
        <5> QED
          BY <4>1, <5>1 DEF HeldByOne
      <4>3. \A x \in T : x \in S \/ S = {}
        BY <2>2, <4>1, StepHolders
      <4>4. T \subseteq CoordIds \cup WorkerIds
        BY <4>1 DEF TrustedCoordinators, Writers, TrustedWorkers
      <4> HIDE DEF S, T, t
      <4>5. T = S \/ T = {} \/ (S = {} /\ \E x \in T : T = {x})
        BY <4>2, <4>3, KeptLostOrGranted
      <4> QED
        BY <4>2, <4>4, <4>5 DEF S, T, Promise!Keep, Promise!Lose, Promise!Grant
    <3> QED
      BY <3>1, <3>2 DEF Promise!Next
  <2> QED
    BY <2>1, <2>2
<1> QED
    BY <1>1, <1>2, TablesInvariant, PTL DEF Spec, ImplementsExclusiveGrant, Promise!Spec
=============================================================================

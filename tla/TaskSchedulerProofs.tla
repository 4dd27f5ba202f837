-------------------------- MODULE TaskSchedulerProofs --------------------------
(***************************************************************************)
(* Claims are sound, a task has one executor and is never started again,   *)
(* for every graph, every scope and limit, any number of daemons and       *)
(* claims, every TTL and lag, and whatever the environment does: IInv of   *)
(* TaskScheduler is inductive.                                             *)
(***************************************************************************)
EXTENDS TaskScheduler, FiniteSetTheorems, TLAPS

(* A timestamp is a natural number not ahead of the clock. *)
LEMMA StampBound ==
    ASSUME TypeOK, NEW at \in Stamps
    PROVE  at \in Nat /\ at <= clock /\ at \in 0 .. MaxClock
BY DaemonRowConstants, SchedulerConstants DEF TypeOK, Stamps

-----------------------------------------------------------------------------
(* The statements on daemon_instances keep the table well formed. *)

(* An unreleased row is a full row. *)
LEMMA UnreleasedRow ==
    ASSUME NEW R \in DaemonTable, NEW d \in Daemons, Unreleased(R[d])
    PROVE  R[d] \in DaemonInstance
BY DEF DaemonTable, Unreleased, NoInstance

(* The sweep and the INSERT of acquire_daemon_lease_with_phase. *)
LEMMA AcquireType ==
    ASSUME NEW R \in DaemonTable, NEW d \in Daemons, NEW at \in 0 .. MaxClock
    PROVE  AcquireLease(R, d, "online", at) \in DaemonTable
<1>1. at + LeaseTtl \in 0 .. (MaxClock + LeaseTtl)
    BY DaemonRowConstants
<1>2. NewInstance("online", at) \in DaemonInstance
    BY <1>1 DEF NewInstance, DaemonInstance, Phases
<1>3. ExpireInstances(R, at) \in DaemonTable
    <2>1. \A e \in Daemons : Unreleased(R[e]) => R[e] \in DaemonInstance
        BY UnreleasedRow
    <2> QED
        BY <2>1 DEF ExpireInstances, DaemonTable, DaemonInstance
<1> QED
    BY <1>2, <1>3 DEF AcquireLease, DaemonTable

(* release_daemon *)
LEMMA ReleaseType ==
    ASSUME NEW R \in DaemonTable, NEW d \in Daemons
    PROVE  ReleaseInstance(R, d) \in DaemonTable
<1>1. Unreleased(R[d]) => R[d] \in DaemonInstance
    BY UnreleasedRow
<1> QED
    BY <1>1 DEF ReleaseInstance, DaemonTable, DaemonInstance

(* heartbeat_daemon *)
LEMMA HeartbeatType ==
    ASSUME NEW R \in DaemonTable, NEW d \in Daemons, NEW at \in 0 .. MaxClock,
           CanHeartbeat(R, d, at)
    PROVE  HeartbeatLease(R, d, at) \in DaemonTable
<1>1. R[d] \in DaemonInstance
    BY UnreleasedRow DEF CanHeartbeat
<1>2. at + LeaseTtl \in 0 .. (MaxClock + LeaseTtl)
    BY DaemonRowConstants
<1> QED
    BY <1>1, <1>2 DEF HeartbeatLease, DaemonTable, DaemonInstance

(* request_daemon_stop *)
LEMMA StopType ==
    ASSUME NEW R \in DaemonTable, NEW d \in Daemons, Unreleased(R[d])
    PROVE  RequestStopOf(R, d) \in DaemonTable
<1>1. R[d] \in DaemonInstance
    BY UnreleasedRow
<1> QED
    BY <1>1 DEF RequestStopOf, DaemonTable, DaemonInstance

-----------------------------------------------------------------------------
(* Claims. *)

(* A claim row that is not absent is a full row. *)
LEMMA ClaimRow ==
    ASSUME TypeOK, NEW c \in ClaimIds
    PROVE  /\ claims[c] # NoClaim => claims[c] \in ScheduleClaim /\ claims[c].task \in Tasks
           /\ claims[c].st = "active" => claims[c] # NoClaim
BY DEF TypeOK, NoClaim, ScheduleClaim

(* A scope overlaps itself, so two claims of one task are never disjoint.  *)
LEMMA ScopeReflexive ==
    ASSUME NEW t \in Tasks
    PROVE  ScopesOverlap(Scope[t], Scope[t])
<1>1. \A p : RepoPathsOverlap(p, p)
    BY DEF RepoPathsOverlap
<1> QED
    BY <1>1, SchedulerConstants DEF ScopesOverlap

(* Fewer active claims, the same tasks: still disjoint and within limits.  *)
LEMMA ActiveShrinks ==
    ASSUME IInv, Active' \subseteq Active,
           \A c \in Active' : claims'[c].task = claims[c].task
    PROVE  ActiveDisjoint' /\ ActiveWithinLimits'
<1>1. ActiveDisjoint'
    BY DEF IInv, ActiveDisjoint
<1>2. IsFiniteSet(Active') /\ Cardinality(Active') <= Cardinality(Active)
    BY FS_Subset DEF IInv, ActiveWithinLimits
<1>3. Cardinality(Active) \in Nat /\ Cardinality(Active') \in Nat
    BY <1>2, FS_CardinalityType DEF IInv, ActiveWithinLimits
<1>4. ASSUME NEW t \in Tasks
      PROVE  Cardinality({c \in Active' : Provider[claims'[c].task] = Provider[t]})
                <= ProviderLimit[Provider[t]]
    <2> DEFINE P == {c \in Active : Provider[claims[c].task] = Provider[t]}
               Q == {c \in Active' : Provider[claims'[c].task] = Provider[t]}
    <2>1. IsFiniteSet(P)
        BY FS_Subset DEF IInv, ActiveWithinLimits
    <2>2. Q \subseteq P
        OBVIOUS
    <2>3. IsFiniteSet(Q) /\ Cardinality(Q) <= Cardinality(P)
        BY <2>1, <2>2, FS_Subset
    <2>4. Cardinality(P) \in Nat /\ Cardinality(Q) \in Nat
        BY <2>1, <2>3, FS_CardinalityType
    <2>5. Cardinality(P) <= ProviderLimit[Provider[t]]
        BY DEF IInv, ActiveWithinLimits
    <2> QED
        BY <2>3, <2>4, <2>5, SchedulerConstants
<1> QED
    BY <1>1, <1>2, <1>3, <1>4, SchedulerConstants DEF IInv, ActiveWithinLimits

-----------------------------------------------------------------------------
(* Steps that change neither the task nor the claims. *)

(* Nothing is queued, claimed or spawned.                                  *)
LEMMA InitOK == Init => IInv
<1> SUFFICES ASSUME Init PROVE IInv
    OBVIOUS
<1>1. TypeOK
    BY DaemonRowConstants
       DEF Init, TypeOK, DaemonTable, Pcs, JobPcs, States
<1>2. Active = {}
    BY DEF Init, Active, NoClaim
<1>3. ActiveDisjoint /\ ActiveWithinLimits
    <2>1. IsFiniteSet(Active) /\ Cardinality(Active) = 0
        BY <1>2, FS_EmptySet
    <2>2. \A t \in Tasks : {c \in Active : Provider[claims[c].task] = Provider[t]} = {}
        BY <1>2
    <2> QED
        BY <1>2, <2>1, <2>2, FS_EmptySet, SchedulerConstants
           DEF ActiveDisjoint, ActiveWithinLimits
<1>4. JobHasClaim /\ StateOfJob /\ OneExecutor /\ ClaimedVerified
    BY DEF Init, JobHasClaim, StateOfJob, OneExecutor, ClaimedVerified, Executing
<1>5. DependenciesFirst /\ ResumeEarly
    BY DEF Init, DependenciesFirst, ResumeEarly
<1> QED
    BY <1>1, <1>3, <1>4, <1>5 DEF IInv

(* A job that stops executing, or changes where it was not executing,      *)
(* disturbs nothing.                                                       *)
LEMMA QuietStep ==
    ASSUME IInv, TypeOK', ResumeEarly', UNCHANGED <<state, passed, claims>>,
           \A c \in ClaimIds :
              job'[c] = job[c] \/ (job[c] # "none" /\ job'[c] \notin Executing \cup {"none"})
    PROVE  IInv'
<1>1. Active' = Active
    BY DEF Active
<1>2. ActiveDisjoint' /\ ActiveWithinLimits'
    BY <1>1, ActiveShrinks
<1>3. JobHasClaim' /\ StateOfJob' /\ OneExecutor'
    BY DEF IInv, JobHasClaim, StateOfJob, OneExecutor, Executing
<1>4. ClaimedVerified' /\ DependenciesFirst'
    BY DEF IInv, ClaimedVerified, DependenciesFirst, DependenciesVerified
<1> QED
    BY <1>2, <1>3, <1>4 DEF IInv

(* The task of a job that is there. *)
LEMMA JobTask ==
    ASSUME IInv, NEW c \in ClaimIds, job[c] # "none"
    PROVE  claims[c] \in ScheduleClaim /\ claims[c].task \in Tasks /\ claims[c] # NoClaim
BY ClaimRow DEF IInv, JobHasClaim

(* Tasks that are completed and verified stay so: what they allow to be    *)
(* claimed stays allowed.                                                  *)
LEMMA VerifiedStays ==
    ASSUME IInv,
           \A u \in Tasks : state[u] = "completed" =>
               state'[u] = "completed" /\ passed'[u] = passed[u]
    PROVE  \A t \in Tasks : DependenciesVerified(t) => DependenciesVerified(t)'
BY SchedulerConstants DEF DependenciesVerified

-----------------------------------------------------------------------------
(* The transitions of a job. *)

(* The compare-and-set of a job's transition, for every pair of states it  *)
(* is called with: no other job executes the task.                         *)
LEMMA TransitionOK ==
    ASSUME IInv, NEW c \in ClaimIds,
           NEW from \in LiveJob, NEW expected \in States, NEW next \in States,
           NEW to \in JobPcs,
           expected # "completed", next # "queued", to # "none",
           to \in {"executing", "reported", "rejected"} => next = "running",
           to = "verifying" => next = "verifying",
           from \in Executing \/ expected \in {"queued", "analyzing", "planned"},
           Transition(c, from, expected, next, to)
    PROVE  IInv'
<1> DEFINE t == claims[c].task
<1>1. t \in Tasks /\ job[c] = from /\ claims[c] # NoClaim /\ from # "none"
    BY JobTask DEF Transition, LiveJob
<1>2. CASE state[t] # expected
    <2>1. job' = [job EXCEPT ![c] = "erring"] /\ UNCHANGED <<clock, rows, pc, taskVars, claims, resume>>
        BY <1>2 DEF Transition, Goto, taskVars
    <2>2. TypeOK' /\ ResumeEarly'
        BY <2>1 DEF IInv, TypeOK, ResumeEarly, taskVars, JobPcs
    <2> QED
        BY <1>1, <2>1, <2>2, QuietStep DEF IInv, TypeOK, taskVars, Executing
<1>3. CASE state[t] = expected
    <2>1. /\ state' = [state EXCEPT ![t] = next]
          /\ revision' = [revision EXCEPT ![t] = @ + 1]
          /\ job' = [job EXCEPT ![c] = to]
          /\ UNCHANGED <<clock, rows, pc, passed, claims, resume>>
        BY <1>3 DEF Transition, SetState, Goto
    <2>2. TypeOK'
        BY <1>1, <2>1 DEF IInv, TypeOK
    <2>3. Active' = Active
        BY <2>1 DEF Active
    <2>4. ActiveDisjoint' /\ ActiveWithinLimits'
        BY <2>1, <2>3, ActiveShrinks
    <2>5. ASSUME NEW e \in ClaimIds, e # c, job[e] \in Executing
          PROVE  claims[e].task # t
        BY <1>1, <1>3, <2>5 DEF IInv, OneExecutor, StateOfJob, Executing
    <2>6. \A e \in ClaimIds : e # c => job'[e] = job[e]
        BY <2>1 DEF IInv, TypeOK
    <2>7. job'[c] = to /\ state'[t] = next
        BY <1>1, <2>1 DEF IInv, TypeOK
    <2>8. JobHasClaim'
        BY <1>1, <2>1, <2>6, <2>7 DEF IInv, JobHasClaim
    <2>9. StateOfJob'
        <3>1. ASSUME NEW e \in ClaimIds, e # c, job[e] \in Executing
              PROVE  state'[claims'[e].task] = state[claims[e].task]
            BY <2>1, <2>5, <3>1, JobTask DEF IInv, TypeOK, Executing
        <3> QED
            BY <2>1, <2>6, <2>7, <3>1 DEF IInv, StateOfJob, Executing
    <2>10. OneExecutor'
        BY <2>1, <2>5, <2>6 DEF IInv, OneExecutor
    <2>11. \A u \in Tasks : DependenciesVerified(u) => DependenciesVerified(u)'
        BY <1>1, <1>3, <2>1, VerifiedStays DEF IInv, TypeOK
    <2>12. ClaimedVerified'
        BY <2>1, <2>11, ClaimRow DEF IInv, ClaimedVerified
    <2>13. DependenciesFirst'
        BY <1>1, <2>1, <2>11 DEF IInv, TypeOK, DependenciesFirst, ClaimedVerified
    <2>14. ResumeEarly'
        BY <2>1 DEF IInv, ResumeEarly
    <2> QED
        BY <2>2, <2>4, <2>8, <2>9, <2>10, <2>12, <2>13, <2>14 DEF IInv
<1> QED
    BY <1>2, <1>3

(* Each transition of run_claimed_task is one of these. *)
LEMMA JobTransitions ==
    ASSUME IInv, NEW c \in ClaimIds,
           \/ BeginAnalysis(c) \/ BeginPlanned(c) \/ BeginRunning(c) \/ ExecutionFails(c)
           \/ FailTask(c) \/ BeginVerifying(c) \/ Complete(c)
    PROVE  IInv'
<1> USE DEF States, LiveJob, JobPcs, Executing
<1>1. CASE BeginAnalysis(c)
    BY <1>1, TransitionOK DEF BeginAnalysis
<1>2. CASE BeginPlanned(c)
    BY <1>2, TransitionOK DEF BeginPlanned
<1>3. CASE BeginRunning(c)
    BY <1>3, TransitionOK DEF BeginRunning
<1>4. CASE ExecutionFails(c)
    BY <1>4, TransitionOK DEF ExecutionFails
<1>5. CASE FailTask(c)
    BY <1>5, TransitionOK DEF FailTask
<1>6. CASE BeginVerifying(c)
    BY <1>6, TransitionOK DEF BeginVerifying
<1>7. CASE Complete(c)
    BY <1>7, TransitionOK DEF Complete
<1> QED
    BY <1>1, <1>2, <1>3, <1>4, <1>5, <1>6, <1>7

(* persist_report writes the verification of a task that is running, so    *)
(* nothing that was claimed on its completion is affected.                 *)
LEMMA PersistReportOK ==
    ASSUME IInv, NEW c \in ClaimIds, PersistReport(c)
    PROVE  IInv'
<1> DEFINE t == claims[c].task
<1>1. t \in Tasks /\ state[t] = "running" /\ job[c] = "executing"
    BY JobTask DEF PersistReport, IInv, StateOfJob
<1>2. PICK v \in BOOLEAN, to \in {"reported", "rejected"} :
        /\ passed' = [passed EXCEPT ![t] = v]
        /\ job' = [job EXCEPT ![c] = to]
    BY DEF PersistReport, Goto
<1>3. UNCHANGED <<clock, rows, pc, state, revision, claims, resume>>
    BY DEF PersistReport
<1>4. TypeOK'
    BY <1>1, <1>2, <1>3 DEF IInv, TypeOK, JobPcs
<1>5. Active' = Active
    BY <1>3 DEF Active
<1>6. ActiveDisjoint' /\ ActiveWithinLimits'
    BY <1>3, <1>5, ActiveShrinks
<1>7. JobHasClaim' /\ StateOfJob' /\ OneExecutor'
    BY <1>1, <1>2, <1>3 DEF IInv, TypeOK, JobHasClaim, StateOfJob, OneExecutor, Executing
<1>8. \A u \in Tasks : DependenciesVerified(u) => DependenciesVerified(u)'
    BY <1>1, <1>2, <1>3, VerifiedStays DEF IInv, TypeOK
<1>9. ClaimedVerified' /\ DependenciesFirst'
    BY <1>3, <1>8, ClaimRow DEF IInv, ClaimedVerified, DependenciesFirst
<1>10. ResumeEarly'
    BY <1>3 DEF IInv, ResumeEarly
<1> QED
    BY <1>4, <1>6, <1>7, <1>9, <1>10 DEF IInv

(* Another round for instructions not yet delivered: still the executor.   *)
LEMMA MoreInstructionsOK ==
    ASSUME IInv, NEW c \in ClaimIds, MoreInstructions(c)
    PROVE  IInv'
<1>1. /\ job[c] = "reported"
      /\ job' = [job EXCEPT ![c] = "executing"]
      /\ UNCHANGED <<clock, rows, pc, state, revision, passed, claims, resume>>
    BY DEF MoreInstructions, Goto, taskVars
<1>2. TypeOK'
    BY <1>1 DEF IInv, TypeOK, JobPcs
<1>3. Active' = Active
    BY <1>1 DEF Active
<1>4. ActiveDisjoint' /\ ActiveWithinLimits'
    BY <1>1, <1>3, ActiveShrinks
<1>5. JobHasClaim' /\ StateOfJob' /\ OneExecutor'
    BY <1>1 DEF IInv, TypeOK, JobHasClaim, StateOfJob, OneExecutor, Executing
<1>6. ClaimedVerified' /\ DependenciesFirst' /\ ResumeEarly'
    BY <1>1 DEF IInv, ClaimedVerified, DependenciesFirst, DependenciesVerified, ResumeEarly
<1> QED
    BY <1>2, <1>4, <1>5, <1>6 DEF IInv

(* A claim that only changes between active and released, or its expiry,   *)
(* keeps its task; with no new active claim nothing else is disturbed.     *)
LEMMA ClaimKept ==
    ASSUME IInv, TypeOK', Active' \subseteq Active,
           UNCHANGED <<state, passed, resume>>,
           \A e \in ClaimIds :
              /\ claims'[e] = NoClaim <=> claims[e] = NoClaim
              /\ claims[e] # NoClaim => claims'[e].task = claims[e].task
              /\ job'[e] = job[e] \/ (job[e] # "none" /\ job'[e] \notin Executing \cup {"none"})
    PROVE  IInv'
<1>1. \A e \in ClaimIds : job[e] # "none" => claims'[e].task = claims[e].task
    BY DEF IInv, JobHasClaim
<1>2. \A e \in Active' : claims'[e].task = claims[e].task
    BY ClaimRow DEF IInv, Active
<1>3. ActiveDisjoint' /\ ActiveWithinLimits'
    BY <1>2, ActiveShrinks
<1>4. JobHasClaim'
    BY DEF IInv, JobHasClaim
<1>5. StateOfJob'
    BY <1>1 DEF IInv, StateOfJob, Executing
<1>6. OneExecutor'
    BY <1>1 DEF IInv, OneExecutor, Executing
<1>7. ClaimedVerified' /\ DependenciesFirst' /\ ResumeEarly'
    BY DEF IInv, ClaimedVerified, DependenciesFirst, DependenciesVerified, ResumeEarly
<1> QED
    BY <1>3, <1>4, <1>5, <1>6, <1>7 DEF IInv

(* renew_schedule_claim only prolongs a claim nobody released; a refused   *)
(* renewal ends the execution.                                             *)
LEMMA RenewClaimOK ==
    ASSUME IInv, NEW c \in ClaimIds, NEW at \in Stamps, RenewClaim(c, at)
    PROVE  IInv'
<1>1. at \in 0 .. MaxClock /\ at + ClaimTtl \in 0 .. (MaxClock + ClaimTtl)
    BY StampBound, DaemonRowConstants, SchedulerConstants DEF IInv
<1>2. job[c] = "executing" /\ claims[c] \in ScheduleClaim
    BY JobTask DEF RenewClaim
<1>3. CASE CanRenew(c, at)
    <2>1. /\ claims' = [claims EXCEPT ![c].expires = at + ClaimTtl]
          /\ UNCHANGED <<clock, rows, pc, state, revision, passed, resume, job>>
        BY <1>3 DEF RenewClaim, taskVars
    <2>2. TypeOK'
        BY <1>1, <1>2, <2>1 DEF IInv, TypeOK, ScheduleClaim
    <2>3. \A e \in ClaimIds : claims'[e].st = claims[e].st /\ claims'[e].task = claims[e].task
        BY <1>2, <2>1 DEF IInv, TypeOK, ScheduleClaim
    <2>4. \A e \in ClaimIds : claims'[e] = NoClaim <=> claims[e] = NoClaim
        BY <1>2, <2>1, <2>3 DEF IInv, TypeOK, ScheduleClaim, NoClaim
    <2>5. Active' = Active
        BY <2>3 DEF Active
    <2> QED
        BY <2>1, <2>2, <2>3, <2>4, <2>5, ClaimKept
<1>4. CASE ~ CanRenew(c, at)
    <2>1. /\ job' = [job EXCEPT ![c] = "erring"]
          /\ UNCHANGED <<clock, rows, pc, state, revision, passed, resume, claims>>
        BY <1>4 DEF RenewClaim, Goto, taskVars
    <2>2. TypeOK' /\ ResumeEarly'
        BY <2>1 DEF IInv, TypeOK, JobPcs, ResumeEarly
    <2> QED
        BY <1>2, <2>1, <2>2, QuietStep DEF IInv, TypeOK, Executing
<1> QED
    BY <1>3, <1>4

(* release_schedule_claim at the end of a job. *)
LEMMA ReleaseClaimOK ==
    ASSUME IInv, NEW c \in ClaimIds, ReleaseClaim(c)
    PROVE  IInv'
<1>1. job[c] \in {"closing", "erring"} /\ claims[c] \in ScheduleClaim
    BY JobTask DEF ReleaseClaim
<1>2. PICK to \in {"ok", "err"} : job' = [job EXCEPT ![c] = to]
    BY DEF ReleaseClaim, Goto
<1>3. /\ claims' = [claims EXCEPT ![c].st = "released"]
      /\ UNCHANGED <<clock, rows, pc, state, revision, passed, resume>>
    BY DEF ReleaseClaim, taskVars
<1>4. TypeOK'
    BY <1>1, <1>2, <1>3 DEF IInv, TypeOK, ScheduleClaim, JobPcs
<1>5. \A e \in ClaimIds : claims'[e].task = claims[e].task /\ (e # c => claims'[e] = claims[e])
    BY <1>1, <1>3 DEF IInv, TypeOK, ScheduleClaim
<1>6. claims[c] # NoClaim /\ claims'[c] # NoClaim /\ claims'[c].st = "released"
    BY <1>1, <1>3 DEF IInv, TypeOK, ScheduleClaim, NoClaim
<1>7. Active' \subseteq Active
    BY <1>5, <1>6 DEF Active
<1>8. \A e \in ClaimIds :
        job'[e] = job[e] \/ (job[e] # "none" /\ job'[e] \notin Executing \cup {"none"})
    BY <1>1, <1>2 DEF IInv, TypeOK, Executing
<1> QED
    BY <1>3, <1>4, <1>5, <1>6, <1>7, <1>8, ClaimKept

-----------------------------------------------------------------------------
(* Claiming. *)

(* The sweep before a claim leaves active exactly the claims in force at   *)
(* its timestamp, and changes nothing of a claim but whether it is active. *)
LEMMA ExpireClaimsFacts ==
    ASSUME TypeOK, NEW at \in Nat
    PROVE  LET E == ExpireClaims(at) IN
           /\ E \in [ClaimIds -> ScheduleClaim \cup {NoClaim}]
           /\ \A c \in ClaimIds :
                /\ E[c] = NoClaim <=> claims[c] = NoClaim
                /\ claims[c] # NoClaim => E[c].task = claims[c].task
                /\ E[c].st = "active" => claims[c].st = "active" /\ c \in InForce(E, at)
<1> DEFINE E == ExpireClaims(at)
<1>1. ASSUME NEW c \in ClaimIds, claims[c] \in ScheduleClaim
      PROVE  /\ E[c] \in ScheduleClaim /\ E[c].task = claims[c].task
             /\ E[c].expires = claims[c].expires
             /\ E[c].st = "active" => claims[c].st = "active" /\ ~ claims[c].expires <= at
    BY <1>1 DEF ExpireClaims, ScheduleClaim
<1>2. ASSUME NEW c \in ClaimIds, claims[c] = NoClaim
      PROVE  E[c] = NoClaim /\ E[c].st # "active"
    BY <1>2 DEF ExpireClaims, NoClaim
<1>3. \A c \in ClaimIds : claims[c] \in ScheduleClaim \/ claims[c] = NoClaim
    BY DEF TypeOK
<1>4. \A r \in ScheduleClaim : r # NoClaim /\ r.expires \in Nat
    BY DaemonRowConstants, SchedulerConstants DEF ScheduleClaim, NoClaim
<1>5. E \in [ClaimIds -> ScheduleClaim \cup {NoClaim}]
    <2>1. \A c \in ClaimIds : E[c] \in ScheduleClaim \cup {NoClaim}
        BY <1>1, <1>2, <1>3
    <2> QED
        BY <2>1 DEF ExpireClaims
<1>6. ASSUME NEW c \in ClaimIds
      PROVE  /\ E[c] = NoClaim <=> claims[c] = NoClaim
             /\ claims[c] # NoClaim => E[c].task = claims[c].task
             /\ E[c].st = "active" => claims[c].st = "active" /\ c \in InForce(E, at)
    BY <1>1, <1>2, <1>3, <1>4 DEF InForce
<1> QED
    BY <1>5, <1>6

(* A claim added to n claims comes to at most n + 1. *)
LEMMA OneMore ==
    ASSUME NEW S, IsFiniteSet(S), NEW T, NEW x, T \subseteq S \cup {x},
           NEW n \in Nat, Cardinality(S) < n
    PROVE  IsFiniteSet(T) /\ Cardinality(T) <= n
<1>1. /\ IsFiniteSet(S \cup {x})
      /\ Cardinality(S \cup {x}) = IF x \in S THEN Cardinality(S) ELSE Cardinality(S) + 1
    BY FS_AddElement
<1>2. IsFiniteSet(T) /\ Cardinality(T) <= Cardinality(S \cup {x})
    BY <1>1, FS_Subset
<1>3. Cardinality(S) \in Nat /\ Cardinality(T) \in Nat /\ Cardinality(S \cup {x}) \in Nat
    BY <1>1, <1>2, FS_CardinalityType
<1> QED
    BY <1>1, <1>2, <1>3

(* The INSERT of claim_next_ready_task: its task was ready against all the *)
(* claims that are still active.                                           *)
LEMMA ClaimOK ==
    ASSUME IInv, NEW at \in Stamps, NEW d \in Daemons, NEW t \in Tasks, NEW c \in ClaimIds,
           Ready(t, ExpireClaims(at), at),
           claims[c] = NoClaim,
           claims' = [ExpireClaims(at) EXCEPT ![c] = NewClaim(t, d, at)],
           job' = [job EXCEPT ![c] = "start"],
           UNCHANGED <<clock, rows, pc, state, revision, passed, resume>>
    PROVE  IInv'
<1> DEFINE E == ExpireClaims(at)
           F == InForce(E, at)
<1>1. at \in Nat /\ at \in 0 .. MaxClock /\ at + ClaimTtl \in 0 .. (MaxClock + ClaimTtl)
    BY StampBound, DaemonRowConstants, SchedulerConstants DEF IInv
<1>2. /\ E \in [ClaimIds -> ScheduleClaim \cup {NoClaim}]
      /\ \A e \in ClaimIds :
            /\ E[e] = NoClaim <=> claims[e] = NoClaim
            /\ claims[e] # NoClaim => E[e].task = claims[e].task
            /\ E[e].st = "active" => claims[e].st = "active" /\ e \in F
    BY <1>1, ExpireClaimsFacts DEF IInv
<1>3. NewClaim(t, d, at) \in ScheduleClaim /\ NewClaim(t, d, at).task = t
    BY <1>1 DEF NewClaim, ScheduleClaim
<1>4. /\ claims'[c] = NewClaim(t, d, at) /\ claims'[c] # NoClaim /\ claims'[c].task = t
      /\ \A e \in ClaimIds : e # c => claims'[e] = E[e]
    BY <1>2, <1>3 DEF NewClaim, NoClaim
<1>5. TypeOK'
    BY <1>2, <1>3 DEF IInv, TypeOK, JobPcs
<1>6. \A e \in ClaimIds : claims[e] # NoClaim =>
            e # c /\ claims'[e].task = claims[e].task /\ claims'[e] # NoClaim
    BY <1>2, <1>4
<1>7. Active' \subseteq F \cup {c} /\ F \subseteq Active
    BY <1>2, <1>4 DEF Active, InForce
<1>8. IsFiniteSet(F)
    BY <1>7, FS_Subset DEF IInv, ActiveWithinLimits
<1>9. ActiveDisjoint'
    <2>1. \A e \in F : claims[e] # NoClaim /\ E[e].task = claims[e].task /\ claims'[e].task = E[e].task
        BY <1>2, <1>4, <1>7, ClaimRow DEF IInv, Active
    <2>2. \A e \in F : ~ ScopesOverlap(Scope[E[e].task], Scope[t])
        BY DEF Ready
    <2>3. \A s, r : ScopesOverlap(s, r) => ScopesOverlap(r, s)
        <3>1. \A p, q : RepoPathsOverlap(p, q) => RepoPathsOverlap(q, p)
            BY DEF RepoPathsOverlap
        <3> QED
            BY <3>1 DEF ScopesOverlap
    <2>4. SUFFICES ASSUME NEW e \in Active', NEW f \in Active', e # f
                   PROVE  ~ ScopesOverlap(Scope[claims'[e].task], Scope[claims'[f].task])
        BY DEF ActiveDisjoint
    <2>5. CASE e # c /\ f # c
        BY <1>7, <2>1, <2>4, <2>5 DEF IInv, ActiveDisjoint
    <2>6. CASE e = c
        BY <1>4, <1>7, <2>1, <2>2, <2>3, <2>4, <2>6
    <2>7. CASE f = c
        BY <1>4, <1>7, <2>1, <2>2, <2>4, <2>7
    <2> QED
        BY <2>5, <2>6, <2>7
<1>10. ActiveWithinLimits'
    <2>1. IsFiniteSet(Active') /\ Cardinality(Active') <= GlobalLimit
        BY <1>7, <1>8, OneMore, SchedulerConstants DEF Ready
    <2>2. ASSUME NEW u \in Tasks
          PROVE  Cardinality({e \in Active' : Provider[claims'[e].task] = Provider[u]})
                    <= ProviderLimit[Provider[u]]
        <3> DEFINE P == {e \in F : Provider[E[e].task] = Provider[u]}
                   Q == {e \in Active' : Provider[claims'[e].task] = Provider[u]}
        <3>1. IsFiniteSet(P)
            BY <1>8, FS_Subset
        <3>2. CASE Provider[u] = Provider[t]
            <4>1. Q \subseteq P \cup {c}
                BY <1>4, <1>7
            <4>2. Cardinality(P) < ProviderLimit[Provider[u]]
                BY <3>2 DEF Ready
            <4>3. ProviderLimit[Provider[u]] \in Nat
                BY SchedulerConstants
            <4> QED
                BY <3>1, <4>1, <4>2, <4>3, OneMore
        <3>3. CASE Provider[u] # Provider[t]
            <4> DEFINE O == {e \in Active : Provider[claims[e].task] = Provider[u]}
            <4>1. Q \subseteq O
                BY <1>2, <1>4, <1>7, <3>3, ClaimRow DEF IInv, Active
            <4>2. IsFiniteSet(O) /\ Cardinality(O) <= ProviderLimit[Provider[u]]
                BY FS_Subset DEF IInv, ActiveWithinLimits
            <4>3. IsFiniteSet(Q) /\ Cardinality(Q) <= Cardinality(O)
                BY <4>1, <4>2, FS_Subset
            <4>4. Cardinality(O) \in Nat /\ Cardinality(Q) \in Nat /\ ProviderLimit[Provider[u]] \in Nat
                BY <4>2, <4>3, FS_CardinalityType, SchedulerConstants
            <4> QED
                BY <4>2, <4>3, <4>4
        <3> QED
            BY <3>2, <3>3
    <2> QED
        BY <2>1, <2>2 DEF ActiveWithinLimits
<1>11. job[c] = "none" /\ job'[c] = "start" /\ \A e \in ClaimIds : e # c => job'[e] = job[e]
    BY DEF IInv, TypeOK, JobHasClaim
<1>12. JobHasClaim'
    BY <1>2, <1>4, <1>11 DEF IInv, JobHasClaim
<1>13. StateOfJob' /\ OneExecutor'
    BY <1>6, <1>11 DEF IInv, JobHasClaim, StateOfJob, OneExecutor, Executing
<1>14. \A u \in Tasks : DependenciesVerified(u)' <=> DependenciesVerified(u)
    BY DEF DependenciesVerified
<1>15. ClaimedVerified'
    <2>1. DependenciesVerified(t)
        BY DEF Ready
    <2> QED
        BY <1>2, <1>4, <1>6, <1>14, <2>1, ClaimRow DEF IInv, ClaimedVerified
<1>16. DependenciesFirst' /\ ResumeEarly'
    BY <1>14 DEF IInv, DependenciesFirst, ResumeEarly
<1> QED
    BY <1>5, <1>9, <1>10, <1>12, <1>13, <1>15, <1>16 DEF IInv

(* One turn of spawn_ready_tasks: nothing to claim, an error, or a claim.  *)
LEMMA SpawnReadyOK ==
    ASSUME IInv, NEW at \in Stamps, NEW d \in Daemons, SpawnReady(d, at)
    PROVE  IInv'
<1>1. UNCHANGED <<clock, state, revision, passed, resume>>
    BY DEF SpawnReady, taskVars
<1>2. CASE UNCHANGED <<claims, job>>
    <2>1. rows' \in DaemonTable /\ pc' \in [Daemons -> Pcs]
        <3>1. ReleaseInstance(rows, d) \in DaemonTable
            BY ReleaseType DEF IInv, TypeOK
        <3>2. /\ rows' = rows \/ rows' = ReleaseInstance(rows, d)
              /\ pc' = pc \/ \E to \in Pcs : pc' = [pc EXCEPT ![d] = to]
            BY DEF SpawnReady, FailLoop, Pcs
        <3> QED
            BY <3>1, <3>2 DEF IInv, TypeOK
    <2>2. TypeOK' /\ ResumeEarly'
        BY <1>1, <1>2, <2>1 DEF IInv, TypeOK, ResumeEarly
    <2> QED
        BY <1>1, <1>2, <2>2, QuietStep
<1>3. CASE /\ claims' = ExpireClaims(at)
           /\ pc' = [pc EXCEPT ![d] = "serve"]
           /\ UNCHANGED <<rows, job>>
    <2>1. at \in Nat
        BY StampBound DEF IInv
    <2>2. TypeOK'
        BY <1>1, <1>3, <2>1, ExpireClaimsFacts DEF IInv, TypeOK, Pcs
    <2>3. Active' \subseteq Active
        BY <1>3, <2>1, ExpireClaimsFacts DEF IInv, Active
    <2> QED
        BY <1>1, <1>3, <2>1, <2>2, <2>3, ExpireClaimsFacts, ClaimKept DEF IInv
<1>4. CASE \E t \in Tasks, c \in ClaimIds :
                /\ FirstReady(t, ExpireClaims(at), at)
                /\ claims[c] = NoClaim
                /\ claims' = [ExpireClaims(at) EXCEPT ![c] = NewClaim(t, d, at)]
                /\ job' = [job EXCEPT ![c] = "start"]
                /\ UNCHANGED <<rows, pc>>
    BY <1>1, <1>4, ClaimOK DEF FirstReady
<1> QED
    BY <1>2, <1>3, <1>4 DEF SpawnReady

-----------------------------------------------------------------------------
(* Resume and the daemon. *)

(* The second transaction of resume requeues a task that still is where    *)
(* the first one saw it, so it was not running.                            *)
LEMMA CommitResumeOK ==
    ASSUME IInv, NEW at \in Stamps, CommitResume(at)
    PROVE  IInv'
<1> DEFINE t == resume.task
<1>1. /\ resume # NoResume /\ resume' = NoResume
      /\ UNCHANGED <<clock, rows, pc, passed, claims, job>>
    BY DEF CommitResume
<1>2. t \in Tasks /\ resume.state \in {"queued", "analyzing", "planned"}
    BY <1>1 DEF IInv, TypeOK, ResumeEarly
<1>3. CASE UNCHANGED <<state, revision>>
    <2>1. TypeOK' /\ ResumeEarly'
        BY <1>1, <1>3 DEF IInv, TypeOK, ResumeEarly
    <2> QED
        BY <1>1, <1>3, <2>1, QuietStep
<1>4. CASE state[t] = resume.state /\ SetState(t, "queued")
    <2>1. /\ state' = [state EXCEPT ![t] = "queued"]
          /\ revision' = [revision EXCEPT ![t] = @ + 1]
        BY <1>4 DEF SetState
    <2>2. TypeOK' /\ ResumeEarly'
        BY <1>1, <1>2, <2>1 DEF IInv, TypeOK, ResumeEarly, States
    <2>3. Active' = Active
        BY <1>1 DEF Active
    <2>4. ActiveDisjoint' /\ ActiveWithinLimits'
        BY <1>1, <2>3, ActiveShrinks
    <2>5. \A c \in ClaimIds : job[c] \in Executing =>
            claims[c].task # t /\ claims[c].task \in Tasks
        BY <1>2, <1>4, JobTask DEF IInv, StateOfJob, Executing
    <2>6. JobHasClaim' /\ StateOfJob' /\ OneExecutor'
        BY <1>1, <2>1, <2>5 DEF IInv, TypeOK, JobHasClaim, StateOfJob, OneExecutor, Executing
    <2>7. \A u \in Tasks : DependenciesVerified(u) => DependenciesVerified(u)'
        BY <1>1, <1>2, <1>4, <2>1, VerifiedStays DEF IInv, TypeOK
    <2>8. ClaimedVerified' /\ DependenciesFirst'
        BY <1>1, <1>2, <2>1, <2>7, ClaimRow
           DEF IInv, TypeOK, ClaimedVerified, DependenciesFirst
    <2> QED
        BY <2>2, <2>4, <2>6, <2>8 DEF IInv
<1> QED
    BY <1>3, <1>4 DEF CommitResume

(* The steps of the daemon process, of its users and of time: rows, pc and *)
(* the fate of jobs, which stop executing when their process ends.         *)
LEMMA DaemonStepOK ==
    ASSUME IInv, UNCHANGED <<state, revision, passed, claims>>,
           clock' \in 0 .. MaxClock, rows' \in DaemonTable, pc' \in [Daemons -> Pcs],
           job' \in [ClaimIds -> JobPcs],
           \A c \in ClaimIds :
              job'[c] = job[c] \/ (job[c] # "none" /\ job'[c] \in {"reaped", "lost"}),
           resume' = resume \/ resume' = NoResume
    PROVE  IInv'
<1>1. TypeOK' /\ ResumeEarly'
    BY DEF IInv, TypeOK, ResumeEarly
<1> QED
    BY <1>1, QuietStep DEF Executing

(* Every step keeps the invariant. *)
LEMMA StepOK == IInv /\ [Next]_vars => IInv'
<1> SUFFICES ASSUME IInv, [Next]_vars PROVE IInv'
    OBVIOUS
<1>0. /\ clock \in 0 .. MaxClock /\ rows \in DaemonTable /\ pc \in [Daemons -> Pcs]
      /\ job \in [ClaimIds -> JobPcs]
    BY DEF IInv, TypeOK
<1>1. CASE Tick
    <2>1. clock' \in 0 .. MaxClock
        BY <1>0, <1>1, DaemonRowConstants DEF Tick
    <2> QED
        BY <1>0, <1>1, <2>1, DaemonStepOK DEF Tick, taskVars
<1>2. ASSUME NEW c \in ClaimIds, JobStep(c) PROVE IInv'
    <2>1. CASE RefuseClaim(c)
        <3>1. TypeOK' /\ ResumeEarly'
            BY <2>1 DEF RefuseClaim, Goto, taskVars, IInv, TypeOK, JobPcs, ResumeEarly
        <3> QED
            BY <1>0, <2>1, <3>1, QuietStep DEF RefuseClaim, Goto, taskVars, Executing
    <2> QED
        BY <1>2, <2>1, JobTransitions, PersistReportOK, MoreInstructionsOK, ReleaseClaimOK
           DEF JobStep
<1>3. ASSUME NEW d \in Daemons, ReapFinished(d) PROVE IInv'
    <2>1. \A c \in ClaimIds : job'[c] = job[c] \/ (job[c] # "none" /\ job'[c] \in {"reaped", "lost"})
        BY <1>0, <1>3 DEF ReapFinished
    <2>2. job' \in [ClaimIds -> JobPcs]
        BY <1>0, <1>3 DEF ReapFinished, JobPcs
    <2>3. rows' \in DaemonTable /\ pc' \in [Daemons -> Pcs]
        BY <1>0, <1>3, ReleaseType DEF ReapFinished, FailLoop, Pcs
    <2> QED
        BY <1>0, <1>3, <2>1, <2>2, <2>3, DaemonStepOK DEF ReapFinished, taskVars
<1>4. ASSUME NEW d \in Daemons, Drain(d) PROVE IInv'
    <2>1. rows' \in DaemonTable /\ pc' \in [Daemons -> Pcs]
        BY <1>0, <1>4, ReleaseType DEF Drain, FailLoop, Pcs
    <2> QED
        BY <1>0, <1>4, <2>1, DaemonStepOK DEF Drain, taskVars
<1>5. ASSUME NEW d \in Daemons, ExitFailed(d) \/ Crash(d) PROVE IInv'
    <2>1. KillProcess(d)
        BY <1>5 DEF ExitFailed, Crash
    <2>2. \A c \in ClaimIds : job'[c] = job[c] \/ (job[c] # "none" /\ job'[c] \in {"reaped", "lost"})
        BY <1>0, <2>1 DEF KillProcess, LiveJob
    <2>3. job' \in [ClaimIds -> JobPcs] /\ pc' \in [Daemons -> Pcs]
        BY <1>0, <2>1 DEF KillProcess, JobPcs, Pcs
    <2> QED
        BY <1>0, <2>1, <2>2, <2>3, DaemonStepOK DEF KillProcess, taskVars
<1>6. ASSUME NEW d \in Daemons, Interrupt(d) PROVE IInv'
    <2>1. pc' \in [Daemons -> Pcs]
        BY <1>0, <1>6 DEF Interrupt, Pcs
    <2> QED
        BY <1>0, <1>6, <2>1, DaemonStepOK DEF Interrupt, taskVars
<1>7. ASSUME NEW d \in Daemons, RequestStop(d) PROVE IInv'
    BY <1>0, <1>7, StopType, DaemonStepOK DEF RequestStop, taskVars
<1>8. ASSUME NEW d \in Daemons, NEW at \in Stamps, Start(d, at) PROVE IInv'
    <2>1. at \in 0 .. MaxClock
        BY StampBound DEF IInv
    <2>2. rows' \in DaemonTable /\ pc' \in [Daemons -> Pcs]
        BY <1>0, <1>8, <2>1, AcquireType DEF Start, Pcs
    <2> QED
        BY <1>0, <1>8, <2>2, DaemonStepOK DEF Start, taskVars
<1>9. ASSUME NEW d \in Daemons, NEW at \in Stamps, Heartbeat(d, at) PROVE IInv'
    <2>1. at \in 0 .. MaxClock
        BY StampBound DEF IInv
    <2>2. rows' \in DaemonTable /\ pc' \in [Daemons -> Pcs]
        BY <1>0, <1>9, <2>1, HeartbeatType, ReleaseType DEF Heartbeat, FailLoop, Pcs
    <2> QED
        BY <1>0, <1>9, <2>2, DaemonStepOK DEF Heartbeat, taskVars
<1>10. ASSUME NEW t \in Tasks, NEW d \in Daemons, NEW at \in Stamps, CheckResume(t, d, at)
       PROVE  IInv'
    <2>1. state[t] \in {"queued", "analyzing", "planned"}
        BY <1>10 DEF CheckResume, Disposition
    <2>2. TypeOK' /\ ResumeEarly'
        BY <1>10, <2>1 DEF CheckResume, IInv, TypeOK, ResumeEarly, taskVars
    <2> QED
        BY <1>10, <2>2, QuietStep DEF CheckResume, taskVars
<1>11. CASE UNCHANGED vars
    BY <1>0, <1>11, DaemonStepOK DEF vars
<1> QED
    BY <1>1, <1>2, <1>3, <1>4, <1>5, <1>6, <1>7, <1>8, <1>9, <1>10, <1>11,
       CommitResumeOK, RenewClaimOK, SpawnReadyOK DEF Next

-----------------------------------------------------------------------------
(* The claims, the jobs and the tasks satisfy the inductive invariant in   *)
(* every state that the daemons of TaskScheduler reach.                    *)
THEOREM SchedulerInvariant == Spec => []IInv
BY InitOK, StepOK, PTL DEF Spec

(* The tables, the processes and the jobs stay well formed.                *)
THEOREM TypeCorrect == Spec => []TypeOK
<1>1. IInv => TypeOK
    BY DEF IInv
<1> QED
    BY <1>1, SchedulerInvariant, PTL

(* What is in force is active, so it inherits disjointness and limits.     *)
LEMMA SoundState == IInv => ClaimsSound
<1> SUFFICES ASSUME IInv PROVE ClaimsSound
    OBVIOUS
<1>1. Current \subseteq Active
    BY DEF Current, InForce, Active
<1>2. ScopesDisjoint /\ DependenciesFirst
    BY <1>1 DEF IInv, ActiveDisjoint, ScopesDisjoint
<1>3. Cardinality(Current) <= GlobalLimit
    <2>1. IsFiniteSet(Current) /\ Cardinality(Current) <= Cardinality(Active)
        BY <1>1, FS_Subset DEF IInv, ActiveWithinLimits
    <2>2. Cardinality(Current) \in Nat /\ Cardinality(Active) \in Nat
        BY <2>1, FS_CardinalityType DEF IInv, ActiveWithinLimits
    <2> QED
        BY <2>1, <2>2, SchedulerConstants DEF IInv, ActiveWithinLimits
<1>4. ASSUME NEW t \in Tasks
      PROVE  Cardinality({c \in Current : Provider[claims[c].task] = Provider[t]})
                <= ProviderLimit[Provider[t]]
    <2> DEFINE P == {c \in Active : Provider[claims[c].task] = Provider[t]}
               Q == {c \in Current : Provider[claims[c].task] = Provider[t]}
    <2>1. IsFiniteSet(P) /\ Cardinality(P) <= ProviderLimit[Provider[t]]
        BY FS_Subset DEF IInv, ActiveWithinLimits
    <2>2. IsFiniteSet(Q) /\ Cardinality(Q) <= Cardinality(P)
        BY <1>1, <2>1, FS_Subset
    <2>3. Cardinality(P) \in Nat /\ Cardinality(Q) \in Nat
        BY <2>1, <2>2, FS_CardinalityType
    <2> QED
        BY <2>1, <2>2, <2>3, SchedulerConstants
<1> QED
    BY <1>2, <1>3, <1>4 DEF ClaimsSound, LimitsRespected

(* Claims in force are disjoint in scope and within the global and the     *)
(* provider's limit, and no task leaves the queue before what it depends   *)
(* on is completed and verified: whichever daemon claimed, crashed or was  *)
(* late.                                                                   *)
THEOREM ClaimsAreSound == Spec => []ClaimsSound
BY SoundState, SchedulerInvariant, PTL

(* No two live jobs execute the same task, although a job outlives its     *)
(* claim until its next renewal.                                           *)
THEOREM SingleExecutor == Spec => []OneExecutor
<1>1. IInv => OneExecutor
    BY DEF IInv
<1> QED
    BY <1>1, SchedulerInvariant, PTL

(* A task that has started running never returns to the queue: a job's     *)
(* transitions lead forward, and resume requeues what it saw in the queue, *)
(* analyzing or planned and is there still.                                *)
THEOREM NothingRestarts == Spec => NeverRestarted
<1> DEFINE Early == {"queued", "analyzing", "planned"}
           Kept == \A t \in Tasks : state[t] \in {"running", "verifying"} \cup Terminal =>
                                       state'[t] \notin Early
<1>1. IInv /\ [Next]_vars => Kept
    <2> SUFFICES ASSUME IInv, [Next]_vars PROVE Kept
        OBVIOUS
    <2>1. CASE UNCHANGED state
        BY <2>1 DEF Terminal
    <2>2. ASSUME NEW t \in Tasks, NEW s \in States, state' = [state EXCEPT ![t] = s],
                 s \notin Early \/ state[t] \in Early
          PROVE  Kept
        BY <2>2 DEF IInv, TypeOK, Terminal
    <2>3. ASSUME NEW c \in ClaimIds, NEW from \in LiveJob, NEW expected, NEW next \in States,
                 NEW to, next \notin Early \/ expected \in Early,
                 Transition(c, from, expected, next, to)
          PROVE  Kept
        <3>1. claims[c].task \in Tasks
            BY <2>3, JobTask DEF Transition, LiveJob
        <3> QED
            BY <2>1, <2>2, <2>3, <3>1 DEF Transition, SetState
    <2>4. ASSUME NEW c \in ClaimIds, JobStep(c) PROVE Kept
        <3> USE DEF LiveJob, States
        <3>1. CASE BeginAnalysis(c) \/ BeginPlanned(c) \/ BeginRunning(c)
            BY <2>3, <3>1 DEF BeginAnalysis, BeginPlanned, BeginRunning
        <3>2. CASE ExecutionFails(c) \/ FailTask(c)
            BY <2>3, <3>2 DEF ExecutionFails, FailTask
        <3>3. CASE BeginVerifying(c) \/ Complete(c)
            BY <2>3, <3>3 DEF BeginVerifying, Complete
        <3>4. CASE RefuseClaim(c) \/ PersistReport(c) \/ MoreInstructions(c) \/ ReleaseClaim(c)
            BY <2>1, <3>4
               DEF RefuseClaim, PersistReport, MoreInstructions, ReleaseClaim, taskVars
        <3> QED
            BY <2>4, <3>1, <3>2, <3>3, <3>4 DEF JobStep
    <2>5. ASSUME NEW at \in Stamps, CommitResume(at) PROVE Kept
        <3>1. resume.task \in Tasks /\ resume.state \in Early
            BY <2>5 DEF CommitResume, IInv, TypeOK, ResumeEarly
        <3> QED
            BY <2>1, <2>2, <2>5, <3>1 DEF CommitResume, SetState, States
    <2>6. ASSUME NEW d \in Daemons,
                 \/ ReapFinished(d) \/ Drain(d) \/ ExitFailed(d)
                 \/ Crash(d) \/ Interrupt(d) \/ RequestStop(d)
          PROVE  Kept
        BY <2>1, <2>6 DEF ReapFinished, Drain, ExitFailed, Crash, KillProcess, Interrupt,
            RequestStop, taskVars
    <2>7. ASSUME NEW at \in Stamps, NEW d \in Daemons,
                 Start(d, at) \/ Heartbeat(d, at) \/ SpawnReady(d, at)
          PROVE  Kept
        BY <2>1, <2>7 DEF Start, Heartbeat, SpawnReady, taskVars
    <2>8. ASSUME NEW at \in Stamps, NEW d \in Daemons, NEW t \in Tasks, CheckResume(t, d, at)
          PROVE  Kept
        BY <2>1, <2>8 DEF CheckResume, taskVars
    <2>9. ASSUME NEW at \in Stamps, NEW c \in ClaimIds, RenewClaim(c, at) PROVE Kept
        BY <2>1, <2>9 DEF RenewClaim, taskVars
    <2>10. CASE Tick \/ UNCHANGED vars
        BY <2>1, <2>10 DEF Tick, taskVars, vars
    <2> QED
        BY <2>4, <2>5, <2>6, <2>7, <2>8, <2>9, <2>10 DEF Next
<1>2. IInv /\ [Next]_vars => [Kept]_vars
    BY <1>1
<1> QED
    BY <1>2, SchedulerInvariant, PTL DEF Spec, NeverRestarted
-----------------------------------------------------------------------------
(* A shutdown by signal joins the jobs before the lease is released.       *)

(* Without lag a transaction is stamped with the clock. *)
LEMMA StampNow ==
    ASSUME TypeOK, TimersInTime, NEW at \in Stamps
    PROVE  at = clock /\ at \in Nat /\ at \in 0 .. MaxClock
BY DaemonRowConstants DEF TypeOK, Stamps, TimersInTime

(* A row that is held is a full row, which its release leaves with the     *)
(* flag it has.                                                            *)
LEMMA ReleaseFacts ==
    ASSUME TypeOK, NEW d \in Daemons, Unreleased(rows[d]),
           rows' = ReleaseInstance(rows, d)
    PROVE  /\ rows'[d].stop = rows[d].stop
           /\ \A e \in Daemons : e # d => rows'[e] = rows[e]
<1>1. rows \in DaemonTable /\ rows[d] \in DaemonInstance
    BY UnreleasedRow DEF TypeOK
<1> QED
    BY <1>1 DEF ReleaseInstance, DaemonTable, DaemonInstance

(* A job that goes on, or fails, and then has failed, in a process that    *)
(* goes on.                                                                *)
LEMMA JobsMove ==
    ASSUME LoopHoldsLease, UNCHANGED <<clock, rows, pc>>,
           \A d \in Daemons : JobsOf(d)' = JobsOf(d),
           \A c \in ClaimIds :
              \/ job'[c] = job[c]
              \/ job[c] \in LiveJob /\ (job[c] = "erring" => job'[c] = "err")
    PROVE  LoopHoldsLease'
<1>1. \A d \in Daemons : \A c \in JobsOf(d) : c \in ClaimIds
    BY DEF JobsOf
<1> QED
    BY <1>1 DEF LoopHoldsLease, LiveJob

(* The steps of one daemon: the others keep their row, their place and     *)
(* their jobs.                                                             *)
LEMMA DaemonMoves ==
    ASSUME LoopHoldsLease, NEW d \in Daemons,
           UNCHANGED <<clock, claims>>,
           \A e \in Daemons : e # d => rows'[e] = rows[e] /\ pc'[e] = pc[e],
           \A c \in ClaimIds :
              \/ job'[c] = job[c]
              \/ c \in JobsOf(d) /\ job[c] \in LiveJob /\ job'[c] \notin LiveJob /\ pc'[d] = "dead"
              \/ c \in JobsOf(d) /\ job[c] = "ok" /\ job'[c] = "reaped",
           pc'[d] \in {"serve", "spawn", "drain"} =>
              Unreleased(rows'[d]) /\ rows'[d].expires > clock /\ rows'[d].heartbeat <= clock,
           pc'[d] = "failed" =>
              rows'[d].stop \/ \E c \in JobsOf(d) : job'[c] \in {"erring", "err"},
           pc'[d] \in {"off", "dead"} =>
              \A c \in JobsOf(d) : job'[c] \notin LiveJob
    PROVE  LoopHoldsLease'
<1>1. \A e \in Daemons : JobsOf(e)' = JobsOf(e)
    BY DEF JobsOf
<1>2. \A e \in Daemons : e # d => \A c \in JobsOf(e) : c \in ClaimIds /\ job'[c] = job[c]
    BY DEF JobsOf
<1> QED
    BY <1>1, <1>2 DEF LoopHoldsLease

(* The steps of a job change no owner. *)
LEMMA JobStepLoop ==
    ASSUME IInv, LoopHoldsLease, NEW c \in ClaimIds, JobStep(c)
    PROVE  LoopHoldsLease'
<1>0. job \in [ClaimIds -> JobPcs] /\ claims \in [ClaimIds -> ScheduleClaim \cup {NoClaim}]
    BY DEF IInv, TypeOK
<1>1. ASSUME UNCHANGED <<clock, rows, pc, claims>>, NEW to, job[c] \in LiveJob, job[c] # "erring",
             job' = [job EXCEPT ![c] = to]
      PROVE  LoopHoldsLease'
    <2>1. \A d \in Daemons : JobsOf(d)' = JobsOf(d)
        BY <1>1 DEF JobsOf
    <2>2. \A e \in ClaimIds : job'[e] = job[e] \/ (job[e] \in LiveJob /\ job[e] # "erring")
        BY <1>0, <1>1
    <2> QED
        BY <1>1, <2>1, <2>2, JobsMove
<1>2. ASSUME NEW from \in LiveJob, from # "erring", NEW expected, NEW next, NEW to,
             Transition(c, from, expected, next, to)
      PROVE  LoopHoldsLease'
    BY <1>1, <1>2 DEF Transition, Goto
<1> USE DEF LiveJob
<1>3. CASE BeginAnalysis(c) \/ BeginPlanned(c) \/ BeginRunning(c)
    BY <1>2, <1>3 DEF BeginAnalysis, BeginPlanned, BeginRunning
<1>4. CASE ExecutionFails(c) \/ FailTask(c)
    BY <1>2, <1>4 DEF ExecutionFails, FailTask
<1>5. CASE BeginVerifying(c) \/ Complete(c)
    BY <1>2, <1>5 DEF BeginVerifying, Complete
<1>6. CASE RefuseClaim(c)
    BY <1>1, <1>6 DEF RefuseClaim, Goto
<1>7. CASE PersistReport(c)
    BY <1>1, <1>7 DEF PersistReport, Goto
<1>8. CASE MoreInstructions(c)
    BY <1>1, <1>8 DEF MoreInstructions, Goto
<1>9. CASE ReleaseClaim(c)
    <2>1. claims[c] \in ScheduleClaim
        BY <1>9, JobTask DEF ReleaseClaim
    <2>2. claims' = [claims EXCEPT ![c].st = "released"] /\ UNCHANGED <<clock, rows, pc>>
        BY <1>9 DEF ReleaseClaim
    <2>3. \A e \in ClaimIds :
            /\ claims'[e] = NoClaim <=> claims[e] = NoClaim
            /\ claims'[e].daemon = claims[e].daemon
        BY <1>0, <2>1, <2>2 DEF ScheduleClaim, NoClaim
    <2>4. \A d \in Daemons : JobsOf(d)' = JobsOf(d)
        BY <2>3 DEF JobsOf
    <2>5. \A e \in ClaimIds : job'[e] = job[e]
            \/ (job[e] \in LiveJob /\ (job[e] = "erring" => job'[e] = "err"))
        BY <1>0, <1>9 DEF ReleaseClaim, Goto
    <2> QED
        BY <2>2, <2>4, <2>5, JobsMove
<1> QED
    BY <1>3, <1>4, <1>5, <1>6, <1>7, <1>8, <1>9 DEF JobStep

(* A renewal changes no owner either; a refused one fails the job. *)
LEMMA RenewLoop ==
    ASSUME IInv, LoopHoldsLease, NEW c \in ClaimIds, NEW at \in Stamps, RenewClaim(c, at)
    PROVE  LoopHoldsLease'
<1>0. job \in [ClaimIds -> JobPcs] /\ claims \in [ClaimIds -> ScheduleClaim \cup {NoClaim}]
    BY DEF IInv, TypeOK
<1>1. claims[c] \in ScheduleClaim
    BY JobTask DEF RenewClaim
<1>2. /\ claims' = claims \/ claims' = [claims EXCEPT ![c].expires = at + ClaimTtl]
      /\ UNCHANGED <<clock, rows, pc>>
    BY DEF RenewClaim
<1>3. \A e \in ClaimIds :
        /\ claims'[e] = NoClaim <=> claims[e] = NoClaim
        /\ claims'[e].daemon = claims[e].daemon
    BY <1>0, <1>1, <1>2 DEF ScheduleClaim, NoClaim
<1>4. \A d \in Daemons : JobsOf(d)' = JobsOf(d)
    BY <1>3 DEF JobsOf
<1>5. \A e \in ClaimIds : job'[e] = job[e] \/ (job[e] \in LiveJob /\ job[e] # "erring")
    BY <1>0 DEF RenewClaim, Goto, LiveJob
<1> QED
    BY <1>2, <1>4, <1>5, JobsMove

(* A claim is made by the loop of the daemon that it belongs to; the fence *)
(* it passes fails only for a daemon that has been asked to stop.          *)
LEMMA SpawnLoop ==
    ASSUME TimersInTime, IInv, LoopHoldsLease, NEW d \in Daemons, NEW at \in Stamps,
           SpawnReady(d, at)
    PROVE  LoopHoldsLease'
<1>0. /\ TypeOK /\ pc \in [Daemons -> Pcs] /\ job \in [ClaimIds -> JobPcs]
      /\ claims \in [ClaimIds -> ScheduleClaim \cup {NoClaim}]
    BY DEF IInv, TypeOK
<1>1. at = clock /\ at \in Nat
    BY <1>0, StampNow
<1>2. /\ pc[d] = "spawn" /\ Unreleased(rows[d])
      /\ rows[d].expires > clock /\ rows[d].heartbeat <= clock
      /\ clock' = clock
    BY DEF SpawnReady, LoopHoldsLease
<1>3. CASE pc' = [pc EXCEPT ![d] = "serve"] /\ UNCHANGED <<rows, claims, job>>
    BY <1>0, <1>2, <1>3, DaemonMoves
<1>4. CASE ~ EnsureDaemonOwner(rows, d, at) /\ FailLoop(d) /\ UNCHANGED <<claims, job>>
    <2>1. rows[d].stop
        BY <1>1, <1>2, <1>4 DEF EnsureDaemonOwner
    <2>2. rows'[d].stop /\ \A e \in Daemons : e # d => rows'[e] = rows[e]
        BY <1>0, <1>2, <1>4, <2>1, ReleaseFacts DEF FailLoop
    <2> QED
        BY <1>0, <1>2, <1>4, <2>2, DaemonMoves DEF FailLoop
<1>5. CASE /\ claims' = ExpireClaims(at) /\ pc' = [pc EXCEPT ![d] = "serve"]
           /\ UNCHANGED <<rows, job>>
    <2>1. \A c \in ClaimIds :
            /\ claims'[c] = NoClaim <=> claims[c] = NoClaim
            /\ claims'[c].daemon = claims[c].daemon
        BY <1>0, <1>5 DEF ExpireClaims, ScheduleClaim, NoClaim
    <2>2. \A e \in Daemons : JobsOf(e)' = JobsOf(e)
        BY <2>1 DEF JobsOf
    <2> QED
        BY <1>0, <1>2, <1>5, <2>2 DEF LoopHoldsLease
<1>6. ASSUME NEW t \in Tasks, NEW c \in ClaimIds,
             claims[c] = NoClaim,
             claims' = [ExpireClaims(at) EXCEPT ![c] = NewClaim(t, d, at)],
             job' = [job EXCEPT ![c] = "start"],
             UNCHANGED <<rows, pc>>
      PROVE  LoopHoldsLease'
    <2>1. \A e \in ClaimIds : e # c =>
            /\ claims'[e] = NoClaim <=> claims[e] = NoClaim
            /\ claims'[e].daemon = claims[e].daemon
            /\ job'[e] = job[e]
        BY <1>0, <1>6 DEF ExpireClaims, ScheduleClaim, NoClaim
    <2>2. claims'[c].daemon = d
        BY <1>6 DEF ExpireClaims, NewClaim
    <2>3. \A e \in Daemons : e # d =>
            JobsOf(e)' = JobsOf(e) /\ \A f \in JobsOf(e) : job'[f] = job[f]
        BY <1>6, <2>1, <2>2 DEF JobsOf
    <2> QED
        BY <1>2, <1>6, <2>3 DEF LoopHoldsLease
<1> QED
    BY <1>3, <1>4, <1>5, <1>6 DEF SpawnReady

(* Every step keeps LoopHoldsLease. *)
LEMMA LoopStep ==
    ASSUME TimersInTime, IInv, LoopHoldsLease, [Next]_vars
    PROVE  LoopHoldsLease'
<1>0. /\ TypeOK /\ clock \in Nat /\ rows \in DaemonTable /\ pc \in [Daemons -> Pcs]
      /\ job \in [ClaimIds -> JobPcs]
    BY DEF IInv, TypeOK
<1>1. CASE Tick
    <2>1. TimersKeepUp /\ clock' = clock + 1 /\ UNCHANGED <<rows, pc, claims, job>>
        BY <1>1 DEF Tick, TimersInTime
    <2>2. \A d \in Daemons : JobsOf(d)' = JobsOf(d)
        BY <2>1 DEF JobsOf
    <2>3. ASSUME NEW d \in Daemons, pc[d] \in {"serve", "spawn", "drain"}
          PROVE  Unreleased(rows[d]) /\ rows[d].expires > clock + 1 /\ rows[d].heartbeat <= clock + 1
        <3>1. Unreleased(rows[d]) /\ rows[d].expires > clock + 1 /\ rows[d].heartbeat <= clock
            BY <2>1, <2>3 DEF TimersKeepUp, LoopHoldsLease
        <3>2. rows[d] \in DaemonInstance
            BY <1>0, <3>1, UnreleasedRow
        <3> QED
            BY <1>0, <3>1, <3>2, DaemonRowConstants DEF DaemonInstance
    <2> QED
        BY <2>1, <2>2, <2>3 DEF LoopHoldsLease
<1>2. ASSUME NEW d \in Daemons, ReapFinished(d) PROVE LoopHoldsLease'
    <2>1. /\ pc[d] = "serve" /\ Unreleased(rows[d])
          /\ rows[d].expires > clock /\ rows[d].heartbeat <= clock
        BY <1>2 DEF ReapFinished, LoopHoldsLease
    <2>2. CASE pc' = [pc EXCEPT ![d] = "spawn"] /\ UNCHANGED rows
        <3>1. \A c \in ClaimIds : job'[c] = job[c]
                \/ (c \in JobsOf(d) /\ job[c] = "ok" /\ job'[c] = "reaped")
            BY <1>0, <1>2 DEF ReapFinished, Handles
        <3>2. UNCHANGED <<clock, claims>>
            BY <1>2 DEF ReapFinished
        <3>3. pc'[d] = "spawn" /\ \A e \in Daemons : e # d => pc'[e] = pc[e]
            BY <1>0, <2>2
        <3> QED
            BY <2>1, <2>2, <3>1, <3>2, <3>3, DaemonMoves
    <2>3. CASE (\E c \in Handles(d) : job[c] = "err") /\ FailLoop(d) /\ UNCHANGED job
        <3>1. UNCHANGED <<clock, claims>>
            BY <1>2 DEF ReapFinished
        <3>2. pc'[d] = "failed" /\ \A e \in Daemons : e # d => pc'[e] = pc[e]
            BY <1>0, <2>3 DEF FailLoop
        <3>3. \A e \in Daemons : e # d => rows'[e] = rows[e]
            BY <1>0, <2>1, <2>3, ReleaseFacts DEF FailLoop
        <3>4. \E c \in JobsOf(d) : job'[c] \in {"erring", "err"}
            BY <2>3 DEF Handles
        <3> QED
            BY <2>3, <3>1, <3>2, <3>3, <3>4, DaemonMoves
    <2> QED
        BY <1>2, <2>2, <2>3 DEF ReapFinished
<1>3. ASSUME NEW d \in Daemons, Drain(d) PROVE LoopHoldsLease'
    <2>1. pc[d] = "drain" /\ Unreleased(rows[d]) /\ UNCHANGED <<clock, claims, job>>
        BY <1>3 DEF Drain, LoopHoldsLease
    <2>2. rows' = ReleaseInstance(rows, d)
        BY <1>3 DEF Drain, FailLoop
    <2>3. \A e \in Daemons : e # d => rows'[e] = rows[e]
        BY <1>0, <2>1, <2>2, ReleaseFacts
    <2>4. CASE pc' = [pc EXCEPT ![d] = "dead"] /\ \A c \in Handles(d) : job[c] = "ok"
        <3>1. pc'[d] = "dead" /\ \A e \in Daemons : e # d => pc'[e] = pc[e]
            BY <1>0, <2>4
        <3>2. \A c \in JobsOf(d) : job'[c] \notin LiveJob
            BY <2>1, <2>4 DEF Handles, LiveJob
        <3> QED
            BY <2>1, <2>3, <3>1, <3>2, DaemonMoves
    <2>5. CASE pc' = [pc EXCEPT ![d] = "failed"] /\ \E c \in Handles(d) : job[c] = "err"
        <3>1. pc'[d] = "failed" /\ \A e \in Daemons : e # d => pc'[e] = pc[e]
            BY <1>0, <2>5
        <3>2. \E c \in JobsOf(d) : job'[c] \in {"erring", "err"}
            BY <2>1, <2>5 DEF Handles
        <3> QED
            BY <2>1, <2>3, <3>1, <3>2, DaemonMoves
    <2> QED
        BY <1>3, <2>4, <2>5 DEF Drain, FailLoop
<1>4. ASSUME NEW d \in Daemons, ExitFailed(d) \/ Crash(d) PROVE LoopHoldsLease'
    <2>1. KillProcess(d)
        BY <1>4 DEF ExitFailed, Crash
    <2>2. pc'[d] = "dead" /\ (\A e \in Daemons : e # d => pc'[e] = pc[e])
          /\ UNCHANGED <<clock, rows, claims>>
        BY <1>0, <2>1 DEF KillProcess
    <2>3. \A c \in ClaimIds : job'[c] = job[c]
            \/ (c \in JobsOf(d) /\ job[c] \in LiveJob /\ job'[c] \notin LiveJob)
        BY <1>0, <2>1 DEF KillProcess, LiveJob
    <2>4. \A c \in JobsOf(d) : job'[c] \notin LiveJob
        BY <1>0, <2>1 DEF KillProcess, JobsOf, LiveJob
    <2> QED
        BY <2>2, <2>3, <2>4, DaemonMoves
<1>5. ASSUME NEW d \in Daemons, Interrupt(d) PROVE LoopHoldsLease'
    <2>1. /\ pc'[d] = "drain" /\ (\A e \in Daemons : e # d => pc'[e] = pc[e])
          /\ UNCHANGED <<clock, rows, claims, job>>
        BY <1>0, <1>5 DEF Interrupt
    <2>2. Unreleased(rows[d]) /\ rows[d].expires > clock /\ rows[d].heartbeat <= clock
        BY <1>5 DEF Interrupt, LoopHoldsLease
    <2> QED
        BY <2>1, <2>2, DaemonMoves
<1>6. ASSUME NEW d \in Daemons, RequestStop(d) PROVE LoopHoldsLease'
    <2>1. rows[d] \in DaemonInstance
        BY <1>0, <1>6, UnreleasedRow DEF RequestStop
    <2>2. /\ rows'[d].st = rows[d].st /\ rows'[d].expires = rows[d].expires
          /\ rows'[d].heartbeat = rows[d].heartbeat /\ rows'[d].stop
          /\ \A e \in Daemons : e # d => rows'[e] = rows[e]
        BY <1>0, <1>6, <2>1 DEF RequestStop, RequestStopOf, DaemonTable, DaemonInstance
    <2>3. UNCHANGED <<clock, pc, claims, job>>
        BY <1>6 DEF RequestStop
    <2>4. \A e \in Daemons : JobsOf(e)' = JobsOf(e)
        BY <2>3 DEF JobsOf
    <2> QED
        BY <2>2, <2>3, <2>4 DEF LoopHoldsLease, Unreleased
<1>7. ASSUME NEW d \in Daemons, NEW at \in Stamps, Start(d, at) PROVE LoopHoldsLease'
    <2>1. at = clock /\ at \in 0 .. MaxClock
        BY <1>0, StampNow
    <2>2. pc[d] = "off" /\ UNCHANGED <<clock, claims, job>>
        BY <1>7 DEF Start
    <2>3. \A e \in Daemons : JobsOf(e)' = JobsOf(e)
        BY <2>2 DEF JobsOf
    <2>4. \A e \in Daemons : pc[e] \in {"off", "dead"}
        BY <1>0, <1>7 DEF Start, Alive, Pcs
    <2>5. \A e \in Daemons : e # d => pc'[e] = pc[e]
        BY <1>0, <1>7 DEF Start
    <2>6. CASE pc' = [pc EXCEPT ![d] = "dead"]
        BY <1>0, <2>2, <2>3, <2>4, <2>6 DEF LoopHoldsLease
    <2>7. CASE pc' = [pc EXCEPT ![d] = "serve"] /\ rows' = AcquireLease(rows, d, "online", at)
        <3>1. rows'[d] = NewInstance("online", at)
            BY <2>7 DEF AcquireLease, ExpireInstances
        <3>2. Unreleased(rows'[d]) /\ rows'[d].expires > clock /\ rows'[d].heartbeat <= clock
            BY <1>0, <2>1, <3>1, DaemonRowConstants DEF NewInstance, Unreleased
        <3>3. pc'[d] = "serve"
            BY <1>0, <2>7
        <3> QED
            BY <2>2, <2>3, <2>4, <2>5, <3>2, <3>3 DEF LoopHoldsLease
    <2> QED
        BY <1>7, <2>6, <2>7 DEF Start
<1>8. ASSUME NEW d \in Daemons, NEW at \in Stamps, Heartbeat(d, at) PROVE LoopHoldsLease'
    <2>1. at = clock /\ at \in Nat
        BY <1>0, StampNow
    <2>2. /\ pc[d] = "serve" /\ Unreleased(rows[d])
          /\ rows[d].expires > clock /\ rows[d].heartbeat <= clock
          /\ UNCHANGED <<clock, claims, job>>
        BY <1>8 DEF Heartbeat, LoopHoldsLease
    <2>3. CanHeartbeat(rows, d, at)
        BY <2>1, <2>2 DEF CanHeartbeat
    <2>4. CASE pc' = [pc EXCEPT ![d] = "drain"] /\ UNCHANGED rows
        <3>1. pc'[d] = "drain" /\ \A e \in Daemons : e # d => pc'[e] = pc[e]
            BY <1>0, <2>4
        <3> QED
            BY <2>2, <2>4, <3>1, DaemonMoves
    <2>5. CASE rows' = HeartbeatLease(rows, d, at) /\ UNCHANGED pc
        <3>1. rows[d] \in DaemonInstance
            BY <1>0, <2>2, UnreleasedRow
        <3>2. /\ rows'[d].st = rows[d].st /\ rows'[d].expires = at + LeaseTtl
              /\ rows'[d].heartbeat = at
              /\ \A e \in Daemons : e # d => rows'[e] = rows[e]
            BY <1>0, <2>5, <3>1 DEF HeartbeatLease, DaemonTable, DaemonInstance
        <3>3. Unreleased(rows'[d]) /\ rows'[d].expires > clock /\ rows'[d].heartbeat <= clock
            BY <2>1, <2>2, <3>2, DaemonRowConstants DEF Unreleased
        <3> QED
            BY <2>2, <2>5, <3>2, <3>3, DaemonMoves
    <2> QED
        BY <1>8, <2>3, <2>4, <2>5 DEF Heartbeat
<1>9. CASE UNCHANGED <<clock, rows, pc, claims, job>>
    <2>1. \A d \in Daemons : JobsOf(d)' = JobsOf(d)
        BY <1>9 DEF JobsOf
    <2> QED
        BY <1>9, <2>1, JobsMove
<1>10. ASSUME NEW at \in Stamps, CommitResume(at) PROVE LoopHoldsLease'
    BY <1>9, <1>10 DEF CommitResume
<1>11. ASSUME NEW at \in Stamps, NEW d \in Daemons, NEW t \in Tasks, CheckResume(t, d, at)
       PROVE  LoopHoldsLease'
    BY <1>9, <1>11 DEF CheckResume
<1>12. CASE UNCHANGED vars
    BY <1>9, <1>12 DEF vars
<1> QED
    BY <1>1, <1>2, <1>3, <1>4, <1>5, <1>6, <1>7, <1>8, <1>10, <1>11, <1>12,
       JobStepLoop, RenewLoop, SpawnLoop DEF Next

(* Where timers are in time, every daemon whose loop goes on holds its     *)
(* lease: it leaves the loop with an error only after a stop request or a  *)
(* failed job, and no job lives without its process.                       *)
THEOREM LoopKeepsLease == ASSUME TimersInTime PROVE Spec => []LoopHoldsLease
<1>1. Init => LoopHoldsLease
    BY DEF Init, LoopHoldsLease, JobsOf, LiveJob
<1>2. TimersInTime
    OBVIOUS
<1>3. IInv /\ LoopHoldsLease /\ [Next]_vars => LoopHoldsLease'
    BY <1>2, LoopStep
<1> QED
    BY <1>1, <1>3, SchedulerInvariant, PTL DEF Spec

(* Where timers are in time, a daemon that was not asked to stop and none  *)
(* of whose jobs failed has released its lease only after they all ended:  *)
(* a signal joins them, for any number of daemons, claims and crashes.     *)
THEOREM SignalDrains == ASSUME TimersInTime PROVE Spec => []InterruptDrains
<1>1. IInv /\ LoopHoldsLease => InterruptDrains
    BY DEF IInv, TypeOK, Pcs, LoopHoldsLease, InterruptDrains, Unreleased
<1> QED
    BY <1>1, SchedulerInvariant, LoopKeepsLease, PTL
=============================================================================

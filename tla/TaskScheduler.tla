---------------------------- MODULE TaskScheduler -----------------------------
(***************************************************************************)
(* How the tasks of one approved graph are claimed and run: the schedule   *)
(* claims of crates/orchestrator-state/src/scheduling.rs (with the         *)
(* readiness rules of orchestrator-domain/src/scheduling.rs), the daemon   *)
(* loop that reaps jobs and claims work (orchestrator-daemon/src/lib.rs),  *)
(* the job that runs one claimed task (execution.rs), and `colay resume`   *)
(* (ipc.rs, leases.rs, records.rs).                                        *)
(*                                                                         *)
(* A daemon is one process; its startup is DaemonLease's, here one step.   *)
(* resource_claims rows are written, renewed, expired and released in the  *)
(* same transactions and with the same timestamps as the schedule claim    *)
(* they belong to, so a claim carries its task's scope.  Instructions are  *)
(* InstructionDelivery's; here the job may or may not find them drained.   *)
(***************************************************************************)
EXTENDS DaemonRows, FiniteSets

CONSTANTS
    Tasks,          \* the tasks of the current approved graph
    Deps,           \* task -> the tasks it depends on
    Scope,          \* task -> [paths, wide]: its normalized write scope
    Provider,       \* task -> the provider it is routed to
    Rank,           \* task -> its place in (created_at, display_order, task_id)
    GlobalLimit,    \* max_parallel_workers
    ProviderLimit,  \* provider -> its limit, GlobalLimit when not configured
    ClaimIds,       \* schedule_claim_id (a bound)
    ClaimTtl,       \* ExecutionServices::claim_ttl
    MaxLag,         \* how far a timestamp may lag behind the clock
    MaxRevision,    \* where resume stops bumping a task's revision (a bound)
    Faults,         \* what the environment may do: a subset of FaultKinds
    NoResume        \* no resume request is between its two transactions

FaultKinds == {"crash", "stop", "interrupt", "late", "resume", "refuse"}

ASSUME SchedulerConstants ==
    /\ GlobalLimit \in Nat \ {0} /\ ClaimTtl \in Nat \ {0}
    /\ MaxLag \in Nat /\ MaxRevision \in Nat
    /\ Deps \in [Tasks -> SUBSET Tasks]
    /\ Rank \in [Tasks -> Nat]
    /\ \A t, u \in Tasks : Rank[t] = Rank[u] => t = u
    /\ \A t \in Tasks : ProviderLimit[Provider[t]] \in Nat \ {0}
    /\ \A t \in Tasks : Scope[t].wide \/ Scope[t].paths # {}
    /\ Faults \subseteq FaultKinds

VARIABLES
    clock,
    rows,      \* daemon_instances
    pc,        \* where each daemon process is
    state,     \* tasks.state
    revision,  \* tasks.revision
    passed,    \* the task's latest verification result is a pass
    claims,    \* task_schedule_claims with their resource_claims
    job,       \* the tokio task spawned for each claim
    resume     \* a resume request between its two transactions

vars == <<clock, rows, pc, state, revision, passed, claims, job, resume>>

taskVars == <<state, revision, passed>>

-----------------------------------------------------------------------------
States == {"queued", "analyzing", "planned", "running", "verifying",
           "completed", "failed"}

Terminal == {"completed", "failed"}

(* serve: waiting in select.  spawn: in the command tick, after reaping.   *)
(* drain: in stop_execution_jobs.  failed: the loop returned an error, the *)
(* lease is released, the job handles are dropped.  dead: no process.      *)
Pcs == {"off", "serve", "spawn", "drain", "failed", "dead"}

Alive(d) == pc[d] \in {"serve", "spawn", "drain", "failed"}

(* The control points of run_claimed_task; ok and err are its results, err *)
(* being what the loop propagates; lost with the process.                  *)
JobPcs == {"none", "start", "analyzing", "planned", "executing", "reported",
           "rejected", "verifying", "closing", "erring", "ok", "err", "reaped", "lost"}

Finished == {"ok", "err"}

LiveJob == {"start", "analyzing", "planned", "executing", "reported",
            "rejected", "verifying", "closing", "erring"}

NoClaim == [st |-> "absent"]

ScheduleClaim ==
    [st : {"active", "released"}, task : Tasks, daemon : Daemons,
     expires : 0 .. (MaxClock + ClaimTtl)]

Stamps == {t \in 0 .. clock : clock <= t + MaxLag}

-----------------------------------------------------------------------------
(* orchestrator-domain: component-aware path overlap and scope overlap.    *)

RepoPathsOverlap(p, q) ==
    \A i \in DOMAIN p \cap DOMAIN q : p[i] = q[i]

ScopesOverlap(s, r) ==
    \/ s.wide
    \/ r.wide
    \/ \E p \in s.paths, q \in r.paths : RepoPathsOverlap(p, q)

InForce(C, at) == {c \in ClaimIds : C[c].st = "active" /\ C[c].expires > at}

(* readiness_blocker returns None.  A dependency must be completed and its *)
(* latest verification must have passed.                                   *)
DependenciesVerified(t) ==
    \A u \in Deps[t] : state[u] = "completed" /\ passed[u]

(* Faulty variant: only the task itself is compared, not its scope.        *)
ReadyIgnoringScope(t, C, at) ==
    /\ state[t] = "queued"
    /\ DependenciesVerified(t)
    /\ Cardinality(InForce(C, at)) < GlobalLimit
    /\ Cardinality({c \in InForce(C, at) : Provider[C[c].task] = Provider[t]})
           < ProviderLimit[Provider[t]]
    /\ \A c \in InForce(C, at) : C[c].task # t

Ready(t, C, at) ==
    /\ state[t] = "queued"
    /\ DependenciesVerified(t)
    /\ Cardinality(InForce(C, at)) < GlobalLimit
    /\ Cardinality({c \in InForce(C, at) : Provider[C[c].task] = Provider[t]})
           < ProviderLimit[Provider[t]]
    /\ \A c \in InForce(C, at) : ~ ScopesOverlap(Scope[C[c].task], Scope[t])

(* The first of select_ready_tasks: the ready task of the least rank.      *)
FirstReady(t, C, at) ==
    /\ Ready(t, C, at)
    /\ \A u \in Tasks : Ready(u, C, at) => Rank[t] <= Rank[u]

-----------------------------------------------------------------------------
(* scheduling.rs: the statements on the claims. *)

ExpireClaims(at) ==
    [c \in ClaimIds |->
        IF claims[c].st = "active" /\ claims[c].expires <= at
        THEN [claims[c] EXCEPT !.st = "released"]
        ELSE claims[c]]

NewClaim(t, d, at) ==
    [st |-> "active", task |-> t, daemon |-> d, expires |-> at + ClaimTtl]

CanRenew(c, at) ==
    /\ EnsureDaemonOwner(rows, claims[c].daemon, at)
    /\ claims[c].st = "active"
    /\ claims[c].expires > at

QueuedCandidateExists == \E t \in Tasks : state[t] = "queued"

-----------------------------------------------------------------------------
Init ==
    /\ clock = 0
    /\ rows = [d \in Daemons |-> NoInstance]
    /\ pc = [d \in Daemons |-> "off"]
    /\ state = [t \in Tasks |-> "queued"]
    /\ revision = [t \in Tasks |-> 0]
    /\ passed = [t \in Tasks |-> FALSE]
    /\ claims = [c \in ClaimIds |-> NoClaim]
    /\ job = [c \in ClaimIds |-> "none"]
    /\ resume = NoResume

-----------------------------------------------------------------------------
(* The daemon process. *)

JobsOf(d) == {c \in ClaimIds : claims[c] # NoClaim /\ claims[c].daemon = d}

(* The JoinHandles in execution_jobs. *)
Handles(d) == {c \in JobsOf(d) : job[c] \in LiveJob \cup Finished}

(* Startup up to the loop: the owner lock admits one process, the lease    *)
(* must be free.  (DaemonLease has the steps in between.)                  *)
Start(d, at) ==
    /\ pc[d] = "off"
    /\ \A e \in Daemons : ~ Alive(e)
    /\ \/ /\ LeaseAvailable(rows, at)
          /\ rows' = AcquireLease(rows, d, "online", at)
          /\ pc' = [pc EXCEPT ![d] = "serve"]
       \/ /\ ~ LeaseAvailable(rows, at)
          /\ pc' = [pc EXCEPT ![d] = "dead"]
          /\ UNCHANGED rows
    /\ UNCHANGED <<clock, taskVars, claims, job, resume>>

(* The loop is left with an error: OwnedLeaseGuard::drop releases the row, *)
(* dropping a JoinHandle detaches its job.                                 *)
FailLoop(d) ==
    /\ rows' = ReleaseInstance(rows, d)
    /\ pc' = [pc EXCEPT ![d] = "failed"]

Heartbeat(d, at) ==
    /\ pc[d] = "serve"
    /\ \/ /\ StopRequested(rows, d)
          /\ pc' = [pc EXCEPT ![d] = "drain"]
          /\ UNCHANGED rows
       \/ /\ ~ StopRequested(rows, d)
          /\ CanHeartbeat(rows, d, at)
          /\ rows' = HeartbeatLease(rows, d, at)
          /\ UNCHANGED pc
       \/ /\ ~ StopRequested(rows, d)
          /\ ~ CanHeartbeat(rows, d, at)
          /\ FailLoop(d)
    /\ UNCHANGED <<clock, taskVars, claims, job, resume>>

(* Faulty variant: finished jobs stay in the vector.                       *)
ReapNothing(d) ==
    /\ pc[d] = "serve"
    /\ pc' = [pc EXCEPT ![d] = "spawn"]
    /\ UNCHANGED <<clock, rows, taskVars, claims, job, resume>>

(* reap_finished_tasks: the first finished job with an error ends the loop.*)
ReapFinished(d) ==
    /\ pc[d] = "serve"
    /\ \/ /\ \A c \in Handles(d) : job[c] # "err"
          /\ job' = [c \in ClaimIds |->
                        IF c \in Handles(d) /\ job[c] = "ok" THEN "reaped" ELSE job[c]]
          /\ pc' = [pc EXCEPT ![d] = "spawn"]
          /\ UNCHANGED rows
       \/ /\ \E c \in Handles(d) : job[c] = "err"
          /\ FailLoop(d)
          /\ UNCHANGED job
    /\ UNCHANGED <<clock, taskVars, claims, resume>>

(* One turn of the loop of spawn_ready_tasks, that is one transaction of   *)
(* claim_next_ready_task.  Its error rolls the expiry back and ends the    *)
(* serving loop.                                                           *)
SpawnReady(d, at) ==
    /\ pc[d] = "spawn"
    /\ \/ /\ Cardinality(Handles(d)) >= GlobalLimit \/ ~ QueuedCandidateExists
          /\ pc' = [pc EXCEPT ![d] = "serve"]
          /\ UNCHANGED <<rows, claims, job>>
       \/ /\ Cardinality(Handles(d)) < GlobalLimit /\ QueuedCandidateExists
          /\ ~ EnsureDaemonOwner(rows, d, at)
          /\ FailLoop(d)
          /\ UNCHANGED <<claims, job>>
       \/ /\ Cardinality(Handles(d)) < GlobalLimit /\ QueuedCandidateExists
          /\ EnsureDaemonOwner(rows, d, at)
          /\ \A t \in Tasks : ~ Ready(t, ExpireClaims(at), at)
          /\ claims' = ExpireClaims(at)
          /\ pc' = [pc EXCEPT ![d] = "serve"]
          /\ UNCHANGED <<rows, job>>
       \/ /\ Cardinality(Handles(d)) < GlobalLimit
          /\ EnsureDaemonOwner(rows, d, at)
          /\ \E t \in Tasks, c \in ClaimIds :
                /\ FirstReady(t, ExpireClaims(at), at)
                /\ claims[c] = NoClaim
                /\ claims' = [ExpireClaims(at) EXCEPT ![c] = NewClaim(t, d, at)]
                /\ job' = [job EXCEPT ![c] = "start"]
          /\ UNCHANGED <<rows, pc>>
    /\ UNCHANGED <<clock, taskVars, resume>>

(* Faulty variant: the jobs are cancelled but not joined.                  *)
DrainDetaching(d) ==
    /\ pc[d] = "drain"
    /\ FailLoop(d)
    /\ UNCHANGED <<clock, taskVars, claims, job, resume>>

(* Faulty variant: a failed job is waited for.                             *)
DrainWaitingForSuccess(d) ==
    /\ pc[d] = "drain"
    /\ \A c \in Handles(d) : job[c] = "ok"
    /\ rows' = ReleaseInstance(rows, d)
    /\ pc' = [pc EXCEPT ![d] = "dead"]
    /\ UNCHANGED <<clock, taskVars, claims, job, resume>>

(* stop_execution_jobs, then lease.finish(): the jobs are cancelled and    *)
(* joined one after the other; the first error leaves the rest detached.   *)
Drain(d) ==
    /\ pc[d] = "drain"
    /\ \/ /\ \A c \in Handles(d) : job[c] = "ok"
          /\ rows' = ReleaseInstance(rows, d)
          /\ pc' = [pc EXCEPT ![d] = "dead"]
       \/ /\ \E c \in Handles(d) : job[c] = "err"
          /\ FailLoop(d)
    /\ UNCHANGED <<clock, taskVars, claims, job, resume>>

(* The runtime is shut down with the process: detached jobs are dropped at *)
(* the await they have reached.                                            *)
KillProcess(d) ==
    /\ pc' = [pc EXCEPT ![d] = "dead"]
    /\ job' = [c \in ClaimIds |->
                 IF c \in JobsOf(d) /\ job[c] \in LiveJob THEN "lost" ELSE job[c]]
    /\ resume' = IF resume # NoResume /\ resume.daemon = d THEN NoResume ELSE resume
    /\ UNCHANGED <<clock, rows, taskVars, claims>>

ExitFailed(d) == pc[d] = "failed" /\ KillProcess(d)

Crash(d) == "crash" \in Faults /\ Alive(d) /\ KillProcess(d)

Interrupt(d) ==
    /\ "interrupt" \in Faults
    /\ pc[d] = "serve"
    /\ pc' = [pc EXCEPT ![d] = "drain"]
    /\ UNCHANGED <<clock, rows, taskVars, claims, job, resume>>

RequestStop(d) ==
    /\ "stop" \in Faults
    /\ Alive(d)
    /\ Unreleased(rows[d])
    /\ ~ rows[d].stop
    /\ rows' = RequestStopOf(rows, d)
    /\ UNCHANGED <<clock, pc, taskVars, claims, job, resume>>

-----------------------------------------------------------------------------
(* run_claimed_task.  A transition loads the task and updates it where its *)
(* state and revision are still the loaded ones: a compare-and-set on the  *)
(* state, an error of the job when it fails.                               *)

SetState(t, s) ==
    /\ state' = [state EXCEPT ![t] = s]
    /\ revision' = [revision EXCEPT ![t] = @ + 1]

Goto(c, to) == job' = [job EXCEPT ![c] = to]

(* Faulty variant: the state is not compared.                              *)
TransitionUnchecked(c, from, expected, next, to) ==
    /\ job[c] = from
    /\ SetState(claims[c].task, next)
    /\ Goto(c, to)
    /\ UNCHANGED <<clock, rows, pc, passed, claims, resume>>

Transition(c, from, expected, next, to) ==
    /\ job[c] = from
    /\ \/ /\ state[claims[c].task] = expected
          /\ SetState(claims[c].task, next)
          /\ Goto(c, to)
       \/ /\ state[claims[c].task] # expected
          /\ Goto(c, "erring")
          /\ UNCHANGED <<state, revision>>
    /\ UNCHANGED <<clock, rows, pc, passed, claims, resume>>

BeginAnalysis(c) == Transition(c, "start", "queued", "analyzing", "analyzing")
BeginPlanned(c) == Transition(c, "analyzing", "analyzing", "planned", "planned")
BeginRunning(c) == Transition(c, "planned", "planned", "running", "executing")

(* The workspace registration or its repository does not match: an error   *)
(* before the first transition.                                            *)
RefuseClaim(c) ==
    /\ "refuse" \in Faults
    /\ job[c] = "start"
    /\ Goto(c, "erring")
    /\ UNCHANGED <<clock, rows, pc, taskVars, claims, resume>>

(* renew.tick() while the executor runs; an error abandons the execution.  *)
RenewClaim(c, at) ==
    /\ job[c] = "executing"
    /\ \/ /\ CanRenew(c, at)
          /\ claims' = [claims EXCEPT ![c].expires = at + ClaimTtl]
          /\ UNCHANGED job
       \/ /\ ~ CanRenew(c, at)
          /\ Goto(c, "erring")
          /\ UNCHANGED claims
    /\ UNCHANGED <<clock, rows, pc, taskVars, resume>>

(* The executor fails, its report is for another target or cannot be       *)
(* persisted: nothing is recorded.                                         *)
ExecutionFails(c) == Transition(c, "executing", "running", "failed", "closing")

(* persist_report records the attempt with its verification, if it got one;*)
(* the report passes the completion gate or it does not.                   *)
PersistReport(c) ==
    /\ job[c] = "executing"
    /\ \/ /\ passed' = [passed EXCEPT ![claims[c].task] = TRUE]
          /\ Goto(c, "reported")
       \/ /\ \E v \in BOOLEAN : passed' = [passed EXCEPT ![claims[c].task] = v]
          /\ Goto(c, "rejected")
    /\ UNCHANGED <<clock, rows, pc, state, revision, claims, resume>>

FailTask(c) == Transition(c, "rejected", "running", "failed", "closing")

(* transition_running_to_verifying_if_instructions_drained: not drained     *)
(* means another round.                                                    *)
MoreInstructions(c) ==
    /\ job[c] = "reported"
    /\ Goto(c, "executing")
    /\ UNCHANGED <<clock, rows, pc, taskVars, claims, resume>>

BeginVerifying(c) == Transition(c, "reported", "running", "verifying", "verifying")
Complete(c) == Transition(c, "verifying", "verifying", "completed", "closing")

(* release_schedule_claim ends every job; an expired claim is already      *)
(* released and stays as it is.                                            *)
ReleaseClaim(c) ==
    /\ job[c] \in {"closing", "erring"}
    /\ claims' = [claims EXCEPT ![c].st = "released"]
    /\ Goto(c, IF job[c] = "closing" THEN "ok" ELSE "err")
    /\ UNCHANGED <<clock, rows, pc, taskVars, resume>>

-----------------------------------------------------------------------------
(* `colay resume`: workspace.resume in the daemon's IPC server.  The        *)
(* disposition is one transaction, the requeue another, which checks       *)
(* ownership again and compares state and revision.  A task in analyzing   *)
(* or planned has no attempt on record, so has_no_worker_replay_evidence   *)
(* holds of it; every other state that the loop reaches is refused.        *)

Online(d, at) == Alive(d) /\ Unreleased(rows[d]) /\ rows[d].expires > at

Disposition(t, d, at) ==
    IF \E c \in InForce(claims, at) : claims[c].task = t
    THEN IF \E c \in InForce(claims, at) : claims[c].task = t /\ claims[c].daemon = d
         THEN "attached" ELSE "rejected"
    ELSE IF state[t] \in {"queued", "analyzing", "planned"}
         THEN "requeued" ELSE "rejected"

CheckResume(t, d, at) ==
    /\ "resume" \in Faults
    /\ resume = NoResume
    /\ Online(d, at)
    /\ state[t] \notin Terminal
    /\ Disposition(t, d, at) = "requeued"
    /\ resume' = [task |-> t, daemon |-> d, state |-> state[t], revision |-> revision[t]]
    /\ UNCHANGED <<clock, rows, pc, taskVars, claims, job>>

(* Faulty variant: what the first transaction saw is trusted.              *)
CommitResumeUnchecked(at) ==
    /\ resume # NoResume
    /\ state' = [state EXCEPT ![resume.task] = "queued"]
    /\ revision' = [revision EXCEPT ![resume.task] = @ + 1]
    /\ resume' = NoResume
    /\ UNCHANGED <<clock, rows, pc, passed, claims, job>>

CommitResume(at) ==
    /\ resume # NoResume
    /\ \/ /\ \A c \in InForce(claims, at) : claims[c].task # resume.task
          /\ state[resume.task] = resume.state
          /\ revision[resume.task] = resume.revision
          /\ revision[resume.task] < MaxRevision
          /\ SetState(resume.task, "queued")
       \/ /\ \/ \E c \in InForce(claims, at) : claims[c].task = resume.task
             \/ state[resume.task] # resume.state
             \/ revision[resume.task] # resume.revision
          /\ UNCHANGED <<state, revision>>
    /\ resume' = NoResume
    /\ UNCHANGED <<clock, rows, pc, passed, claims, job>>

-----------------------------------------------------------------------------
(* Unless timers may be late, the heartbeat and the renewals come before   *)
(* the expiry they push back (1 s of 5 s, a third of the claim's TTL).     *)
TimersKeepUp ==
    /\ \A d \in Daemons :
        pc[d] \in {"serve", "spawn", "drain"} => rows[d].expires > clock + 1
    /\ \A c \in ClaimIds :
        job[c] \in LiveJob => claims[c].st = "released" \/ claims[c].expires > clock + 1

Tick ==
    /\ clock < MaxClock
    /\ "late" \in Faults \/ TimersKeepUp
    /\ clock' = clock + 1
    /\ UNCHANGED <<rows, pc, taskVars, claims, job, resume>>

JobStep(c) ==
    \/ BeginAnalysis(c) \/ BeginPlanned(c) \/ BeginRunning(c) \/ RefuseClaim(c)
    \/ ExecutionFails(c) \/ PersistReport(c) \/ FailTask(c) \/ MoreInstructions(c)
    \/ BeginVerifying(c) \/ Complete(c) \/ ReleaseClaim(c)

Next ==
    \/ Tick
    \/ \E c \in ClaimIds : JobStep(c)
    \/ \E d \in Daemons :
        \/ ReapFinished(d) \/ Drain(d) \/ ExitFailed(d)
        \/ Crash(d) \/ Interrupt(d) \/ RequestStop(d)
    \/ \E at \in Stamps :
        \/ CommitResume(at)
        \/ \E c \in ClaimIds : RenewClaim(c, at)
        \/ \E d \in Daemons :
            \/ Start(d, at) \/ Heartbeat(d, at) \/ SpawnReady(d, at)
            \/ \E t \in Tasks : CheckResume(t, d, at)

Spec == Init /\ [][Next]_vars

(* The loop's ticks fire, a job goes on to its end: every executor run is  *)
(* bounded by a timeout and only finitely many instructions arrive.        *)
FairSpec ==
    /\ Spec
    /\ \A d \in Daemons :
        /\ WF_vars(\E at \in Stamps : Start(d, at))
        /\ WF_vars(ReapFinished(d))
        /\ WF_vars(\E at \in Stamps : SpawnReady(d, at))
        /\ WF_vars(Drain(d))
        /\ WF_vars(ExitFailed(d))
        /\ SF_vars(StopRequested(rows, d) /\ \E at \in Stamps : Heartbeat(d, at))
    /\ \A c \in ClaimIds :
        /\ WF_vars(BeginAnalysis(c) \/ BeginPlanned(c) \/ BeginRunning(c))
        /\ WF_vars(ExecutionFails(c) \/ PersistReport(c) \/ FailTask(c))
        /\ SF_vars(BeginVerifying(c))
        /\ WF_vars(Complete(c) \/ ReleaseClaim(c))

-----------------------------------------------------------------------------
(* Properties. *)

(* The tables and the processes are well formed. *)
TypeOK ==
    /\ clock \in 0 .. MaxClock
    /\ rows \in DaemonTable
    /\ pc \in [Daemons -> Pcs]
    /\ state \in [Tasks -> States]
    /\ revision \in [Tasks -> Nat]
    /\ passed \in [Tasks -> BOOLEAN]
    /\ claims \in [ClaimIds -> ScheduleClaim \cup {NoClaim}]
    /\ job \in [ClaimIds -> JobPcs]
    /\ resume \in [task : Tasks, daemon : Daemons, state : States, revision : Nat]
                    \cup {NoResume}

Current == InForce(claims, clock)

(* "exact global/provider limits" (README.md:120): the claims in force     *)
(* never exceed the global limit nor the limit of any provider, counting   *)
(* those that a crashed daemon left behind.                                *)
LimitsRespected ==
    /\ Cardinality(Current) <= GlobalLimit
    /\ \A t \in Tasks :
        Cardinality({c \in Current : Provider[claims[c].task] = Provider[t]})
            <= ProviderLimit[Provider[t]]

(* "Disjoint tasks execute concurrently [...]; conflicting scopes wait"    *)
(* (docs/architecture.md:33): two claims in force have disjoint scopes, so *)
(* in particular a task has one claim.                                     *)
ScopesDisjoint ==
    \A c, e \in Current :
        c # e => ~ ScopesOverlap(Scope[claims[c].task], Scope[claims[e].task])

(* "A task is ready only when every dependency is completed and its latest *)
(* verification passed" (docs/architecture.md:30): no task has left the    *)
(* queue before that.                                                      *)
DependenciesFirst ==
    \A t \in Tasks : state[t] # "queued" => DependenciesVerified(t)

(* Every claim in force was rightly given, whichever daemon gave it and    *)
(* whatever has expired since: scopes are disjoint, dependencies came      *)
(* first, and no limit is exceeded.                                        *)
ClaimsSound == ScopesDisjoint /\ DependenciesFirst /\ LimitsRespected

Executing == {"executing", "reported", "rejected", "verifying"}

(* Whatever expires, crashes or is resumed, no two live jobs execute the    *)
(* same task, although a job outlives its claim until its next renewal.    *)
OneExecutor ==
    \A c, e \in ClaimIds :
        /\ job[c] \in Executing
        /\ job[e] \in Executing
        /\ claims[c].task = claims[e].task
        => c = e

(* "a daemon restart cannot silently duplicate an attempt"                 *)
(* (docs/architecture.md:35): a task that has started never returns to the *)
(* queue, not by expiry, restart or resume.                                *)
NeverRestarted ==
    [][\A t \in Tasks :
        state[t] \in {"running", "verifying"} \cup Terminal =>
            state'[t] \notin {"queued", "analyzing", "planned"}]_vars

(* While some daemon keeps serving nothing waits forever: a task ends,     *)
(* unless some task it depends on never completes.                         *)
EveryTaskSettles ==
    \A d \in Daemons : <>[](pc[d] \in {"serve", "spawn"}) =>
        \A t \in Tasks :
            <>[](state[t] \in Terminal \/ \E u \in Deps[t] : state[u] # "completed")

(* A requested stop ends the daemon, whichever jobs are under way, whether  *)
(* the stop reaches them or their renewal fails first.                     *)
StopEndsDaemon ==
    \A d \in Daemons : StopRequested(rows, d) ~> pc[d] = "dead"

(* "A normal stop checkpoints workers at safe boundaries before releasing  *)
(* leases" (the chat-task-orchestration design, line 159): a daemon none   *)
(* of whose jobs failed has released its lease only after they all ended.  *)
ReleasedAfterJobs ==
    \A d \in Daemons :
        /\ rows[d].st = "released"
        /\ \A c \in JobsOf(d) : job[c] \notin {"erring", "err"}
        => \A c \in JobsOf(d) : job[c] \notin LiveJob

(* The same of a shutdown by signal alone, which does not set the flag     *)
(* that the next claim checks.                                             *)
InterruptDrains ==
    \A d \in Daemons :
        /\ rows[d].st = "released" /\ ~ rows[d].stop
        /\ \A c \in JobsOf(d) : job[c] \notin {"erring", "err"}
        => \A c \in JobsOf(d) : job[c] \notin LiveJob

(* "`resume <task-id>` is the restart path for a paused, blocked, or        *)
(* interrupted non-terminal task [...]; converts an interrupted running    *)
(* [...] transition to an authoritative Git checkpoint"                    *)
(* (docs/operations.md:187): a healthy daemon does not reject a task that  *)
(* no claim covers and no job works on, at least if an attempt at it is on *)
(* record with its worktree and a verification that passed.                *)
InterruptedIsResumable ==
    \A t \in Tasks, d \in Daemons :
        /\ Online(d, clock)
        /\ state[t] \notin Terminal
        /\ passed[t]
        /\ \A c \in ClaimIds :
            claims[c] # NoClaim /\ claims[c].task = t =>
                job[c] \notin LiveJob /\ c \notin Current
        => Disposition(t, d, clock) # "rejected"

-----------------------------------------------------------------------------
(* The inductive invariant behind ClaimsSound, OneExecutor and             *)
(* NeverRestarted.                                                         *)

Active == {c \in ClaimIds : claims[c].st = "active"}

(* Not only the claims in force but all that no sweep has released are     *)
(* disjoint and within the limits: the renewal of a claim that the clock   *)
(* has passed may carry an older timestamp and put it in force again.      *)
ActiveDisjoint ==
    \A c, e \in Active :
        c # e => ~ ScopesOverlap(Scope[claims[c].task], Scope[claims[e].task])

ActiveWithinLimits ==
    /\ IsFiniteSet(Active)
    /\ Cardinality(Active) <= GlobalLimit
    /\ \A t \in Tasks :
        Cardinality({c \in Active : Provider[claims[c].task] = Provider[t]})
            <= ProviderLimit[Provider[t]]

(* A job is spawned with the claim it is named after. *)
JobHasClaim == \A c \in ClaimIds : claims[c] = NoClaim <=> job[c] = "none"

(* What a job has written of its task's state, nobody else overwrites. *)
StateOfJob ==
    \A c \in ClaimIds :
        /\ job[c] \in {"executing", "reported", "rejected"} =>
               state[claims[c].task] = "running"
        /\ job[c] = "verifying" => state[claims[c].task] = "verifying"

(* What a claimed task depends on stays completed and verified. *)
ClaimedVerified ==
    \A c \in ClaimIds : claims[c] # NoClaim => DependenciesVerified(claims[c].task)

(* A resume request on its way has seen a task that was not running. *)
ResumeEarly ==
    resume # NoResume => resume.state \in {"queued", "analyzing", "planned"}

IInv ==
    /\ TypeOK
    /\ ActiveDisjoint /\ ActiveWithinLimits
    /\ JobHasClaim /\ StateOfJob /\ OneExecutor
    /\ ClaimedVerified /\ DependenciesFirst
    /\ ResumeEarly

(* What InterruptDrains asks of the environment: no timer is late and a    *)
(* transaction is stamped with the time it commits at.  Otherwise a lease  *)
(* that expired, or a heartbeat older than the last one, ends the loop     *)
(* with an error.  Crashes, stops, refusals and resumes are all allowed.   *)
TimersInTime == "late" \notin Faults /\ MaxLag = 0

(* The inductive invariant behind InterruptDrains: a loop that is not left *)
(* holds its lease, one that was left with an error had been asked to stop *)
(* or has a job that failed, and no job lives without its process.         *)
LoopHoldsLease ==
    \A d \in Daemons :
        /\ pc[d] \in {"serve", "spawn", "drain"} =>
               /\ Unreleased(rows[d])
               /\ rows[d].expires > clock
               /\ rows[d].heartbeat <= clock
        /\ pc[d] = "failed" =>
               rows[d].stop \/ \E c \in JobsOf(d) : job[c] \in {"erring", "err"}
        /\ pc[d] \in {"off", "dead"} =>
               \A c \in JobsOf(d) : job[c] \notin LiveJob
=============================================================================

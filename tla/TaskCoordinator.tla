-------------------------- MODULE TaskCoordinator --------------------------
(***************************************************************************)
(* The coordinator that runs one task in its worktree: routing, a writable *)
(* worker, checkpoint and hand-over to the next provider when the worker   *)
(* stops, the user's controls, independent review, verification, and the   *)
(* recovery of all of it after a crash (resume_task_coordinated,           *)
(* execute_planned_task, run_worker, verify_and_finish in cli/app.rs, over *)
(* the tables of state/records.rs).  This build reaches the path only from *)
(* tests (resume_task_coordinated is marked dead code); the daemon's own   *)
(* execution loop is TaskScheduler.                                        *)
(*                                                                         *)
(* One action is one database transaction or one call outside of it, so a  *)
(* crash falls between any two.  The contents of the worktree are the      *)
(* number of writes made to it: a snapshot, a checkpoint and a bundle are  *)
(* the number they saw.  A crash takes the workers with it; a worker whose *)
(* termination could not be confirmed may live on and write (stray).       *)
(* Leases are left to TaskLeases.                                          *)
(***************************************************************************)
EXTENDS Naturals, FiniteSets

CONSTANTS Providers, MaxWork, MaxRounds, MaxFaults, MaxControls, None

VARIABLES
    task,        \* the row of tasks: state, resume_state, paused
    worktree,    \* "none", "made" (on disk only), "recorded"
    work,        \* writes made to the worktree so far
    attempt,     \* an attempt of a worker has been persisted
    checkpoint,  \* the newest sealed checkpoint: the work it saw
    handover,    \* the newest hand-over: work, to, acknowledged
    control,     \* the control of the task: action, to, claimed
    verified,    \* the snapshot the recorded verification was made of
    co,          \* the coordinator: step and locals
    stray,       \* a worker whose end was never confirmed
    faults, controls

vars == <<task, worktree, work, attempt, checkpoint, handover, control, verified, co, stray, faults, controls>>

durable == <<worktree, attempt, checkpoint, handover, control, verified>>
world == <<work, stray, faults, controls>>

TerminalStates == {"completed", "failed", "cancelled"}

Idle == [pc |-> "idle", provider |-> None, bundle |-> FALSE, rounds |-> 0, claimed |-> None, seen |-> None]

Init ==
    /\ task = [state |-> "queued", resume |-> None, paused |-> FALSE]
    /\ worktree = "none" /\ work = 0 /\ attempt = FALSE
    /\ checkpoint = None /\ handover = None /\ control = None /\ verified = None
    /\ co = Idle /\ stray = FALSE /\ faults = 0 /\ controls = 0

----------------------------------------------------------------------------
(* The lifecycle of a task (domain/state.rs, records.rs). *)

\* The edges of validate_transition that the coordinator takes.
Edges == [queued |-> {"analyzing"},
          analyzing |-> {"planned", "blocked"},
          planned |-> {"running", "blocked"},
          running |-> {"checkpoint_requested", "verifying", "failed"},
          checkpoint_requested |-> {"checkpointing", "failed"},
          checkpointing |-> {"checkpointed", "blocked", "failed"},
          checkpointed |-> {"handover_requested", "blocked", "cancelled", "failed"},
          handover_requested |-> {"handing_over", "checkpointed", "blocked", "cancelled", "failed"},
          handing_over |-> {"resuming", "checkpointed", "blocked", "failed"},
          resuming |-> {"running", "blocked", "cancelled", "failed"},
          verifying |-> {"completed", "checkpoint_requested", "blocked", "cancelled", "failed"}]

Allowed(next) ==
    IF task.state = "blocked" THEN next = task.resume ELSE next \in Edges[task.state]

\* A blocked task remembers the state it left; pause also marks it paused.
Stored(next, paused) ==
    [state |-> next, resume |-> IF next = "blocked" THEN task.state ELSE None, paused |-> paused]

Move(next) == Allowed(next) /\ task' = Stored(next, FALSE)

\* Running may block only when the end of the worker's processes is unconfirmed.
MoveUnconfirmed == task.state \in {"running", "handing_over", "verifying"} /\ task' = Stored("blocked", FALSE)

\* What git says of the worktree: its changed files and its diff.
Snapshot == work

RecordCheckpoint == checkpoint' = Snapshot

\* The sealed bundle of the newest checkpoint, for one provider.
Bundle(p) == [work |-> checkpoint, to |-> p, acknowledged |-> FALSE]

\* The bundle's own provider has understood it.
CompleteHandover == handover' = [handover EXCEPT !.acknowledged = TRUE]

At(pc) == co.pc = pc
Goto(pc) == co' = [co EXCEPT !.pc = pc]
Leave == co' = Idle

----------------------------------------------------------------------------
(* Controls: requested by a client at any time, claimed by the coordinator. *)

Open == control # None /\ control.action # "done"

RequestControl ==
    /\ task.state \notin TerminalStates
    /\ ~Open /\ controls < MaxControls /\ controls' = controls + 1
    /\ control' \in [action : {"cancel", "pause"}, to : {None}, claimed : {FALSE}]
                       \cup [action : {"handover"}, to : Providers, claimed : {FALSE}]
    /\ UNCHANGED <<task, worktree, work, attempt, checkpoint, handover, verified, co, stray, faults>>

Claimed == Open /\ control.claimed

CompleteControl == control' = [control EXCEPT !.action = "done", !.claimed = FALSE]

\* A claim left by a crash: a replay-safe control is queued again once stale,
\* any other (or a fresh claim) stops the resume.
RecoverClaimedControls ==
    /\ At("idle") /\ task.state \notin TerminalStates
    /\ \/ ~Claimed /\ UNCHANGED control
       \/ Claimed /\ control.action \in {"cancel", "pause"} /\ control' = [control EXCEPT !.claimed = FALSE]
    /\ Goto("recover")
    /\ UNCHANGED <<task, worktree, attempt, checkpoint, handover, verified, world>>

----------------------------------------------------------------------------
(* Recovery of what an earlier run left behind. *)

RecoverBlocked ==
    /\ At("recover")
    /\ \/ task.state = "queued" /\ Move("analyzing")
       \/ task.state = "blocked" /\ Move(task.resume)
    /\ UNCHANGED <<durable, co, world>>

\* A persisted bundle completes an interrupted request.
RecoverRequestedHandover ==
    /\ At("recover") /\ task.state = "handover_requested" /\ handover # None
    /\ Move("handing_over") /\ UNCHANGED <<durable, co, world>>

\* Faulty variant: a bundle that was only persisted counts as acknowledged
RecoverHandingOverUnasked ==
    /\ At("recover") /\ task.state = "handing_over" /\ handover # None
    /\ task' = Stored("resuming", FALSE)
    /\ handover' = handover /\ co' = co
    /\ UNCHANGED <<worktree, attempt, checkpoint, control, verified, world>>

\* An acknowledged bundle needs no second acknowledgement; an unacknowledged
\* one is pending again.
RecoverHandingOver ==
    /\ At("recover") /\ task.state = "handing_over" /\ handover # None
    /\ IF handover.acknowledged
       THEN Move("resuming") /\ UNCHANGED co
       ELSE UNCHANGED task /\ co' = [co EXCEPT !.pc = "route", !.provider = handover.to, !.bundle = TRUE]
    /\ UNCHANGED <<durable, world>>

RecoverResuming ==
    /\ At("recover") /\ task.state = "resuming"
    /\ Move("running")
    /\ co' = [co EXCEPT !.pc = "route", !.provider = handover.to]
    /\ UNCHANGED <<durable, world>>

RecoverCheckpointed ==
    /\ At("recover")
    /\ \/ task.state \in {"planned", "analyzing", "checkpointed"} /\ UNCHANGED task
       \/ task.state = "handover_requested" /\ handover = None /\ Move("checkpointed")
    /\ Goto("route") /\ UNCHANGED <<durable, world>>

RecoverRequestCheckpoint ==
    /\ At("recover")
    /\ \/ task.state \in {"running", "verifying"} /\ Move("checkpoint_requested")
       \/ task.state = "checkpoint_requested" /\ Move("checkpointing")
    /\ UNCHANGED <<durable, co, world>>

\* The recovery checkpoint names the latest attempt's provider; without an
\* attempt the task cannot be recovered.  A snapshot with secrets blocks.
RecoverCheckpoint ==
    /\ At("recover") /\ task.state = "checkpointing" /\ attempt
    /\ \/ RecordCheckpoint /\ Goto("recovered") /\ UNCHANGED task
       \/ Move("blocked") /\ Leave /\ UNCHANGED checkpoint
    /\ UNCHANGED <<worktree, attempt, handover, control, verified, world>>

RecoverCheckpointSealed ==
    /\ At("recovered") /\ Move("checkpointed") /\ Goto("route") /\ UNCHANGED <<durable, world>>

----------------------------------------------------------------------------
(* Routing on resume. *)

\* The bundle's provider is the only candidate when there is one; no selected
\* provider blocks the task, which a running task refuses.
Route ==
    /\ At("route")
    /\ \/ /\ UNCHANGED task
          /\ \E p \in IF co.provider = None THEN Providers ELSE {co.provider} :
                co' = [co EXCEPT !.provider = p,
                                 !.pc = CASE task.state = "analyzing" -> "plan"
                                          [] task.state = "checkpointed" -> "offer"
                                          [] OTHER -> "execute"]
       \/ Leave /\ IF Allowed("blocked") THEN Move("blocked") ELSE UNCHANGED task
    /\ UNCHANGED <<durable, world>>

Plan == At("plan") /\ Move("planned") /\ Goto("execute") /\ UNCHANGED <<durable, world>>

----------------------------------------------------------------------------
(* A hand-over: requested, sealed, started. *)

RequestHandover ==
    /\ At("offer") /\ Move("handover_requested") /\ Goto("seal") /\ UNCHANGED <<durable, world>>

RecordHandover ==
    /\ At("seal")
    /\ handover' = Bundle(co.provider)
    /\ Goto("sealed")
    /\ UNCHANGED <<task, worktree, attempt, checkpoint, control, verified, world>>

StartHandover ==
    /\ At("sealed") /\ Move("handing_over")
    /\ co' = [co EXCEPT !.pc = IF co.claimed = "handover" THEN "settle" ELSE "execute", !.bundle = TRUE]
    /\ UNCHANGED <<durable, world>>

SettleHandoverControl ==
    /\ At("settle") /\ CompleteControl
    /\ co' = [co EXCEPT !.pc = "execute", !.claimed = None]
    /\ UNCHANGED <<task, worktree, attempt, checkpoint, handover, verified, world>>

----------------------------------------------------------------------------
(* A round of execution. *)

\* git worktree add refuses a path that exists: a worktree made by a run that
\* died before recording it stops every later one.
CreateWorktree ==
    /\ At("execute") /\ worktree # "recorded"
    /\ IF worktree = "none" THEN worktree' = "made" /\ Goto("made") ELSE UNCHANGED worktree /\ Leave
    /\ UNCHANGED <<task, attempt, checkpoint, handover, control, verified, world>>

PersistWorktree ==
    /\ At("made") /\ worktree' = "recorded" /\ Goto("execute")
    /\ UNCHANGED <<task, attempt, checkpoint, handover, control, verified, world>>

RoundsLeft == co.rounds < MaxRounds

Exhausted ==
    /\ At("execute") /\ worktree = "recorded" /\ ~RoundsLeft
    /\ Move("failed") /\ Leave /\ UNCHANGED <<durable, world>>

\* A pending bundle is first acknowledged by the next provider, read-only.
AskAcknowledgement ==
    /\ At("execute") /\ worktree = "recorded" /\ RoundsLeft /\ co.bundle
    /\ attempt' = TRUE
    /\ co' = [co EXCEPT !.pc = "asked", !.bundle = FALSE]
    /\ UNCHANGED <<task, worktree, checkpoint, handover, control, verified, world>>

Acknowledge ==
    /\ At("asked")
    /\ \/ CompleteHandover /\ Goto("acknowledged") /\ UNCHANGED task
       \/ Move("blocked") /\ Leave /\ UNCHANGED handover
    /\ UNCHANGED <<worktree, attempt, checkpoint, control, verified, world>>

ResumeWritable ==
    /\ At("acknowledged")
    /\ \/ task.state = "handing_over" /\ Move("resuming") /\ UNCHANGED co
       \/ task.state = "resuming" /\ Move("running") /\ Goto("launch")
    /\ UNCHANGED <<durable, world>>

\* The first attempt is persisted before the task is projected Running; a later
\* one after the hand-over's transition.
PersistAttempt ==
    /\ \/ At("launch")
       \/ At("execute") /\ worktree = "recorded" /\ RoundsLeft /\ ~co.bundle
    /\ attempt' = TRUE
    /\ Goto(IF task.state = "planned" THEN "persisted" ELSE "writing")
    /\ UNCHANGED <<task, worktree, checkpoint, handover, control, verified, world>>

ProjectRunning ==
    /\ At("persisted") /\ Move("running") /\ Goto("writing") /\ UNCHANGED <<durable, world>>

----------------------------------------------------------------------------
(* The writable worker (run_worker). *)

Write ==
    /\ At("writing") /\ work < MaxWork /\ work' = work + 1
    /\ UNCHANGED <<task, durable, co, stray, faults, controls>>

\* A pending control is claimed between commands; the worker is cancelled.
ClaimControl ==
    /\ At("writing") /\ Open /\ ~Claimed
    /\ control' = [control EXCEPT !.claimed = TRUE]
    /\ co' = [co EXCEPT !.pc = "stopped", !.claimed = control.action]
    /\ UNCHANGED <<task, worktree, attempt, checkpoint, handover, verified, world>>

WorkerSucceeds ==
    /\ At("writing") /\ Goto("done") /\ UNCHANGED <<task, durable, world>>

\* Failed, quota exceeded, timed out, or stopped for a proactive hand-over.
WorkerStops ==
    /\ At("writing") /\ Goto("stopped") /\ UNCHANGED <<task, durable, world>>

\* The end of the process tree is not confirmed: the attempt stays open, the
\* task blocks, the lease is kept.
Unconfirmed ==
    /\ co.pc \in {"writing", "stopped", "asked", "reviewing"} /\ MoveUnconfirmed
    /\ stray' = TRUE /\ Leave
    /\ faults < MaxFaults /\ faults' = faults + 1
    /\ UNCHANGED <<durable, work, controls>>

StrayWrites ==
    /\ stray /\ work < MaxWork /\ work' = work + 1
    /\ UNCHANGED <<task, durable, co, stray, faults, controls>>

----------------------------------------------------------------------------
(* A worker that did not succeed: checkpoint, control, next provider. *)


RequestCheckpoint ==
    /\ At("stopped")
    /\ \/ task.state = "running" /\ Move("checkpoint_requested") /\ UNCHANGED co
       \/ task.state = "checkpoint_requested" /\ Move("checkpointing") /\ Goto("capture")
    /\ UNCHANGED <<durable, world>>

Checkpoint ==
    /\ At("capture")
    /\ \/ RecordCheckpoint /\ Goto("captured") /\ UNCHANGED task
       \/ Move("blocked") /\ Leave /\ UNCHANGED checkpoint
    /\ UNCHANGED <<worktree, attempt, handover, control, verified, world>>

CheckpointSealed ==
    /\ At("captured") /\ Move("checkpointed")
    /\ Goto(IF co.claimed \in {"cancel", "pause"} THEN "apply" ELSE "reroute")
    /\ UNCHANGED <<durable, world>>

ApplyControl ==
    /\ At("apply")
    /\ IF co.claimed = "cancel"
       THEN Move("cancelled")
       ELSE Allowed("blocked") /\ task' = Stored("blocked", TRUE)
    /\ Goto("applied") /\ UNCHANGED <<durable, world>>

FinishControl ==
    /\ At("applied") /\ CompleteControl /\ Leave
    /\ UNCHANGED <<task, worktree, attempt, checkpoint, handover, verified, world>>

\* The provider that stopped is excluded; a manual hand-over names the only one.
NextCandidates == (IF co.claimed = "handover" THEN {control.to} ELSE Providers) \ {co.provider}

Reroute ==
    /\ At("reroute")
    /\ \/ /\ UNCHANGED task
          /\ \E p \in NextCandidates :
                co' = [co EXCEPT !.pc = "offer", !.provider = p, !.rounds = @ + 1]
       \/ Move("blocked") /\ Leave
    /\ UNCHANGED <<durable, world>>

----------------------------------------------------------------------------
(* Review and verification of a worker that succeeded. *)

StartVerifying ==
    /\ At("done") /\ Move("verifying") /\ Goto("verify") /\ UNCHANGED <<durable, world>>

Reviewers == Providers \ {co.provider}

\* The snapshot is taken; without secrets in it and with another provider, the
\* reviewer starts on it, else the review has failed.
StartReview ==
    /\ At("verify")
    /\ \/ /\ Reviewers # {}
          /\ attempt' = TRUE /\ co' = [co EXCEPT !.pc = "reviewing", !.seen = Snapshot]
       \/ UNCHANGED attempt /\ co' = [co EXCEPT !.pc = "refused", !.seen = Snapshot]
    /\ UNCHANGED <<task, worktree, checkpoint, handover, control, verified, world>>

\* A reviewer that does not keep to its read-only mode.
ReviewerWrites ==
    /\ At("reviewing") /\ work < MaxWork /\ work' = work + 1
    /\ UNCHANGED <<task, durable, co, stray, faults, controls>>

\* The worktree is compared with the snapshot after the review.
FinishReview ==
    /\ At("reviewing")
    /\ \/ Snapshot = co.seen /\ Goto("approved")
       \/ Goto("refused")
    /\ UNCHANGED <<task, durable, world>>

\* The completion gate needs the review and everything else verify looks at.
GateOpen == co.pc = "approved"

RecordVerification ==
    /\ co.pc \in {"approved", "refused"}
    /\ verified' = co.seen
    /\ \/ GateOpen /\ Goto("passed")
       \/ Goto("rejected")
    /\ UNCHANGED <<task, worktree, attempt, checkpoint, handover, control, world>>

FinishTask ==
    /\ \/ At("passed") /\ Move("completed")
       \/ At("rejected") /\ Move("blocked")
    /\ Leave /\ UNCHANGED <<durable, world>>

----------------------------------------------------------------------------
Crash ==
    /\ co.pc # "idle" /\ faults < MaxFaults /\ faults' = faults + 1
    /\ Leave /\ UNCHANGED <<task, durable, work, stray, controls>>

Next ==
    \/ RequestControl \/ RecoverClaimedControls
    \/ RecoverBlocked \/ RecoverRequestedHandover \/ RecoverHandingOver \/ RecoverResuming
    \/ RecoverCheckpointed \/ RecoverRequestCheckpoint \/ RecoverCheckpoint \/ RecoverCheckpointSealed
    \/ Route \/ Plan
    \/ RequestHandover \/ RecordHandover \/ StartHandover \/ SettleHandoverControl
    \/ CreateWorktree \/ PersistWorktree \/ Exhausted
    \/ AskAcknowledgement \/ Acknowledge \/ ResumeWritable \/ PersistAttempt \/ ProjectRunning
    \/ Write \/ ClaimControl \/ WorkerSucceeds \/ WorkerStops \/ Unconfirmed \/ StrayWrites
    \/ RequestCheckpoint \/ Checkpoint \/ CheckpointSealed \/ ApplyControl \/ FinishControl \/ Reroute
    \/ StartVerifying \/ StartReview \/ ReviewerWrites \/ FinishReview \/ RecordVerification \/ FinishTask
    \/ Crash

Spec == Init /\ [][Next]_vars

----------------------------------------------------------------------------
(* A provider writes to the worktree only when no hand-over was ever made, *)
(* or when the newest bundle names it and its acknowledgement of that      *)
(* bundle is persisted: the comment in execute_planned_task ("The next     *)
(* provider cannot mutate the worktree until it has echoed the sealed      *)
(* bundle's objective ..."), kept across crashes at every step of the      *)
(* hand-over and every path of the recovery.                               *)
WriterAcknowledged ==
    At("writing") /\ handover # None => handover.acknowledged /\ handover.to = co.provider

(* A cancelled task stands at a checkpoint of everything its workers       *)
(* wrote, whether the cancel came first, was claimed before a crash, or    *)
(* was claimed again after it (operations.md: a running orchestrator       *)
(* "reaches a safe checkpoint before acting").  A worker whose end was     *)
(* never confirmed is the one exception.                                   *)
CancelledAtCheckpoint == task.state = "cancelled" /\ ~stray => checkpoint = work

(* What is completed is what was reviewed and verified: nothing is written *)
(* to the worktree between the snapshot the recorded verification speaks   *)
(* of and completion, a reviewer that does write included.                 *)
CompletedAsReviewed == task.state = "completed" /\ ~stray => verified = work

(* A running task has an attempt on record, whatever died when: the        *)
(* recovery of a running task names that attempt's provider and fails      *)
(* without one (the comment in execute_planned_task: "A crash can          *)
(* therefore never leave a Running task without an authoritative attempt   *)
(* record").                                                               *)
RunningHasAttempt == task.state = "running" => attempt

=============================================================================

----------------------- MODULE TaskCoordinatorProofs -----------------------
(***************************************************************************)
(* Proofs about TaskCoordinator: across crashes at every step and every    *)
(* path of the recovery, a provider writes only after it acknowledged the  *)
(* newest bundle, a cancelled task stands at a checkpoint of its work,     *)
(* what is completed is what was reviewed, and a running task has an       *)
(* attempt on record.                                                      *)
(***************************************************************************)
EXTENDS TaskCoordinator, TLAPS

TaskStates == {"queued", "analyzing", "planned", "running", "checkpoint_requested", "checkpointing",
               "checkpointed", "handover_requested", "handing_over", "resuming", "verifying",
               "blocked"} \cup TerminalStates

Actions == {"cancel", "pause", "handover"}

Steps == {"idle", "recover", "recovered", "route", "plan", "offer", "seal", "sealed", "settle",
          "execute", "made", "asked", "acknowledged", "launch", "persisted", "writing", "done",
          "stopped", "capture", "captured", "apply", "applied", "reroute", "verify", "reviewing",
          "refused", "approved", "passed", "rejected"}

TaskRows == [state : TaskStates, resume : TaskStates \cup {None}, paused : BOOLEAN]
Handovers == [work : Nat \cup {None}, to : Providers, acknowledged : BOOLEAN]
Controls == [action : Actions \cup {"done"}, to : Providers \cup {None}, claimed : BOOLEAN]
Locals == [pc : Steps, provider : Providers \cup {None}, bundle : BOOLEAN, rounds : Nat,
           claimed : Actions \cup {None}, seen : Nat \cup {None}]

(* What the proofs need of the constants: the marker for what is absent is *)
(* no provider, no action and no row.                                      *)
CoordinatorConstants == None \notin Providers \cup Actions \cup Handovers \cup Controls

(* The rows, the worktree and the locals of the coordinator are well       *)
(* formed.                                                                 *)
TypeOK ==
    /\ task \in TaskRows /\ co \in Locals
    /\ handover \in Handovers \cup {None} /\ control \in Controls \cup {None}
    /\ worktree \in {"none", "made", "recorded"}
    /\ work \in Nat
    /\ attempt \in BOOLEAN
    /\ checkpoint \in Nat \cup {None}
    /\ verified \in Nat \cup {None}
    /\ stray \in BOOLEAN /\ faults \in Nat /\ controls \in Nat

\* The states from which a blocked task can be taken up again.
Resumable == {"analyzing", "planned", "running", "checkpointing", "checkpointed", "handing_over",
              "verifying"}

(* Where the task is at each step of the coordinator: nobody else moves it *)
(* while a coordinator is at work, and none is at work on a terminal one.  *)
StateHeld ==
    /\ task.state = "blocked" => task.resume \in Resumable
    /\ task.state \in TerminalStates => co.pc \in {"idle", "applied"}
    /\ co.pc \in {"recovered", "capture", "captured"} => task.state = "checkpointing"
    /\ co.pc = "route" =>
          task.state \in {"analyzing", "planned", "checkpointed", "handing_over", "running"}
    /\ co.pc = "plan" => task.state = "analyzing"
    /\ co.pc \in {"offer", "apply", "reroute"} => task.state = "checkpointed"
    /\ co.pc \in {"seal", "sealed"} => task.state = "handover_requested"
    /\ co.pc \in {"settle", "asked"} => task.state = "handing_over"
    /\ co.pc \in {"execute", "made"} => task.state \in {"planned", "running", "handing_over"}
    /\ co.pc = "acknowledged" => task.state \in {"handing_over", "resuming"}
    /\ co.pc \in {"launch", "writing", "done"} => task.state = "running"
    /\ co.pc = "persisted" => task.state = "planned"
    /\ co.pc = "stopped" => task.state \in {"running", "checkpoint_requested"}
    /\ co.pc = "applied" => task.state \in {"cancelled", "blocked"}
    /\ co.pc \in {"verify", "reviewing", "refused", "approved", "passed", "rejected"} =>
          task.state = "verifying"

(* What the coordinator remembers: nothing before it has routed, a         *)
(* provider after; a pending bundle exactly where it starts a hand-over.   *)
LocalsHeld ==
    /\ co.pc \in {"idle", "recover", "recovered"} =>
          co.provider = None /\ ~co.bundle /\ co.claimed = None
    /\ co.pc \notin {"idle", "recover", "recovered", "route"} => co.provider \in Providers
    /\ co.pc = "settle" => co.claimed = "handover"
    /\ co.pc \in {"apply", "applied"} => co.claimed \in {"cancel", "pause"}
    /\ co.bundle => co.pc \in {"route", "settle", "execute", "made"} /\ task.state = "handing_over"
    /\ co.pc \in {"route", "settle", "execute", "made"} /\ task.state = "handing_over" => co.bundle

\* The state of the task, or the one it was blocked in.
Standing == IF task.state = "blocked" THEN task.resume ELSE task.state
Early == {"queued", "analyzing", "planned"}

(* A task that was started has an attempt; one that was not has no         *)
(* hand-over.                                                              *)
AttemptHeld ==
    /\ Standing \notin Early => attempt
    /\ co.pc = "persisted" => attempt
    /\ Standing \in Early => handover = None

\* The newest bundle is for the provider that the coordinator works with.
Mine == handover \in Handovers /\ handover.to = co.provider

(* The newest bundle at each step of its hand-over.                        *)
HandoverHeld ==
    /\ Standing = "handing_over" => handover \in Handovers
    /\ Standing = "resuming" => handover \in Handovers /\ handover.acknowledged
    /\ co.pc = "sealed" \/ co.pc = "asked" \/ co.bundle => Mine
    /\ co.pc \in {"acknowledged", "launch"} => Mine /\ handover.acknowledged
    /\ /\ co.pc \in {"route", "execute", "made", "writing"}
       /\ task.state = "running" /\ handover # None
       => Mine /\ handover.acknowledged

(* A control that the coordinator has claimed stays its own until it       *)
(* completes it.                                                           *)
ControlHeld ==
    /\ co.claimed # None => control \in Controls /\ control.action = co.claimed /\ control.claimed
    /\ control \in Controls /\ control.action = "handover" => control.to \in Providers

(* What was captured, reviewed or recorded is still what the worktree      *)
(* holds, unless a worker lives on whose end was not confirmed.            *)
WorkHeld == ~stray =>
    /\ co.pc \in {"captured", "apply"} \/ task.state = "cancelled" => checkpoint = work
    /\ co.pc = "approved" => co.seen = work
    /\ co.pc = "passed" \/ task.state = "completed" => verified = work

IInv == TypeOK /\ StateHeld /\ LocalsHeld /\ AttemptHeld /\ HandoverHeld /\ ControlHeld /\ WorkHeld

\* What a step leaves: the task in another state, the coordinator at another
\* step with its locals kept, or no coordinator.
Now(next) ==
    /\ task' \in TaskRows /\ task'.state = next
    /\ next = "blocked" => task'.resume = task.state
Reached(pc) ==
    /\ co' \in Locals /\ co'.pc = pc /\ co'.provider = co.provider /\ co'.bundle = co.bundle
    /\ co'.claimed = co.claimed /\ co'.seen = co.seen
Ended ==
    /\ co' \in Locals /\ co'.pc = "idle" /\ co'.provider = None /\ co'.bundle = FALSE
    /\ co'.claimed = None

USE DEF TaskStates, TerminalStates, Actions, Steps, Resumable, Early, Standing, Mine, At

(* A transition stores its state, and a block the state that was left.     *)
LEMMA Moved ==
    ASSUME TypeOK, NEW next \in TaskStates, NEW paused \in BOOLEAN, task' = Stored(next, paused)
    PROVE  Now(next)
BY DEF TypeOK, TaskRows, Stored, Now

(* To go on to a step leaves the locals alone.                             *)
LEMMA Gone ==
    ASSUME TypeOK, NEW pc \in Steps, Goto(pc)
    PROVE  Reached(pc)
BY DEF TypeOK, Locals, Goto, Reached

(* A coordinator that returns or dies forgets its locals.                  *)
LEMMA Left ==
    ASSUME Leave
    PROVE  Ended
BY DEF Leave, Idle, Locals, Ended

(* The invariant holds of a task that was only queued.                     *)
LEMMA InitOK ==
    ASSUME CoordinatorConstants, Init
    PROVE  IInv
<1>1. task \in TaskRows /\ task.state = "queued"
    BY DEF Init, TaskRows
<1>2. /\ co \in Locals /\ co.pc = "idle" /\ co.provider = None /\ co.bundle = FALSE
      /\ co.claimed = None
    BY DEF Init, Idle, Locals
<1> QED
    BY <1>1, <1>2 DEF Init, CoordinatorConstants, IInv, TypeOK, StateHeld, LocalsHeld,
                      AttemptHeld, HandoverHeld, ControlHeld, WorkHeld

(* A client puts a control in the row only when none is open, so never     *)
(* over one that the coordinator has claimed.                              *)
LEMMA RequestControlOK ==
    ASSUME CoordinatorConstants, IInv, RequestControl
    PROVE  IInv'
<1>1. co.claimed = None
    BY DEF RequestControl, IInv, TypeOK, Locals, ControlHeld, Open, CoordinatorConstants
<1>2. control' \in Controls /\ (control'.action = "handover" => control'.to \in Providers)
    BY DEF RequestControl, Controls
<1>3. controls' \in Nat
    BY DEF RequestControl, IInv, TypeOK
<1> QED
    BY <1>1, <1>2, <1>3 DEF RequestControl, durable, world, CoordinatorConstants, IInv, TypeOK,
                            StateHeld, LocalsHeld, AttemptHeld, HandoverHeld, ControlHeld,
                            WorkHeld

(* A stale claim is queued again.                                          *)
LEMMA RecoverClaimedControlsOK ==
    ASSUME CoordinatorConstants, IInv, RecoverClaimedControls
    PROVE  IInv'
<1>1. co.pc = "idle" /\ co.claimed = None
    BY DEF RecoverClaimedControls, IInv, LocalsHeld
<1>2. Reached("recover")
    BY Gone DEF RecoverClaimedControls, IInv
<1>3. control' \in Controls \cup {None}
    BY DEF RecoverClaimedControls, IInv, TypeOK, Controls, Claimed, Open
<1>4. control' \in Controls /\ control'.action = "handover" => control'.to \in Providers
    BY DEF RecoverClaimedControls, IInv, TypeOK, Controls, ControlHeld, Claimed, Open
<1> QED
    BY <1>1, <1>2, <1>3, <1>4 DEF RecoverClaimedControls, durable, world, Reached,
                                  CoordinatorConstants, IInv, TypeOK, StateHeld, LocalsHeld,
                                  AttemptHeld, HandoverHeld, ControlHeld, WorkHeld

(* Recovery starts a queued task and takes a blocked one up where it was   *)
(* blocked.                                                                *)
LEMMA RecoverBlockedOK ==
    ASSUME CoordinatorConstants, IInv, RecoverBlocked
    PROVE  IInv'
<1>1. CASE task.state = "queued"
    <2>1. Now("analyzing")
        BY <1>1, Moved DEF RecoverBlocked, Move, IInv
    <2> QED
        BY <1>1, <2>1 DEF RecoverBlocked, Now, durable, world, CoordinatorConstants, IInv,
                          TypeOK, StateHeld, LocalsHeld, AttemptHeld, HandoverHeld, ControlHeld,
                          WorkHeld
<1>2. CASE task.state = "blocked"
    <2>1. task.resume \in Resumable
        BY <1>2 DEF IInv, StateHeld
    <2>2. Now(task.resume)
        BY <1>2, <2>1, Moved DEF RecoverBlocked, Move, IInv
    <2> QED
        BY <1>2, <2>1, <2>2 DEF RecoverBlocked, Now, durable, world, CoordinatorConstants, IInv,
                                TypeOK, StateHeld, LocalsHeld, AttemptHeld, HandoverHeld,
                                ControlHeld, WorkHeld
<1> QED
    BY <1>1, <1>2 DEF RecoverBlocked

(* An interrupted request is completed from the bundle on record.          *)
LEMMA RecoverRequestedHandoverOK ==
    ASSUME CoordinatorConstants, IInv, RecoverRequestedHandover
    PROVE  IInv'
<1>1. task.state = "handover_requested" /\ handover # None
    BY DEF RecoverRequestedHandover, IInv
<1>2. Now("handing_over")
    BY Moved DEF RecoverRequestedHandover, Move, IInv
<1> QED
    BY <1>1, <1>2 DEF RecoverRequestedHandover, durable, world, Now, CoordinatorConstants, IInv,
                      TypeOK, StateHeld, LocalsHeld, AttemptHeld, HandoverHeld, ControlHeld,
                      WorkHeld

(* An interrupted hand-over resumes if the bundle was acknowledged, and is *)
(* pending again for the bundle's own provider if it was not.              *)
LEMMA RecoverHandingOverOK ==
    ASSUME CoordinatorConstants, IInv, RecoverHandingOver
    PROVE  IInv'
<1>1. co.pc = "recover" /\ task.state = "handing_over" /\ handover # None /\ handover \in Handovers
    BY DEF RecoverHandingOver, IInv, TypeOK
<1>2. CASE handover.acknowledged
    <2>1. Now("resuming") /\ UNCHANGED co
        BY <1>1, <1>2, Moved DEF RecoverHandingOver, Move, IInv
    <2> QED
        BY <1>1, <1>2, <2>1 DEF RecoverHandingOver, Now, durable, world, CoordinatorConstants,
                                IInv, TypeOK, StateHeld, LocalsHeld, AttemptHeld, HandoverHeld,
                                ControlHeld, WorkHeld
<1>3. CASE ~handover.acknowledged
    <2>1. /\ UNCHANGED task
          /\ co' = [co EXCEPT !.pc = "route", !.provider = handover.to, !.bundle = TRUE]
        BY <1>3 DEF RecoverHandingOver
    <2>2. handover.to \in Providers
        BY <1>1 DEF Handovers
    <2>3. /\ co' \in Locals /\ co'.pc = "route" /\ co'.provider = handover.to /\ co'.bundle = TRUE
          /\ co'.claimed = co.claimed /\ co'.seen = co.seen
        BY <2>1, <2>2 DEF IInv, TypeOK, Locals
    <2> QED
        BY <1>1, <2>1, <2>2, <2>3 DEF RecoverHandingOver, durable, world, CoordinatorConstants,
                                      IInv, TypeOK, StateHeld, LocalsHeld, AttemptHeld,
                                      HandoverHeld, ControlHeld, WorkHeld
<1> QED
    BY <1>2, <1>3

(* A resuming task runs again with the provider that acknowledged.         *)
LEMMA RecoverResumingOK ==
    ASSUME CoordinatorConstants, IInv, RecoverResuming
    PROVE  IInv'
<1>1. co.pc = "recover" /\ task.state = "resuming"
    BY DEF RecoverResuming, IInv
<1>2. handover \in Handovers /\ handover.acknowledged /\ handover.to \in Providers
    BY <1>1 DEF IInv, TypeOK, HandoverHeld, Handovers
<1>3. Now("running")
    BY Moved DEF RecoverResuming, Move, IInv
<1>4. /\ co' \in Locals /\ co'.pc = "route" /\ co'.provider = handover.to /\ co'.bundle = co.bundle
      /\ co'.claimed = co.claimed /\ co'.seen = co.seen
    BY <1>2 DEF RecoverResuming, IInv, TypeOK, Locals
<1> QED
    BY <1>1, <1>2, <1>3, <1>4 DEF RecoverResuming, durable, world, Now, CoordinatorConstants,
                                  IInv, TypeOK, StateHeld, LocalsHeld, AttemptHeld, HandoverHeld,
                                  ControlHeld, WorkHeld

(* A task that waits for a provider is routed; a request that left no      *)
(* bundle falls back to its checkpoint.                                    *)
LEMMA RecoverCheckpointedOK ==
    ASSUME CoordinatorConstants, IInv, RecoverCheckpointed
    PROVE  IInv'
<1>1. co.pc = "recover" /\ Reached("route")
    BY Gone DEF RecoverCheckpointed, IInv
<1>2. CASE task.state \in {"planned", "analyzing", "checkpointed"} /\ UNCHANGED task
    BY <1>1, <1>2 DEF RecoverCheckpointed, Reached, durable, world, CoordinatorConstants, IInv,
                      TypeOK, StateHeld, LocalsHeld, AttemptHeld, HandoverHeld, ControlHeld,
                      WorkHeld
<1>3. CASE task.state = "handover_requested" /\ Move("checkpointed")
    <2>1. Now("checkpointed")
        BY <1>3, Moved DEF Move, IInv
    <2> QED
        BY <1>1, <1>3, <2>1 DEF RecoverCheckpointed, Reached, Now, durable, world,
                                CoordinatorConstants, IInv, TypeOK, StateHeld, LocalsHeld,
                                AttemptHeld, HandoverHeld, ControlHeld, WorkHeld
<1> QED
    BY <1>2, <1>3 DEF RecoverCheckpointed

(* A running or verifying task asks for a checkpoint first.                *)
LEMMA RecoverRequestCheckpointOK ==
    ASSUME CoordinatorConstants, IInv, RecoverRequestCheckpoint
    PROVE  IInv'
<1>1. CASE task.state \in {"running", "verifying"} /\ Move("checkpoint_requested")
    <2>1. Now("checkpoint_requested")
        BY <1>1, Moved DEF Move, IInv
    <2> QED
        BY <1>1, <2>1 DEF RecoverRequestCheckpoint, Now, durable, world, CoordinatorConstants,
                          IInv, TypeOK, StateHeld, LocalsHeld, AttemptHeld, HandoverHeld,
                          ControlHeld, WorkHeld
<1>2. CASE task.state = "checkpoint_requested" /\ Move("checkpointing")
    <2>1. Now("checkpointing")
        BY <1>2, Moved DEF Move, IInv
    <2> QED
        BY <1>2, <2>1 DEF RecoverRequestCheckpoint, Now, durable, world, CoordinatorConstants,
                          IInv, TypeOK, StateHeld, LocalsHeld, AttemptHeld, HandoverHeld,
                          ControlHeld, WorkHeld
<1> QED
    BY <1>1, <1>2 DEF RecoverRequestCheckpoint

(* The checkpoint, by recovery or after a worker stopped: the worktree as  *)
(* it is, or the task blocks.                                              *)
LEMMA CheckpointOK ==
    ASSUME CoordinatorConstants, IInv, RecoverCheckpoint \/ Checkpoint
    PROVE  IInv'
<1>1. /\ task.state = "checkpointing" /\ co.pc \in {"recover", "capture"}
      /\ UNCHANGED <<worktree, attempt, handover, control, verified, world>>
    BY DEF RecoverCheckpoint, Checkpoint, IInv, StateHeld
<1>2. CASE checkpoint' = work /\ UNCHANGED task /\ RecoverCheckpoint /\ Goto("recovered")
    <2>1. co.pc = "recover" /\ Reached("recovered")
        BY <1>2, Gone DEF RecoverCheckpoint, IInv
    <2> QED
        BY <1>1, <1>2, <2>1 DEF Reached, world, CoordinatorConstants, IInv, TypeOK, StateHeld,
                                LocalsHeld, AttemptHeld, HandoverHeld, ControlHeld, WorkHeld
<1>3. CASE checkpoint' = work /\ UNCHANGED task /\ Checkpoint /\ Goto("captured")
    <2>1. co.pc = "capture" /\ Reached("captured")
        BY <1>3, Gone DEF Checkpoint, IInv
    <2> QED
        BY <1>1, <1>3, <2>1 DEF Reached, world, CoordinatorConstants, IInv, TypeOK, StateHeld,
                                LocalsHeld, AttemptHeld, HandoverHeld, ControlHeld, WorkHeld
<1>4. CASE Move("blocked") /\ Leave /\ UNCHANGED checkpoint
    <2>1. Now("blocked") /\ Ended
        BY <1>4, Moved, Left DEF Move, IInv
    <2> QED
        BY <1>1, <1>4, <2>1 DEF Now, Ended, world, CoordinatorConstants, IInv, TypeOK, StateHeld,
                                LocalsHeld, AttemptHeld, HandoverHeld, ControlHeld, WorkHeld
<1> QED
    BY <1>2, <1>3, <1>4 DEF RecoverCheckpoint, Checkpoint, RecordCheckpoint, Snapshot

(* The recovered checkpoint is sealed.                                     *)
LEMMA RecoverCheckpointSealedOK ==
    ASSUME CoordinatorConstants, IInv, RecoverCheckpointSealed
    PROVE  IInv'
<1>1. co.pc = "recovered" /\ task.state = "checkpointing"
    BY DEF RecoverCheckpointSealed, IInv, StateHeld
<1>2. Now("checkpointed") /\ Reached("route")
    BY Moved, Gone DEF RecoverCheckpointSealed, Move, IInv
<1> QED
    BY <1>1, <1>2 DEF RecoverCheckpointSealed, durable, world, Now, Reached,
                      CoordinatorConstants, IInv, TypeOK, StateHeld, LocalsHeld, AttemptHeld,
                      HandoverHeld, ControlHeld, WorkHeld

(* Routing keeps the provider of a bundle and chooses any other freely.    *)
LEMMA RouteOK ==
    ASSUME CoordinatorConstants, IInv, Route
    PROVE  IInv'
<1>1. /\ co.pc = "route" /\ UNCHANGED <<durable, world>>
      /\ task.state \in {"analyzing", "planned", "checkpointed", "handing_over", "running"}
    BY DEF Route, IInv, StateHeld
<1>2. CASE Leave
    <2>1. Ended
        BY <1>2, Left
    <2>2. CASE Now("blocked") /\ task.state # "running"
        BY <1>1, <2>1, <2>2 DEF Now, Ended, durable, world, CoordinatorConstants, IInv, TypeOK,
                                StateHeld, LocalsHeld, AttemptHeld, HandoverHeld, ControlHeld,
                                WorkHeld
    <2>3. CASE UNCHANGED task
        BY <1>1, <2>1, <2>3 DEF Ended, durable, world, CoordinatorConstants, IInv, TypeOK,
                                StateHeld, LocalsHeld, AttemptHeld, HandoverHeld, ControlHeld,
                                WorkHeld
    <2>4. Allowed("blocked") => task.state # "running"
        BY DEF Allowed, Edges
    <2>5. (Now("blocked") /\ Allowed("blocked")) \/ UNCHANGED task
        BY Moved DEF Route, Move, IInv
    <2> QED
        BY <2>2, <2>3, <2>4, <2>5
<1>3. CASE ~Leave
    <2>1. PICK p \in IF co.provider = None THEN Providers ELSE {co.provider} :
             co' = [co EXCEPT !.provider = p,
                              !.pc = CASE task.state = "analyzing" -> "plan"
                                       [] task.state = "checkpointed" -> "offer"
                                       [] OTHER -> "execute"]
        BY <1>3 DEF Route
    <2>2. p \in Providers /\ (co.provider # None => p = co.provider)
        BY <2>1 DEF IInv, TypeOK, Locals
    <2>3. /\ co' \in Locals /\ co'.provider = p /\ co'.bundle = co.bundle
          /\ co'.claimed = co.claimed /\ co'.seen = co.seen
          /\ co'.pc = CASE task.state = "analyzing" -> "plan"
                        [] task.state = "checkpointed" -> "offer"
                        [] OTHER -> "execute"
        BY <2>1, <2>2 DEF IInv, TypeOK, Locals
    <2>4. UNCHANGED task
        BY <1>3 DEF Route
    <2>5. Mine => p = co.provider
        BY <2>2 DEF Handovers, CoordinatorConstants
    <2> QED
        BY <1>1, <2>2, <2>3, <2>4, <2>5 DEF durable, world, CoordinatorConstants, IInv, TypeOK,
                                            StateHeld, LocalsHeld, AttemptHeld, HandoverHeld,
                                            ControlHeld, WorkHeld
<1> QED
    BY <1>2, <1>3

(* A planned task is executed.                                             *)
LEMMA PlanOK ==
    ASSUME CoordinatorConstants, IInv, Plan
    PROVE  IInv'
<1>1. co.pc = "plan" /\ task.state = "analyzing"
    BY DEF Plan, IInv, StateHeld
<1>2. Now("planned") /\ Reached("execute")
    BY Moved, Gone DEF Plan, Move, IInv
<1> QED
    BY <1>1, <1>2 DEF Plan, durable, world, Now, Reached, CoordinatorConstants, IInv, TypeOK,
                      StateHeld, LocalsHeld, AttemptHeld, HandoverHeld, ControlHeld, WorkHeld

(* A hand-over is requested from a checkpointed task.                      *)
LEMMA RequestHandoverOK ==
    ASSUME CoordinatorConstants, IInv, RequestHandover
    PROVE  IInv'
<1>1. co.pc = "offer" /\ task.state = "checkpointed"
    BY DEF RequestHandover, IInv, StateHeld
<1>2. Now("handover_requested") /\ Reached("seal")
    BY Moved, Gone DEF RequestHandover, Move, IInv
<1> QED
    BY <1>1, <1>2 DEF RequestHandover, durable, world, Now, Reached, CoordinatorConstants, IInv,
                      TypeOK, StateHeld, LocalsHeld, AttemptHeld, HandoverHeld, ControlHeld,
                      WorkHeld

(* The bundle is sealed for the provider that was chosen.                  *)
LEMMA RecordHandoverOK ==
    ASSUME CoordinatorConstants, IInv, RecordHandover
    PROVE  IInv'
<1>1. co.pc = "seal" /\ task.state = "handover_requested" /\ co.provider \in Providers
    BY DEF RecordHandover, IInv, StateHeld, LocalsHeld
<1>2. Reached("sealed")
    BY Gone DEF RecordHandover, IInv
<1>3. handover' \in Handovers /\ handover'.to = co.provider
    BY <1>1 DEF RecordHandover, Bundle, Handovers, IInv, TypeOK
<1> QED
    BY <1>1, <1>2, <1>3 DEF RecordHandover, durable, world, Reached, CoordinatorConstants, IInv,
                            TypeOK, StateHeld, LocalsHeld, AttemptHeld, HandoverHeld,
                            ControlHeld, WorkHeld

(* The hand-over starts with its bundle pending.                           *)
LEMMA StartHandoverOK ==
    ASSUME CoordinatorConstants, IInv, StartHandover
    PROVE  IInv'
<1>1. co.pc = "sealed" /\ task.state = "handover_requested"
    BY DEF StartHandover, IInv, StateHeld
<1>2. Now("handing_over")
    BY Moved DEF StartHandover, Move, IInv
<1>3. /\ co' \in Locals /\ co'.pc \in {"settle", "execute"} /\ co'.provider = co.provider
      /\ co'.bundle = TRUE /\ co'.claimed = co.claimed /\ co'.seen = co.seen
      /\ co'.pc = "settle" => co.claimed = "handover"
    BY DEF StartHandover, IInv, TypeOK, Locals
<1> QED
    BY <1>1, <1>2, <1>3 DEF StartHandover, durable, world, Now, CoordinatorConstants, IInv,
                            TypeOK, StateHeld, LocalsHeld, AttemptHeld, HandoverHeld,
                            ControlHeld, WorkHeld

(* The user's hand-over is complete: the claim is given back with the      *)
(* control.                                                                *)
LEMMA SettleHandoverControlOK ==
    ASSUME CoordinatorConstants, IInv, SettleHandoverControl
    PROVE  IInv'
<1>1. co.pc = "settle"
    BY DEF SettleHandoverControl, IInv
<1>2. /\ co' \in Locals /\ co'.pc = "execute" /\ co'.provider = co.provider
      /\ co'.bundle = co.bundle /\ co'.claimed = None /\ co'.seen = co.seen
    BY DEF SettleHandoverControl, IInv, TypeOK, Locals
<1>3. control \in Controls
    BY <1>1 DEF IInv, LocalsHeld, ControlHeld, CoordinatorConstants
<1>4. control' \in Controls /\ control'.action = "done"
    BY <1>3 DEF SettleHandoverControl, CompleteControl, Controls
<1> QED
    BY <1>1, <1>2, <1>3, <1>4 DEF SettleHandoverControl, durable, world, CoordinatorConstants,
                                  IInv, TypeOK, StateHeld, LocalsHeld, AttemptHeld, HandoverHeld,
                                  ControlHeld, WorkHeld

(* The worktree is made once and recorded after; one that was made and not *)
(* recorded ends every later run here.                                     *)
LEMMA WorktreeOK ==
    ASSUME CoordinatorConstants, IInv, CreateWorktree \/ PersistWorktree
    PROVE  IInv'
<1>1. /\ co.pc \in {"execute", "made"} /\ worktree' \in {"none", "made", "recorded"}
      /\ UNCHANGED <<task, attempt, checkpoint, handover, control, verified, world>>
    BY DEF CreateWorktree, PersistWorktree, IInv, TypeOK
<1>2. CASE Leave
    <2>1. Ended
        BY <1>2, Left
    <2> QED
        BY <1>1, <2>1 DEF Ended, world, CoordinatorConstants, IInv, TypeOK, StateHeld,
                          LocalsHeld, AttemptHeld, HandoverHeld, ControlHeld, WorkHeld
<1>3. CASE Goto("made") \/ Goto("execute")
    <2>1. Reached("made") \/ Reached("execute")
        BY <1>3, Gone DEF IInv
    <2> QED
        BY <1>1, <2>1 DEF Reached, world, CoordinatorConstants, IInv, TypeOK, StateHeld,
                          LocalsHeld, AttemptHeld, HandoverHeld, ControlHeld, WorkHeld
<1> QED
    BY <1>2, <1>3 DEF CreateWorktree, PersistWorktree

(* A task that had all its rounds fails.                                   *)
LEMMA ExhaustedOK ==
    ASSUME CoordinatorConstants, IInv, Exhausted
    PROVE  IInv'
<1>1. co.pc = "execute" /\ task.state # "planned"
    BY DEF Exhausted, IInv, StateHeld, Move, Allowed, Edges
<1>2. Now("failed") /\ Ended
    BY Moved, Left DEF Exhausted, Move, IInv
<1> QED
    BY <1>1, <1>2 DEF Exhausted, durable, world, Now, Ended, CoordinatorConstants, IInv, TypeOK,
                      StateHeld, LocalsHeld, AttemptHeld, HandoverHeld, ControlHeld, WorkHeld

(* The next provider is asked, with an attempt on record and the bundle in *)
(* hand.                                                                   *)
LEMMA AskAcknowledgementOK ==
    ASSUME CoordinatorConstants, IInv, AskAcknowledgement
    PROVE  IInv'
<1>1. co.pc = "execute" /\ co.bundle /\ task.state = "handing_over"
    BY DEF AskAcknowledgement, IInv, LocalsHeld
<1>2. /\ co' \in Locals /\ co'.pc = "asked" /\ co'.provider = co.provider
      /\ co'.bundle = FALSE /\ co'.claimed = co.claimed /\ co'.seen = co.seen
    BY DEF AskAcknowledgement, IInv, TypeOK, Locals
<1> QED
    BY <1>1, <1>2 DEF AskAcknowledgement, durable, world, CoordinatorConstants, IInv, TypeOK,
                      StateHeld, LocalsHeld, AttemptHeld, HandoverHeld, ControlHeld, WorkHeld

(* The provider of the bundle acknowledges it, or the task blocks.         *)
LEMMA AcknowledgeOK ==
    ASSUME CoordinatorConstants, IInv, Acknowledge
    PROVE  IInv'
<1>1. /\ co.pc = "asked" /\ task.state = "handing_over" /\ Mine
      /\ UNCHANGED <<worktree, attempt, checkpoint, control, verified, world>>
    BY DEF Acknowledge, IInv, StateHeld, HandoverHeld
<1>2. CASE CompleteHandover /\ Goto("acknowledged") /\ UNCHANGED task
    <2>1. Reached("acknowledged")
        BY <1>2, Gone DEF IInv
    <2>2. handover' \in Handovers /\ handover'.to = co.provider /\ handover'.acknowledged
        BY <1>1, <1>2 DEF CompleteHandover, Handovers
    <2> QED
        BY <1>1, <1>2, <2>1, <2>2 DEF Reached, world, CoordinatorConstants, IInv, TypeOK,
                                      StateHeld, LocalsHeld, AttemptHeld, HandoverHeld,
                                      ControlHeld, WorkHeld
<1>3. CASE Move("blocked") /\ Leave /\ UNCHANGED handover
    <2>1. Now("blocked") /\ Ended
        BY <1>3, Moved, Left DEF Move, IInv
    <2> QED
        BY <1>1, <1>3, <2>1 DEF Now, Ended, world, CoordinatorConstants, IInv, TypeOK, StateHeld,
                                LocalsHeld, AttemptHeld, HandoverHeld, ControlHeld, WorkHeld
<1> QED
    BY <1>2, <1>3 DEF Acknowledge

(* An acknowledged hand-over resumes, then runs, with its provider.        *)
LEMMA ResumeWritableOK ==
    ASSUME CoordinatorConstants, IInv, ResumeWritable
    PROVE  IInv'
<1>1. co.pc = "acknowledged" /\ UNCHANGED <<durable, world>>
    BY DEF ResumeWritable
<1>2. CASE task.state = "handing_over" /\ Move("resuming") /\ UNCHANGED co
    <2>1. Now("resuming")
        BY <1>2, Moved DEF Move, IInv
    <2> QED
        BY <1>1, <1>2, <2>1 DEF Now, durable, world, CoordinatorConstants, IInv, TypeOK,
                                StateHeld, LocalsHeld, AttemptHeld, HandoverHeld, ControlHeld,
                                WorkHeld
<1>3. CASE task.state = "resuming" /\ Move("running") /\ Goto("launch")
    <2>1. Now("running") /\ Reached("launch")
        BY <1>3, Moved, Gone DEF Move, IInv
    <2> QED
        BY <1>1, <1>3, <2>1 DEF Now, Reached, durable, world, CoordinatorConstants, IInv, TypeOK,
                                StateHeld, LocalsHeld, AttemptHeld, HandoverHeld, ControlHeld,
                                WorkHeld
<1> QED
    BY <1>2, <1>3 DEF ResumeWritable

(* The attempt is on record before the task runs for the first time, and   *)
(* before the provider writes.                                             *)
LEMMA PersistAttemptOK ==
    ASSUME CoordinatorConstants, IInv, PersistAttempt
    PROVE  IInv'
<1>1. /\ attempt' = TRUE
      /\ UNCHANGED <<task, worktree, checkpoint, handover, control, verified, world>>
    BY DEF PersistAttempt
<1>2. \/ co.pc = "launch" /\ task.state = "running"
      \/ co.pc = "execute" /\ ~co.bundle /\ task.state \in {"planned", "running"}
    BY DEF PersistAttempt, IInv, StateHeld, LocalsHeld
<1>3. CASE task.state = "planned"
    <2>1. Reached("persisted")
        BY <1>3, Gone DEF PersistAttempt, IInv
    <2> QED
        BY <1>1, <1>2, <1>3, <2>1 DEF Reached, world, CoordinatorConstants, IInv, TypeOK,
                                      StateHeld, LocalsHeld, AttemptHeld, HandoverHeld,
                                      ControlHeld, WorkHeld
<1>4. CASE task.state = "running"
    <2>1. Reached("writing")
        BY <1>4, Gone DEF PersistAttempt, IInv
    <2> QED
        BY <1>1, <1>2, <1>4, <2>1 DEF Reached, world, CoordinatorConstants, IInv, TypeOK,
                                      StateHeld, LocalsHeld, AttemptHeld, HandoverHeld,
                                      ControlHeld, WorkHeld
<1> QED
    BY <1>2, <1>3, <1>4

(* The task runs once its first attempt is on record.                      *)
LEMMA ProjectRunningOK ==
    ASSUME CoordinatorConstants, IInv, ProjectRunning
    PROVE  IInv'
<1>1. co.pc = "persisted" /\ task.state = "planned"
    BY DEF ProjectRunning, IInv, StateHeld
<1>2. Now("running") /\ Reached("writing")
    BY Moved, Gone DEF ProjectRunning, Move, IInv
<1> QED
    BY <1>1, <1>2 DEF ProjectRunning, durable, world, Now, Reached, CoordinatorConstants, IInv,
                      TypeOK, StateHeld, LocalsHeld, AttemptHeld, HandoverHeld, ControlHeld,
                      WorkHeld

(* A worker, a reviewer or a stray process writes at no step at which the  *)
(* coordinator relies on what it saw.                                      *)
LEMMA WriteOK ==
    ASSUME CoordinatorConstants, IInv, Write \/ ReviewerWrites \/ StrayWrites
    PROVE  IInv'
<1>1. /\ work' = work + 1 /\ UNCHANGED <<task, durable, co, stray, faults, controls>>
      /\ co.pc \in {"writing", "reviewing"} \/ stray
    BY DEF Write, ReviewerWrites, StrayWrites
<1>2. work' \in Nat
    BY <1>1 DEF IInv, TypeOK
<1> QED
    BY <1>1, <1>2 DEF durable, CoordinatorConstants, IInv, TypeOK, StateHeld, LocalsHeld,
                      AttemptHeld, HandoverHeld, ControlHeld, WorkHeld

(* The worker ends by itself.                                              *)
LEMMA WorkerEndsOK ==
    ASSUME CoordinatorConstants, IInv, WorkerSucceeds \/ WorkerStops
    PROVE  IInv'
<1>1. co.pc = "writing" /\ UNCHANGED <<task, durable, world>>
    BY DEF WorkerSucceeds, WorkerStops
<1>2. Reached("done") \/ Reached("stopped")
    BY Gone DEF WorkerSucceeds, WorkerStops, IInv
<1> QED
    BY <1>1, <1>2 DEF Reached, durable, world, CoordinatorConstants, IInv, TypeOK, StateHeld,
                      LocalsHeld, AttemptHeld, HandoverHeld, ControlHeld, WorkHeld

(* The coordinator claims the open control and remembers which it is.      *)
LEMMA ClaimControlOK ==
    ASSUME CoordinatorConstants, IInv, ClaimControl
    PROVE  IInv'
<1>1. co.pc = "writing" /\ control # None /\ control \in Controls /\ control.action \in Actions
    BY DEF ClaimControl, IInv, TypeOK, Controls, Open
<1>2. /\ control' \in Controls /\ control'.action = control.action
      /\ control'.to = control.to /\ control'.claimed = TRUE
    BY <1>1 DEF ClaimControl, Controls
<1>3. /\ co' \in Locals /\ co'.pc = "stopped" /\ co'.provider = co.provider
      /\ co'.bundle = co.bundle /\ co'.claimed = control.action /\ co'.seen = co.seen
    BY <1>1 DEF ClaimControl, IInv, TypeOK, Locals
<1> QED
    BY <1>1, <1>2, <1>3 DEF ClaimControl, durable, world, CoordinatorConstants, IInv, TypeOK,
                            StateHeld, LocalsHeld, AttemptHeld, HandoverHeld, ControlHeld,
                            WorkHeld

(* A worker, asked provider or reviewer whose end is not confirmed blocks  *)
(* the task and may live on.                                               *)
LEMMA UnconfirmedOK ==
    ASSUME CoordinatorConstants, IInv, Unconfirmed
    PROVE  IInv'
<1>1. task.state \in {"running", "handing_over", "verifying"} /\ stray' = TRUE
    BY DEF Unconfirmed, MoveUnconfirmed
<1>2. Now("blocked") /\ Ended
    BY Moved, Left DEF Unconfirmed, MoveUnconfirmed, IInv
<1>3. faults' \in Nat
    BY DEF Unconfirmed, IInv, TypeOK
<1> QED
    BY <1>1, <1>2, <1>3 DEF Unconfirmed, Now, Ended, durable, CoordinatorConstants, IInv, TypeOK,
                            StateHeld, LocalsHeld, AttemptHeld, HandoverHeld, ControlHeld,
                            WorkHeld

(* A crash at any step takes only the memory of the coordinator.           *)
LEMMA CrashOK ==
    ASSUME CoordinatorConstants, IInv, Crash
    PROVE  IInv'
<1>1. Ended
    BY Left DEF Crash
<1>2. faults' \in Nat
    BY DEF Crash, IInv, TypeOK
<1> QED
    BY <1>1, <1>2 DEF Crash, Ended, durable, CoordinatorConstants, IInv, TypeOK, StateHeld,
                      LocalsHeld, AttemptHeld, HandoverHeld, ControlHeld, WorkHeld

(* A stopped worker leads to a checkpoint, whatever was claimed.           *)
LEMMA RequestCheckpointOK ==
    ASSUME CoordinatorConstants, IInv, RequestCheckpoint
    PROVE  IInv'
<1>1. co.pc = "stopped" /\ UNCHANGED <<durable, world>>
    BY DEF RequestCheckpoint
<1>2. CASE task.state = "running" /\ Move("checkpoint_requested") /\ UNCHANGED co
    <2>1. Now("checkpoint_requested")
        BY <1>2, Moved DEF Move, IInv
    <2> QED
        BY <1>1, <1>2, <2>1 DEF Now, durable, world, CoordinatorConstants, IInv, TypeOK,
                                StateHeld, LocalsHeld, AttemptHeld, HandoverHeld, ControlHeld,
                                WorkHeld
<1>3. CASE task.state = "checkpoint_requested" /\ Move("checkpointing") /\ Goto("capture")
    <2>1. Now("checkpointing") /\ Reached("capture")
        BY <1>3, Moved, Gone DEF Move, IInv
    <2> QED
        BY <1>1, <1>3, <2>1 DEF Now, Reached, durable, world, CoordinatorConstants, IInv, TypeOK,
                                StateHeld, LocalsHeld, AttemptHeld, HandoverHeld, ControlHeld,
                                WorkHeld
<1> QED
    BY <1>2, <1>3 DEF RequestCheckpoint

(* A claimed cancel or pause is applied at the checkpoint just taken, any  *)
(* other stop goes on to the next provider.                                *)
LEMMA CheckpointSealedOK ==
    ASSUME CoordinatorConstants, IInv, CheckpointSealed
    PROVE  IInv'
<1>1. co.pc = "captured" /\ task.state = "checkpointing"
    BY DEF CheckpointSealed, IInv, StateHeld
<1>2. Now("checkpointed")
    BY Moved DEF CheckpointSealed, Move, IInv
<1>3. CASE co.claimed \in {"cancel", "pause"}
    <2>1. Reached("apply")
        BY <1>3, Gone DEF CheckpointSealed, IInv
    <2> QED
        BY <1>1, <1>2, <1>3, <2>1 DEF CheckpointSealed, Now, Reached, durable, world,
                                      CoordinatorConstants, IInv, TypeOK, StateHeld, LocalsHeld,
                                      AttemptHeld, HandoverHeld, ControlHeld, WorkHeld
<1>4. CASE co.claimed \notin {"cancel", "pause"}
    <2>1. Reached("reroute")
        BY <1>4, Gone DEF CheckpointSealed, IInv
    <2> QED
        BY <1>1, <1>2, <2>1 DEF CheckpointSealed, Now, Reached, durable, world,
                                CoordinatorConstants, IInv, TypeOK, StateHeld, LocalsHeld,
                                AttemptHeld, HandoverHeld, ControlHeld, WorkHeld
<1> QED
    BY <1>3, <1>4

(* A cancel ends the task and a pause blocks it, both with the checkpoint  *)
(* of what was written.                                                    *)
LEMMA ApplyControlOK ==
    ASSUME CoordinatorConstants, IInv, ApplyControl
    PROVE  IInv'
<1>1. co.pc = "apply" /\ task.state = "checkpointed"
    BY DEF ApplyControl, IInv, StateHeld
<1>2. Now("cancelled") \/ Now("blocked")
    BY Moved DEF ApplyControl, Move, IInv
<1>3. Reached("applied")
    BY Gone DEF ApplyControl, IInv
<1> QED
    BY <1>1, <1>2, <1>3 DEF ApplyControl, Now, Reached, durable, world, CoordinatorConstants,
                            IInv, TypeOK, StateHeld, LocalsHeld, AttemptHeld, HandoverHeld,
                            ControlHeld, WorkHeld

(* The control is completed only after it was applied.                     *)
LEMMA FinishControlOK ==
    ASSUME CoordinatorConstants, IInv, FinishControl
    PROVE  IInv'
<1>1. co.pc = "applied" /\ control \in Controls
    BY DEF FinishControl, IInv, LocalsHeld, ControlHeld, CoordinatorConstants
<1>2. control' \in Controls /\ control'.action = "done"
    BY <1>1 DEF FinishControl, CompleteControl, Controls
<1>3. Ended
    BY Left DEF FinishControl
<1> QED
    BY <1>1, <1>2, <1>3 DEF FinishControl, Ended, world, CoordinatorConstants, IInv, TypeOK,
                            StateHeld, LocalsHeld, AttemptHeld, HandoverHeld, ControlHeld,
                            WorkHeld

(* The next provider is another one, the user's if the user named one.     *)
LEMMA RerouteOK ==
    ASSUME CoordinatorConstants, IInv, Reroute
    PROVE  IInv'
<1>1. co.pc = "reroute" /\ task.state = "checkpointed" /\ UNCHANGED <<durable, world>>
    BY DEF Reroute, IInv, StateHeld
<1>2. ASSUME NEW p \in NextCandidates, UNCHANGED task,
             co' = [co EXCEPT !.pc = "offer", !.provider = p, !.rounds = @ + 1]
      PROVE  IInv'
    <2>1. p \in Providers
        BY DEF NextCandidates, IInv, ControlHeld, CoordinatorConstants
    <2>2. co.rounds + 1 \in Nat
        BY DEF IInv, TypeOK, Locals
    <2>3. /\ co' \in Locals /\ co'.pc = "offer" /\ co'.provider = p /\ co'.bundle = co.bundle
          /\ co'.claimed = co.claimed /\ co'.seen = co.seen
        BY <1>2, <2>1, <2>2 DEF IInv, TypeOK, Locals
    <2> QED
        BY <1>1, <1>2, <2>1, <2>3 DEF durable, world, CoordinatorConstants, IInv, TypeOK,
                                      StateHeld, LocalsHeld, AttemptHeld, HandoverHeld,
                                      ControlHeld, WorkHeld
<1>3. CASE Move("blocked") /\ Leave
    <2>1. Now("blocked") /\ Ended
        BY <1>3, Moved, Left DEF Move, IInv
    <2> QED
        BY <1>1, <2>1 DEF Now, Ended, durable, world, CoordinatorConstants, IInv, TypeOK,
                          StateHeld, LocalsHeld, AttemptHeld, HandoverHeld, ControlHeld, WorkHeld
<1> QED
    BY <1>2, <1>3 DEF Reroute

(* A worker that succeeded is verified.                                    *)
LEMMA StartVerifyingOK ==
    ASSUME CoordinatorConstants, IInv, StartVerifying
    PROVE  IInv'
<1>1. co.pc = "done" /\ task.state = "running"
    BY DEF StartVerifying, IInv, StateHeld
<1>2. Now("verifying") /\ Reached("verify")
    BY Moved, Gone DEF StartVerifying, Move, IInv
<1> QED
    BY <1>1, <1>2 DEF StartVerifying, Now, Reached, durable, world, CoordinatorConstants, IInv,
                      TypeOK, StateHeld, LocalsHeld, AttemptHeld, HandoverHeld, ControlHeld,
                      WorkHeld

(* The review starts on a snapshot, or is refused.                         *)
LEMMA StartReviewOK ==
    ASSUME CoordinatorConstants, IInv, StartReview
    PROVE  IInv'
<1>1. /\ co.pc = "verify" /\ task.state = "verifying"
      /\ UNCHANGED <<task, worktree, checkpoint, handover, control, verified, world>>
    BY DEF StartReview, IInv, StateHeld
<1>2. attempt' \in BOOLEAN /\ (attempt => attempt')
    BY DEF StartReview, IInv, TypeOK
<1>3. \/ co' = [co EXCEPT !.pc = "reviewing", !.seen = work]
      \/ co' = [co EXCEPT !.pc = "refused", !.seen = work]
    BY DEF StartReview, Snapshot
<1>4. /\ co' \in Locals /\ co'.pc \in {"reviewing", "refused"} /\ co'.provider = co.provider
      /\ co'.bundle = co.bundle /\ co'.claimed = co.claimed
    <2>1. CASE co' = [co EXCEPT !.pc = "reviewing", !.seen = work]
        BY <2>1 DEF IInv, TypeOK, Locals
    <2>2. CASE co' = [co EXCEPT !.pc = "refused", !.seen = work]
        BY <2>2 DEF IInv, TypeOK, Locals
    <2> QED
        BY <1>3, <2>1, <2>2
<1> QED
    BY <1>1, <1>2, <1>4 DEF world, CoordinatorConstants, IInv, TypeOK, StateHeld, LocalsHeld,
                            AttemptHeld, HandoverHeld, ControlHeld, WorkHeld

(* A review approves only the worktree it was shown.                       *)
LEMMA FinishReviewOK ==
    ASSUME CoordinatorConstants, IInv, FinishReview
    PROVE  IInv'
<1>1. co.pc = "reviewing" /\ task.state = "verifying" /\ UNCHANGED <<task, durable, world>>
    BY DEF FinishReview, IInv, StateHeld
<1>2. (Reached("approved") /\ co.seen = work) \/ Reached("refused")
    BY Gone DEF FinishReview, Snapshot, IInv
<1> QED
    BY <1>1, <1>2 DEF Reached, durable, world, CoordinatorConstants, IInv, TypeOK, StateHeld,
                      LocalsHeld, AttemptHeld, HandoverHeld, ControlHeld, WorkHeld

(* The verification on record is of the snapshot that was reviewed, and    *)
(* passes only with the approval.                                          *)
LEMMA RecordVerificationOK ==
    ASSUME CoordinatorConstants, IInv, RecordVerification
    PROVE  IInv'
<1>1. /\ co.pc \in {"approved", "refused"} /\ task.state = "verifying" /\ verified' = co.seen
      /\ UNCHANGED <<task, worktree, attempt, checkpoint, handover, control, world>>
    BY DEF RecordVerification, IInv, StateHeld
<1>2. (co.pc = "approved" /\ Reached("passed")) \/ Reached("rejected")
    BY Gone DEF RecordVerification, GateOpen, IInv
<1>3. verified' \in Nat \cup {None}
    BY <1>1 DEF IInv, TypeOK, Locals
<1> QED
    BY <1>1, <1>2, <1>3 DEF Reached, world, CoordinatorConstants, IInv, TypeOK, StateHeld,
                            LocalsHeld, AttemptHeld, HandoverHeld, ControlHeld, WorkHeld

(* Only what passed is completed.                                          *)
LEMMA FinishTaskOK ==
    ASSUME CoordinatorConstants, IInv, FinishTask
    PROVE  IInv'
<1>1. task.state = "verifying" /\ UNCHANGED <<durable, world>>
    BY DEF FinishTask, IInv, StateHeld
<1>2. Ended
    BY Left DEF FinishTask
<1>3. CASE co.pc = "passed" /\ Move("completed")
    <2>1. Now("completed")
        BY <1>3, Moved DEF Move, IInv
    <2> QED
        BY <1>1, <1>2, <1>3, <2>1 DEF Now, Ended, durable, world, CoordinatorConstants, IInv,
                                      TypeOK, StateHeld, LocalsHeld, AttemptHeld, HandoverHeld,
                                      ControlHeld, WorkHeld
<1>4. CASE co.pc = "rejected" /\ Move("blocked")
    <2>1. Now("blocked")
        BY <1>4, Moved DEF Move, IInv
    <2> QED
        BY <1>1, <1>2, <1>4, <2>1 DEF Now, Ended, durable, world, CoordinatorConstants, IInv,
                                      TypeOK, StateHeld, LocalsHeld, AttemptHeld, HandoverHeld,
                                      ControlHeld, WorkHeld
<1> QED
    BY <1>3, <1>4 DEF FinishTask

(* A step that changes nothing keeps what holds.                           *)
LEMMA StutterOK ==
    ASSUME IInv, UNCHANGED vars
    PROVE  IInv'
BY DEF vars, IInv, TypeOK, StateHeld, LocalsHeld, AttemptHeld, HandoverHeld, ControlHeld, WorkHeld

(* Every step of the coordinator, its worker, its reviewer, a client or a  *)
(* crash keeps the invariant.                                              *)
LEMMA NextOK ==
    ASSUME CoordinatorConstants, IInv, Next
    PROVE  IInv'
<1>1. CASE RequestControl \/ RecoverClaimedControls
    BY <1>1, RequestControlOK, RecoverClaimedControlsOK
<1>2. CASE RecoverBlocked \/ RecoverRequestedHandover \/ RecoverHandingOver \/ RecoverResuming
    BY <1>2, RecoverBlockedOK, RecoverRequestedHandoverOK, RecoverHandingOverOK, RecoverResumingOK
<1>3. CASE \/ RecoverCheckpointed \/ RecoverRequestCheckpoint
           \/ RecoverCheckpoint \/ RecoverCheckpointSealed
    BY <1>3, RecoverCheckpointedOK, RecoverRequestCheckpointOK, CheckpointOK,
       RecoverCheckpointSealedOK
<1>4. CASE \/ Route \/ Plan \/ RequestHandover \/ RecordHandover \/ StartHandover
           \/ SettleHandoverControl
    BY <1>4, RouteOK, PlanOK, RequestHandoverOK, RecordHandoverOK, StartHandoverOK,
       SettleHandoverControlOK
<1>5. CASE CreateWorktree \/ PersistWorktree \/ Exhausted
    BY <1>5, WorktreeOK, ExhaustedOK
<1>6. CASE \/ AskAcknowledgement \/ Acknowledge \/ ResumeWritable
           \/ PersistAttempt \/ ProjectRunning
    BY <1>6, AskAcknowledgementOK, AcknowledgeOK, ResumeWritableOK, PersistAttemptOK,
       ProjectRunningOK
<1>7. CASE \/ Write \/ ReviewerWrites \/ StrayWrites \/ WorkerSucceeds \/ WorkerStops
           \/ ClaimControl \/ Unconfirmed \/ Crash
    BY <1>7, WriteOK, WorkerEndsOK, ClaimControlOK, UnconfirmedOK, CrashOK
<1>8. CASE \/ RequestCheckpoint \/ Checkpoint \/ CheckpointSealed \/ ApplyControl \/ FinishControl
           \/ Reroute
    BY <1>8, RequestCheckpointOK, CheckpointOK, CheckpointSealedOK, ApplyControlOK, FinishControlOK,
       RerouteOK
<1>9. CASE StartVerifying \/ StartReview \/ FinishReview \/ RecordVerification \/ FinishTask
    BY <1>9, StartVerifyingOK, StartReviewOK, FinishReviewOK, RecordVerificationOK, FinishTaskOK
<1> QED
    BY <1>1, <1>2, <1>3, <1>4, <1>5, <1>6, <1>7, <1>8, <1>9 DEF Next

(* The task, its rows and the coordinator satisfy the inductive invariant, *)
(* with crashes, unconfirmed ends and controls at any step and for any     *)
(* number of providers, rounds and faults.                                 *)
THEOREM CoordinatorInvariant ==
    ASSUME CoordinatorConstants
    PROVE  Spec => []IInv
<1>1. Init => IInv
    BY InitOK
<1>2. IInv /\ [Next]_vars => IInv'
    BY NextOK, StutterOK
<1> QED
    BY <1>1, <1>2, PTL DEF Spec

(* The rows, the worktree and the locals stay well formed.                 *)
THEOREM TypeCorrect ==
    ASSUME CoordinatorConstants
    PROVE  Spec => []TypeOK
<1>1. IInv => TypeOK
    BY DEF IInv
<1> QED
    BY <1>1, CoordinatorInvariant, PTL

(* No provider writes to the worktree after a hand-over unless the newest  *)
(* bundle names it and its acknowledgement is on record.                   *)
THEOREM WritersAcknowledged ==
    ASSUME CoordinatorConstants
    PROVE  Spec => []WriterAcknowledged
<1>1. IInv => WriterAcknowledged
    BY DEF IInv, StateHeld, HandoverHeld, WriterAcknowledged
<1> QED
    BY <1>1, CoordinatorInvariant, PTL

(* A cancelled task stands at a checkpoint of all that was written.        *)
THEOREM CancelsAtCheckpoint ==
    ASSUME CoordinatorConstants
    PROVE  Spec => []CancelledAtCheckpoint
<1>1. IInv => CancelledAtCheckpoint
    BY DEF IInv, WorkHeld, CancelledAtCheckpoint
<1> QED
    BY <1>1, CoordinatorInvariant, PTL

(* What is completed is what was reviewed and verified.                    *)
THEOREM CompletesAsReviewed ==
    ASSUME CoordinatorConstants
    PROVE  Spec => []CompletedAsReviewed
<1>1. IInv => CompletedAsReviewed
    BY DEF IInv, WorkHeld, CompletedAsReviewed
<1> QED
    BY <1>1, CoordinatorInvariant, PTL

(* A running task has an attempt on record, whatever died when.            *)
THEOREM RunningKeepsAttempt ==
    ASSUME CoordinatorConstants
    PROVE  Spec => []RunningHasAttempt
<1>1. IInv => RunningHasAttempt
    BY DEF IInv, AttemptHeld, RunningHasAttempt
<1> QED
    BY <1>1, CoordinatorInvariant, PTL

=============================================================================

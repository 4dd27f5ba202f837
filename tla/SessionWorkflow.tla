---------------------------- MODULE SessionWorkflow ----------------------------
(***************************************************************************)
(* One session from a user's message to an integrated result: the session  *)
(* queue and the orchestration queue of client_commands, conversation      *)
(* turns and requirement revisions, planning and approval of task graphs,  *)
(* preview and application of integration batches, and what a starting     *)
(* daemon reconciles after a crash (orchestrator-daemon: lib.rs,           *)
(* commands.rs, conversation.rs, planning.rs, integration.rs;              *)
(* orchestrator-state: client_commands.rs, sessions.rs, conversations.rs,  *)
(* graphs.rs, integrations.rs).                                            *)
(*                                                                         *)
(* The loop of the daemon handles append_message itself and has at most    *)
(* one planning job, a task of its own, for everything else: the two       *)
(* interleave between any two transactions.  A step is one transaction, or *)
(* one call of a provider or of git; a session is loaded in one step and   *)
(* updated under its revision in a later one.                              *)
(*                                                                         *)
(* Ids derived from one message coincide with it here: the conversation    *)
(* turn, its attempt, its requirement revision, the plan command and the   *)
(* graph revision of message m are all called m.  A batch is named by the  *)
(* request_integration command that records it.                            *)
(***************************************************************************)
EXTENDS Naturals, Sequences, SequencesExt, FiniteSets, FiniteSetsExt

CONSTANTS
    Messages,      \* the session-level user messages (a bound)
    NoMessage,
    Batches,       \* integration batches, 1 .. n in the order they are requested
    Approvals,     \* batch -> the approve_integration commands for it
    PlanOnly,      \* messages whose run invocation is plan-only
    MaxBacklog,    \* how many commands may be pending (a bound)
    MaxCrashes     \* how often the daemon process dies (a bound)

ASSUME SessionConstants ==
    /\ IsFiniteSet(Batches) /\ Batches = 1 .. Cardinality(Batches)
    /\ DOMAIN Approvals = Batches
    /\ PlanOnly \subseteq Messages
    /\ MaxBacklog \in Nat /\ MaxCrashes \in Nat
    /\ NoMessage \notin Messages

VARIABLES
    proc,     \* the daemon process
    cmd,      \* client_commands.state
    roots,    \* submitted commands in the order of requested_at, as long as
              \* one of them or of those derived from them is not settled
    append,   \* the append_message command in the hands of the loop
    job,      \* the planning job
    session,  \* sessions.state
    posted,   \* session-level user messages in the order of their ordinals
    attempt,  \* conversation_attempts: status, and the outcome once it has one
    reqs,     \* requirement_revisions by ordinal; the last one is the head
    rev,      \* graph_revisions.status
    head,     \* session_graph_heads
    task,     \* graph -> the progress of its materialised tasks
    overlap,  \* whether the tasks of a graph change a common path
    batch,    \* integration_batches
    res,      \* batch -> its resolution task
    applied,  \* batch -> how often it was applied in its integration worktree
    crashes

queueVars == <<cmd, roots>>
turnVars  == <<attempt, reqs>>
graphVars == <<rev, head>>
taskVars  == <<task, res, overlap>>
intVars   == <<batch, applied>>

(* What no step of the planning job changes before it finishes. *)
jobFrame  == <<proc, roots, append, posted, crashes>>

vars == <<proc, queueVars, append, job, session, posted, turnVars, graphVars,
          taskVars, batch, applied, crashes>>

-----------------------------------------------------------------------------
(* domain/session.rs *)

SessionStates == {"drafting", "planning", "validating", "awaiting_approval", "running",
                  "needs_attention", "integrating", "verifying", "completed"}

(* validate_transition, without the edges to Stopping, which no command of *)
(* the daemon takes.                                                       *)
Edges ==
    [drafting          |-> {"planning"},
     planning          |-> {"validating", "awaiting_approval", "needs_attention"},
     validating        |-> {"awaiting_approval", "needs_attention", "planning", "drafting"},
     awaiting_approval |-> {"drafting", "planning", "running"},
     running           |-> {"needs_attention", "integrating"},
     needs_attention   |-> {"drafting", "planning", "running", "integrating"},
     integrating       |-> {"needs_attention", "verifying"},
     verifying         |-> {"completed", "needs_attention"},
     completed         |-> {}]

-----------------------------------------------------------------------------
(* client_commands *)

OfMessage(kind) == {<<kind, m>> : m \in Messages}

AppendCmds  == OfMessage("append")
TurnCmds    == OfMessage("turn")
PlanCmds    == OfMessage("plan")
ApproveCmds == OfMessage("approve")
PreviewCmds == {<<"preview", b>> : b \in Batches}
ApplyCmds   == UNION {{<<"apply", b, k>> : k \in Approvals[b]} : b \in Batches}
ResolveCmds == {<<"resolve", b>> : b \in Batches}

OrchestrationCmds == TurnCmds \cup PlanCmds \cup ApproveCmds
                         \cup PreviewCmds \cup ApplyCmds \cup ResolveCmds

Cmds == AppendCmds \cup OrchestrationCmds

CmdStates == {"none", "pending", "claimed", "completed", "failed"}

Settled == {"completed", "failed"}

(* A derived command carries the requested_at of the command it derives    *)
(* from; the command ids break a tie in an order that means nothing.       *)
Root(c) == IF c[1] \in {"turn", "plan"} THEN <<"append", c[2]>> ELSE c

RequestedAt(c) == CHOOSE i \in DOMAIN roots : roots[i] = Root(c)

FirstPending(C) ==
    LET pending == {c \in C : cmd[c] = "pending"}
    IN  {c \in pending : \A d \in pending : RequestedAt(c) <= RequestedAt(d)}

Unsettled(C) ==
    SelectSeq(roots, LAMBDA r : \E c \in Cmds : Root(c) = r /\ C[c] \in {"pending", "claimed"})

(* submit_derived_client_command: a replay finds the stored command.       *)
Derived(C, c) == IF C[c] = "none" THEN [C EXCEPT ![c] = "pending"] ELSE C

(* recover_stale_client_commands: what may be replayed is pending again,   *)
(* approve_integration and create_resolution_task stay claimed for manual  *)
(* reconciliation.                                                         *)
ReplaySafe == Cmds \ (ApplyCmds \cup ResolveCmds)

-----------------------------------------------------------------------------
NoJob == [cmd |-> <<"none">>, pc |-> "idle", next |-> "none", fresh |-> FALSE,
          verdict |-> "none"]

NoAppend == <<NoMessage, "idle">>

JobPcs == {"idle", "turn_check", "converse", "respond", "require", "derive",
           "plan_check", "plan_begin", "propose", "to_validating", "authority",
           "plan_finish", "from_planning", "approve_check", "materialize",
           "approved_session", "preview", "to_attention", "apply_check",
           "to_integrating", "apply_build", "applying", "apply_finish",
           "to_verifying", "to_completed", "apply_failed", "resolve", "to_running",
           "cas", "ok", "fail"}

Outcomes == {"answer", "more", "candidate"}

LatestGoal == IF posted = <<>> THEN NoMessage ELSE Last(posted)

RequirementHead == IF reqs = <<>> THEN NoMessage ELSE Last(reqs)

NoBatch == [st |-> "none"]

Recorded == {b \in Batches : batch[b].st # "none"}

CurrentBatch == IF Recorded = {} THEN 0 ELSE Max(Recorded)

Init ==
    /\ proc = "down"
    /\ cmd = [c \in Cmds |-> "none"]
    /\ roots = <<>>
    /\ append = NoAppend
    /\ job = NoJob
    /\ session = "drafting"
    /\ posted = <<>>
    /\ attempt = [m \in Messages |-> "none"]
    /\ reqs = <<>>
    /\ rev = [m \in Messages |-> "none"]
    /\ head = NoMessage
    /\ task = [m \in Messages |-> "none"]
    /\ overlap \in BOOLEAN
    /\ batch = [b \in Batches |-> NoBatch]
    /\ res = [b \in Batches |-> "none"]
    /\ applied = [b \in Batches |-> 0]
    /\ crashes = 0

-----------------------------------------------------------------------------
(* Clients. *)

Submit(c) ==
    /\ proc = "up"
    /\ cmd[c] = "none"
    /\ Cardinality({d \in Cmds : cmd[d] = "pending"}) < MaxBacklog
    /\ cmd' = [cmd EXCEPT ![c] = "pending"]
    /\ roots' = Append(roots, c)
    /\ UNCHANGED <<proc, append, job, session, posted, turnVars, graphVars, taskVars,
                   batch, applied, crashes>>

SendMessage(m) == Submit(<<"append", m>>)

(* A client answers what it is shown, a proposal or the current batch, by  *)
(* its hash; either may be obsolete when the command is handled.           *)
ApproveGraph(m) ==
    /\ rev[m] = "awaiting"
    /\ Submit(<<"approve", m>>)

RequestIntegration(b) ==
    /\ \A a \in Batches : a < b => cmd[<<"preview", a>>] \in Settled
    /\ \E m \in Messages : task[m] # "none"
    /\ Submit(<<"preview", b>>)

ApproveIntegration(b, k) ==
    /\ b = CurrentBatch /\ batch[b].st = "preview"
    /\ Submit(<<"apply", b, k>>)

CreateResolutionTask(b) ==
    /\ b = CurrentBatch /\ batch[b].st \in {"blocked", "needs_attention"}
    /\ Submit(<<"resolve", b>>)

-----------------------------------------------------------------------------
(* The loop: process_next_client_command for append_message.  The message, *)
(* its conversation command and the invalidation of a candidate that the   *)
(* message makes obsolete are one transaction.                             *)

ClaimAppend ==
    /\ proc = "up" /\ append = NoAppend
    /\ \E c \in FirstPending(AppendCmds) :
          /\ cmd' = [cmd EXCEPT ![c] = "claimed"]
          /\ append' = <<c[2], "claimed">>
    /\ UNCHANGED <<proc, roots, job, session, posted, turnVars, graphVars, taskVars,
                   batch, applied, crashes>>

PreTask == {"planning", "validating", "awaiting_approval", "needs_attention"}

Superseded(R, from) ==
    IF head # NoMessage /\ R[head] \in from THEN [R EXCEPT ![head] = "superseded"] ELSE R

InvalidatePreTaskCandidate ==
    IF session \in PreTask
    THEN /\ rev' = Superseded(rev, {"planning", "awaiting"})
         /\ session' = "drafting"
         /\ job' = [job EXCEPT !.fresh = FALSE]
    ELSE UNCHANGED <<rev, session, job>>

AppendNew(m) ==
    /\ proc = "up" /\ append = <<m, "claimed">> /\ m \notin ToSet(posted)
    /\ posted' = Append(posted, m)
    /\ cmd' = Derived(cmd, <<"turn", m>>)
    /\ InvalidatePreTaskCandidate
    /\ append' = <<m, "completed">>
    /\ UNCHANGED <<proc, roots, turnVars, head, taskVars, batch, applied, crashes>>

(* The command is replayed after a crash.  The text is redacted again, and *)
(* the redaction patterns of the new process may differ.                   *)
AppendReplayed(m) ==
    /\ proc = "up" /\ append = <<m, "claimed">> /\ m \in ToSet(posted)
    /\ \/ cmd' = Derived(cmd, <<"turn", m>>) /\ append' = <<m, "completed">>
       \/ UNCHANGED cmd /\ append' = <<m, "failed">>
    /\ UNCHANGED <<proc, roots, job, session, posted, turnVars, graphVars, taskVars,
                   batch, applied, crashes>>

FinishAppend(m) ==
    /\ proc = "up" /\ append[1] = m /\ append[2] \in Settled
    /\ cmd' = [cmd EXCEPT ![<<"append", m>>] = append[2]]
    /\ roots' = Unsettled(cmd')
    /\ append' = NoAppend
    /\ UNCHANGED <<proc, job, session, posted, turnVars, graphVars, taskVars,
                   batch, applied, crashes>>

-----------------------------------------------------------------------------
(* The planning job: process_next_orchestration_command. *)

At(kind, pc) == proc = "up" /\ job.cmd[1] = kind /\ job.pc = pc

Goto(pc) == job' = [job EXCEPT !.pc = pc]

Entry == [turn |-> "turn_check", plan |-> "plan_check", approve |-> "approve_check",
          preview |-> "preview", apply |-> "apply_check", resolve |-> "resolve"]

ClaimOrchestration ==
    /\ proc = "up" /\ job = NoJob
    /\ \E c \in FirstPending(OrchestrationCmds) :
          /\ cmd' = [cmd EXCEPT ![c] = "claimed"]
          /\ job' = [NoJob EXCEPT !.cmd = c, !.pc = Entry[c[1]]]
    /\ UNCHANGED <<jobFrame, session, turnVars, graphVars, taskVars, intVars>>

(* complete_client_command and fail_client_command. *)
FinishOrchestration ==
    /\ proc = "up" /\ job.pc \in {"ok", "fail"}
    /\ cmd' = [cmd EXCEPT ![job.cmd] = IF job.pc = "ok" THEN "completed" ELSE "failed"]
    /\ roots' = Unsettled(cmd')
    /\ job' = NoJob
    /\ UNCHANGED <<proc, append, posted, crashes, session, turnVars, graphVars, taskVars, intVars>>

(* Every change of the session's state loads the session, returns when it  *)
(* is there already, refuses a state the change may not start from, and    *)
(* otherwise updates the row under the revision it loaded.                 *)
Transition(next, from, then, else) ==
    job' = IF session = next THEN [job EXCEPT !.pc = then]
           ELSE IF session \in from /\ next \in Edges[session]
           THEN [job EXCEPT !.pc = "cas", !.next = next, !.fresh = TRUE]
           ELSE [job EXCEPT !.pc = else]

(* Where the job goes on after the update; a conflict fails the command,   *)
(* except that propose_validated_graph turns it into an invalid graph.     *)
After(kind, next) ==
    CASE kind = "plan" /\ next = "planning"              -> "plan_begin"
      [] kind = "plan" /\ next = "validating"            -> "authority"
      [] kind = "apply" /\ next = "integrating"          -> "apply_build"
      [] kind = "apply" /\ next = "verifying"            -> "to_completed"
      [] kind = "apply" /\ next = "needs_attention"      -> "fail"
      [] OTHER                                           -> "ok"

Otherwise(next) == IF next = "validating" THEN "plan_finish" ELSE "fail"

(* Faulty variant: the row is updated whatever its revision is.            *)
TransitionSessionBlindly ==
    /\ proc = "up" /\ job.pc = "cas"
    /\ session' = job.next
    /\ job' = [job EXCEPT !.pc = After(job.cmd[1], job.next), !.next = "none", !.fresh = FALSE]
    /\ UNCHANGED <<jobFrame, cmd, turnVars, graphVars, taskVars, intVars>>

TransitionSession ==
    /\ proc = "up" /\ job.pc = "cas"
    /\ session' = IF job.fresh THEN job.next ELSE session
    /\ job' = [job EXCEPT !.pc = IF job.fresh THEN After(job.cmd[1], job.next)
                                              ELSE Otherwise(job.next),
                          !.next = "none", !.fresh = FALSE]
    /\ UNCHANGED <<jobFrame, cmd, turnVars, graphVars, taskVars, intVars>>

-----------------------------------------------------------------------------
(* request_conversation_turn. *)

(* begin_conversation_attempt: an interrupted attempt of an earlier process *)
(* was closed at start-up, so the row is new.                              *)
BeginAttempt(m) == attempt' = [attempt EXCEPT ![m] = "running"]

(* finish_conversation_attempt and finalize_conversation_failure close a   *)
(* running attempt once: "answer" stands for an answer and for an outcome  *)
(* that needs attention, "failed" for a failed or cancelled attempt.       *)
FinishAttempt(m, outcome) == attempt[m] = "running" /\ attempt' = [attempt EXCEPT ![m] = outcome]

FailAttempt(m) == attempt[m] = "running" /\ attempt' = [attempt EXCEPT ![m] = "failed"]

(* A stored outcome is reconciled again; otherwise a provider is selected  *)
(* (none may be eligible) and the attempt begun.                           *)
TurnCheck(m) ==
    /\ At("turn", "turn_check") /\ job.cmd[2] = m
    /\ IF attempt[m] \in Outcomes \cup {"failed"}
       THEN Goto("respond") /\ UNCHANGED attempt
       ELSE \/ BeginAttempt(m) /\ Goto("converse")
            \/ Goto("fail") /\ UNCHANGED attempt
    /\ UNCHANGED <<jobFrame, cmd, session, reqs, graphVars, taskVars, intVars>>

(* converse, then finalize_conversation_turn.                              *)
Converse(m) ==
    /\ At("turn", "converse") /\ job.cmd[2] = m
    /\ FailAttempt(m) \/ \E o \in Outcomes : FinishAttempt(m, o)
    /\ Goto("respond")
    /\ UNCHANGED <<jobFrame, cmd, session, reqs, graphVars, taskVars, intVars>>

TurnResult(m) == IF attempt[m] = "failed" THEN "fail" ELSE "ok"

(* reconcile_outcome, one transaction after the other. *)
AppendResponse(m) ==
    /\ At("turn", "respond") /\ job.cmd[2] = m
    /\ Goto(IF attempt[m] \in {"more", "candidate"} THEN "require" ELSE TurnResult(m))
    /\ UNCHANGED <<jobFrame, cmd, session, attempt, reqs, graphVars, taskVars, intVars>>

(* Faulty variant: a replay that finds the revision returns at once.       *)
RecordRequirementOnce(m) ==
    /\ At("turn", "require") /\ job.cmd[2] = m
    /\ reqs' = IF m \in ToSet(reqs) THEN reqs ELSE Append(reqs, m)
    /\ Goto(IF attempt[m] = "candidate" /\ m \notin ToSet(reqs) THEN "derive" ELSE "ok")
    /\ UNCHANGED <<jobFrame, cmd, session, attempt, graphVars, taskVars, intVars>>

(* The ordinal is the head's own on a replay, else one more; a row that is *)
(* stored with another ordinal is a conflict.                              *)
RecordRequirementRevision(m) ==
    /\ At("turn", "require") /\ job.cmd[2] = m
    /\ reqs' = IF m \in ToSet(reqs) THEN reqs ELSE Append(reqs, m)
    /\ Goto(IF m \in ToSet(reqs) /\ m # RequirementHead THEN "fail"
            ELSE IF attempt[m] = "candidate" THEN "derive" ELSE "ok")
    /\ UNCHANGED <<jobFrame, cmd, session, attempt, graphVars, taskVars, intVars>>

DerivePlan(m) ==
    /\ At("turn", "derive") /\ job.cmd[2] = m
    /\ cmd' = Derived(cmd, <<"plan", m>>)
    /\ Goto("ok")
    /\ UNCHANGED <<jobFrame, session, turnVars, graphVars, taskVars, intVars>>

-----------------------------------------------------------------------------
(* request_plan. *)

(* reconcile_completed_plan: what a finished revision says of the session. *)
PlanResult == [awaiting |-> "awaiting_approval", invalid |-> "needs_attention",
               approved |-> "running"]

FromPlanning == {"planning", "validating"}

ToPlanning ==
    Transition("planning", {"drafting", "needs_attention", "awaiting_approval"},
               "plan_begin", "fail")

PlanCheck(m) ==
    /\ At("plan", "plan_check") /\ job.cmd[2] = m
    /\ IF rev[m] \in DOMAIN PlanResult
       THEN Transition(PlanResult[rev[m]], FromPlanning, "ok", "fail")
       ELSE IF rev[m] = "superseded" THEN Goto("fail")
       ELSE ToPlanning
    /\ UNCHANGED <<jobFrame, cmd, session, turnVars, graphVars, taskVars, intVars>>

BeginGraphAttempt(m) ==
    /\ At("plan", "plan_begin") /\ job.cmd[2] = m
    /\ IF rev[m] # "none"
       THEN UNCHANGED <<rev, head>>
       ELSE /\ rev' = [Superseded(rev, {"planning", "awaiting", "approved"})
                          EXCEPT ![m] = "planning"]
            /\ head' = m
    /\ job' = [job EXCEPT !.pc = "propose", !.verdict = "invalid"]
    /\ UNCHANGED <<jobFrame, cmd, session, turnVars, taskVars, intVars>>

(* The planner returns a graph that collect_planner_response accepts, or   *)
(* an error.                                                               *)
Propose(m) ==
    /\ At("plan", "propose") /\ job.cmd[2] = m
    /\ \/ Goto("to_validating")
       \/ Goto("plan_finish")
    /\ UNCHANGED <<jobFrame, cmd, session, turnVars, graphVars, taskVars, intVars>>

ToValidating(m) ==
    /\ At("plan", "to_validating") /\ job.cmd[2] = m
    /\ Transition("validating", {"planning"}, "authority", "plan_finish")
    /\ UNCHANGED <<jobFrame, cmd, session, turnVars, graphVars, taskVars, intVars>>

(* validate_candidate_authority: the current requirement revision must be  *)
(* complete and of this goal.  Without a usable git repository the base    *)
(* commit is deferred to the approval.                                     *)
ValidateAuthority(m) ==
    /\ At("plan", "authority") /\ job.cmd[2] = m
    /\ IF RequirementHead = m /\ attempt[m] = "candidate"
       THEN job' = [job EXCEPT !.pc = "plan_finish", !.verdict = "awaiting"]
       ELSE Goto("plan_finish")
    /\ UNCHANGED <<jobFrame, cmd, session, turnVars, graphVars, taskVars, intVars>>

FinishGraphAttempt(m) ==
    /\ At("plan", "plan_finish") /\ job.cmd[2] = m
    /\ IF rev[m] = "planning"
       THEN /\ rev' = [rev EXCEPT ![m] = job.verdict]
            /\ Goto("from_planning")
       ELSE Goto("fail") /\ UNCHANGED rev
    /\ UNCHANGED <<jobFrame, cmd, session, turnVars, head, taskVars, intVars>>

FinishPlanning(m) ==
    /\ At("plan", "from_planning") /\ job.cmd[2] = m
    /\ Transition(PlanResult[job.verdict], FromPlanning, "ok", "fail")
    /\ UNCHANGED <<jobFrame, cmd, session, turnVars, graphVars, taskVars, intVars>>

-----------------------------------------------------------------------------
(* approve_graph. *)

(* The authority of the proposal is still current: requirement revision,   *)
(* and, as the environment has it, writable policy and repository HEAD.    *)
ApproveCheck(m) ==
    /\ At("approve", "approve_check") /\ job.cmd[2] = m
    /\ \/ /\ m \notin PlanOnly
          /\ RequirementHead = m
          /\ Goto("materialize")
       \/ Goto("fail")
    /\ UNCHANGED <<jobFrame, cmd, session, turnVars, graphVars, taskVars, intVars>>

(* The tasks of the proposal, the approval and the status of the revision, *)
(* in the transaction of the approval.                                     *)
CreateTasks(m) ==
    /\ rev' = [rev EXCEPT ![m] = "approved"]
    /\ task' = [task EXCEPT ![m] = "queued"]

(* Faulty variant: the message the graph was planned for need not be the   *)
(* latest.                                                                 *)
MaterializeStale(m) ==
    /\ At("approve", "materialize") /\ job.cmd[2] = m
    /\ IF task[m] # "none"
       THEN (Goto("approved_session") \/ Goto("fail")) /\ UNCHANGED <<rev, task>>
       ELSE IF head = m /\ rev[m] \in {"awaiting", "superseded"}
       THEN CreateTasks(m) /\ Goto("approved_session")
       ELSE Goto("fail") /\ UNCHANGED <<rev, task>>
    /\ UNCHANGED <<jobFrame, cmd, session, turnVars, head, res, overlap, intVars>>

(* approve_graph_and_materialize_tasks: a stored approval is replayed when *)
(* its authority is the same (a deferred one is promoted to the HEAD of    *)
(* the day, which may have moved); a new one is for the                    *)
(* current revision, awaiting approval, of the latest user message, and    *)
(* creates the tasks in the same transaction.                              *)
Materialize(m) ==
    /\ At("approve", "materialize") /\ job.cmd[2] = m
    /\ IF task[m] # "none"
       THEN (Goto("approved_session") \/ Goto("fail")) /\ UNCHANGED <<rev, task>>
       ELSE IF head = m /\ rev[m] = "awaiting" /\ LatestGoal = m
       THEN CreateTasks(m) /\ Goto("approved_session")
       ELSE Goto("fail") /\ UNCHANGED <<rev, task>>
    /\ UNCHANGED <<jobFrame, cmd, session, turnVars, head, res, overlap, intVars>>

ApprovedSession(m) ==
    /\ At("approve", "approved_session") /\ job.cmd[2] = m
    /\ Transition("running", {"awaiting_approval"}, "ok", "fail")
    /\ UNCHANGED <<jobFrame, cmd, session, turnVars, graphVars, taskVars, intVars>>

-----------------------------------------------------------------------------
(* The tasks, claimed by the scheduler while their graph is the approved   *)
(* head (TaskScheduler has how).                                           *)

StartTasks(m) ==
    /\ proc = "up" /\ task[m] = "queued" /\ head = m /\ rev[m] = "approved"
    /\ task' = [task EXCEPT ![m] = "running"]
    /\ UNCHANGED <<jobFrame, cmd, job, session, turnVars, graphVars, res, overlap, intVars>>

(* Tasks that fail leave the graph as one whose tasks are still running.   *)
EndTasks(m) ==
    /\ task[m] = "running"
    /\ task' = [task EXCEPT ![m] = "completed"]
    /\ UNCHANGED <<jobFrame, cmd, job, session, turnVars, graphVars, res, overlap, intVars>>

(* A resolution task belongs to the graph of its batch and depends on the  *)
(* tasks it consolidates; its worktree has the HEAD of the day.            *)
ResolutionDone(b) ==
    /\ proc = "up" /\ res[b] = "queued"
    /\ head = batch[b].rev /\ rev[head] = "approved" /\ task[head] = "completed"
    /\ res' = [res EXCEPT ![b] = "completed"]
    /\ UNCHANGED <<jobFrame, cmd, job, session, turnVars, graphVars, task, overlap, intVars>>

-----------------------------------------------------------------------------
(* request_integration, approve_integration, create_resolution_task. *)

Buildable == head # NoMessage /\ rev[head] = "approved"

Resolutions == {b \in Recorded : batch[b].rev = head /\ res[b] = "completed"}

(* build_request and preview: the latest completed resolution task alone,  *)
(* or every task of the graph, each with its evidence.  Whether the        *)
(* sources on disk and HEAD still are what the evidence says (clean) is up *)
(* to the user's repository; so is every later check against it.           *)
Candidate == IF Resolutions = {} THEN 0 ELSE Max(Resolutions)

EvidenceOk(clean) == clean /\ (Candidate # 0 \/ task[head] = "completed")

OverlapOk == Candidate # 0 \/ ~ overlap

(* The sealed preview; its hash covers the graph and the sources.          *)
NewBatch(clean) ==
    [st |-> IF EvidenceOk(clean) /\ OverlapOk THEN "preview" ELSE "blocked",
     rev |-> head, by |-> Candidate,
     resolvable |-> EvidenceOk(clean) /\ ~ OverlapOk]

SamePreview(b) ==
    Buildable /\ [NewBatch(TRUE) EXCEPT !.st = "applying"] = batch[b]

Preview(b) ==
    /\ At("preview", "preview") /\ job.cmd[2] = b
    /\ IF CurrentBatch = b THEN Goto("ok") /\ UNCHANGED batch
       ELSE \/ Goto("fail") /\ UNCHANGED batch
            \/ /\ Buildable
               /\ \E clean \in BOOLEAN :
                    /\ batch' = [x \in Batches |->
                          IF x = b THEN NewBatch(clean)
                          ELSE IF batch[x].st \in {"preview", "blocked"}
                          THEN [batch[x] EXCEPT !.st = "superseded"]
                          ELSE batch[x]]
                    /\ Goto(IF NewBatch(clean).st = "preview" THEN "ok" ELSE "to_attention")
    /\ UNCHANGED <<jobFrame, cmd, session, turnVars, graphVars, taskVars, applied>>

(* transition_session of integration.rs: any edge of the session will do.  *)
Move(kind, pc, next, then, else) ==
    /\ At(kind, pc)
    /\ Transition(next, SessionStates, then, else)
    /\ UNCHANGED <<jobFrame, cmd, session, turnVars, graphVars, taskVars, intVars>>

PreviewBlocked == Move("preview", "to_attention", "needs_attention", "ok", "fail")

(* Faulty variant: a failed application may be approved once more.         *)
ApplyCheckRetrying(b) ==
    /\ At("apply", "apply_check") /\ job.cmd[2] = b
    /\ IF CurrentBatch = b /\ batch[b].st \in {"preview", "needs_attention"}
       THEN /\ batch' = [batch EXCEPT ![b].st = "approved"]
            /\ Goto("to_integrating")
       ELSE /\ Goto(IF CurrentBatch = b /\ batch[b].st = "applied" THEN "ok" ELSE "fail")
            /\ UNCHANGED batch
    /\ UNCHANGED <<jobFrame, cmd, session, turnVars, graphVars, taskVars, applied>>

(* The batch must be current; an applied one is done.  The approval itself *)
(* is for a preview only.                                                  *)
ApplyCheck(b) ==
    /\ At("apply", "apply_check") /\ job.cmd[2] = b
    /\ IF CurrentBatch = b /\ batch[b].st = "preview"
       THEN /\ batch' = [batch EXCEPT ![b].st = "approved"]
            /\ Goto("to_integrating")
       ELSE /\ Goto(IF CurrentBatch = b /\ batch[b].st = "applied" THEN "ok" ELSE "fail")
            /\ UNCHANGED batch
    /\ UNCHANGED <<jobFrame, cmd, session, turnVars, graphVars, taskVars, applied>>

ToIntegrating == Move("apply", "to_integrating", "integrating", "apply_build", "fail")

(* build_request once more, then start_integration_application.            *)
StartApplication(b) ==
    /\ At("apply", "apply_build") /\ job.cmd[2] = b
    /\ \/ Goto("fail") /\ UNCHANGED batch
       \/ /\ Buildable
          /\ batch' = [batch EXCEPT ![b].st = "applying"]
          /\ Goto("applying")
    /\ UNCHANGED <<jobFrame, cmd, session, turnVars, graphVars, taskVars, applied>>

(* create_worktree: the worktree and the branch of a batch are made once.  *)
WorktreeFree(b) == applied[b] = 0

(* GitIntegrationManager::apply: the preview is recomputed and must be the *)
(* approved one, the integration worktree must not exist yet.              *)
ApplySources(b) ==
    /\ At("apply", "applying") /\ job.cmd[2] = b
    /\ \/ Goto("apply_failed") /\ UNCHANGED applied
       \/ /\ SamePreview(b) /\ WorktreeFree(b)
          /\ applied' = [applied EXCEPT ![b] = @ + 1]
          /\ Goto("apply_finish")
    /\ UNCHANGED <<jobFrame, cmd, session, turnVars, graphVars, taskVars, batch>>

FinishApplication(b) ==
    /\ At("apply", job.pc) /\ job.pc \in {"apply_finish", "apply_failed"} /\ job.cmd[2] = b
    /\ batch' = [batch EXCEPT ![b].st = IF job.pc = "apply_finish" THEN "applied"
                                                                   ELSE "needs_attention"]
    /\ Goto(IF job.pc = "apply_finish" THEN "to_verifying" ELSE "to_attention")
    /\ UNCHANGED <<jobFrame, cmd, session, turnVars, graphVars, taskVars, applied>>

ToVerifying == Move("apply", "to_verifying", "verifying", "to_completed", "fail")

ToCompleted == Move("apply", "to_completed", "completed", "ok", "fail")

ApplyNeedsAttention == Move("apply", "to_attention", "needs_attention", "fail", "fail")

(* The task, its place in the graph, its dependencies and its batch.       *)
InsertResolutionTask(b) == res' = [res EXCEPT ![b] = "queued"]

(* create_integration_resolution_task: one task per batch, only for the    *)
(* current batch, blocked by a common path or left by a failed application.*)
Resolve(b) ==
    /\ At("resolve", "resolve") /\ job.cmd[2] = b
    /\ IF CurrentBatch # b THEN Goto("fail") /\ UNCHANGED res
       ELSE IF res[b] # "none" THEN Goto("to_running") /\ UNCHANGED res
       ELSE IF \/ batch[b].st = "blocked" /\ batch[b].resolvable
               \/ batch[b].st = "needs_attention"
       THEN Goto("to_running") /\ InsertResolutionTask(b)
       ELSE Goto("fail") /\ UNCHANGED res
    /\ UNCHANGED <<jobFrame, cmd, session, turnVars, graphVars, task, overlap, intVars>>

ToRunning == Move("resolve", "to_running", "running", "ok", "fail")

-----------------------------------------------------------------------------
(* The process: a crash forgets what the loop and the job were doing; the  *)
(* next start reconciles attempts, commands and integrations, each in a    *)
(* transaction, before the loop runs.                                      *)

dbVars == <<queueVars, session, posted, turnVars, graphVars, taskVars, intVars>>

Crash ==
    /\ proc # "down" /\ crashes < MaxCrashes
    /\ proc' = "down" /\ crashes' = crashes + 1
    /\ append' = NoAppend /\ job' = NoJob
    /\ UNCHANGED dbVars

StartDaemon ==
    /\ proc = "down"
    /\ proc' = "attempts"
    /\ UNCHANGED <<dbVars, append, job, crashes>>

(* reconcile_interrupted_conversation_attempts: a provider call that may   *)
(* have been made is not made again.                                       *)
ReconcileAttempts ==
    /\ proc = "attempts"
    /\ attempt' = [m \in Messages |-> IF attempt[m] = "running" THEN "failed" ELSE attempt[m]]
    /\ cmd' = [c \in Cmds |-> IF c \in TurnCmds /\ cmd[c] \in {"pending", "claimed"}
                                  /\ attempt[c[2]] = "running"
                               THEN "failed" ELSE cmd[c]]
    /\ roots' = Unsettled(cmd')
    /\ proc' = "commands"
    /\ UNCHANGED <<session, posted, reqs, graphVars, taskVars, intVars,
                   append, job, crashes>>

RecoverCommands ==
    /\ proc = "commands"
    /\ cmd' = [c \in Cmds |-> IF c \in ReplaySafe /\ cmd[c] = "claimed"
                               THEN "pending" ELSE cmd[c]]
    /\ proc' = "integrations"
    /\ UNCHANGED <<roots, session, posted, turnVars, graphVars, taskVars, intVars,
                   append, job, crashes>>

(* reconcile_interrupted_integrations joins the batches with the state of  *)
(* the session once, then updates the session for each batch from that     *)
(* state: an edge that does not exist, or a second update, is an error,    *)
(* and the daemon does not start.                                          *)
Interrupted == {b \in Batches : batch[b].st \in {"approved", "applying"}}

Unclosed == {b \in Batches : batch[b].st = "applied" /\ session \in {"integrating", "verifying"}}

CanReconcile ==
    \/ session = "needs_attention"
    \/ /\ Cardinality(Interrupted \cup Unclosed) <= 1
       /\ Interrupted # {} => "needs_attention" \in Edges[session]

ReconciledSession ==
    IF Interrupted # {} THEN "needs_attention"
    ELSE IF Unclosed # {} THEN "completed"
    ELSE session

(* Faulty variant: an interrupted application is taken for a success.      *)
ReconcileAsApplied ==
    /\ proc = "integrations" /\ CanReconcile
    /\ proc' = "up"
    /\ batch' = [b \in Batches |-> IF batch[b].st = "applying"
                                   THEN [batch[b] EXCEPT !.st = "applied"] ELSE batch[b]]
    /\ session' = ReconciledSession
    /\ UNCHANGED <<queueVars, posted, turnVars, graphVars, taskVars, applied,
                   append, job, crashes>>

ReconcileIntegrations ==
    /\ proc = "integrations"
    /\ \/ /\ ~ CanReconcile
          /\ proc' = "down"
          /\ UNCHANGED <<batch, session>>
       \/ /\ CanReconcile
          /\ proc' = "up"
          /\ batch' = [b \in Batches |-> IF b \in Interrupted
                                         THEN [batch[b] EXCEPT !.st = "needs_attention"]
                                         ELSE batch[b]]
          /\ session' = ReconciledSession
    /\ UNCHANGED <<queueVars, posted, turnVars, graphVars, taskVars, applied,
                   append, job, crashes>>

-----------------------------------------------------------------------------
Client ==
    \/ \E m \in Messages : SendMessage(m) \/ ApproveGraph(m)
    \/ \E b \in Batches : RequestIntegration(b) \/ CreateResolutionTask(b)
    \/ \E b \in Batches : \E k \in Approvals[b] : ApproveIntegration(b, k)

Loop ==
    \/ ClaimAppend
    \/ \E m \in Messages : AppendNew(m) \/ AppendReplayed(m) \/ FinishAppend(m)

Job ==
    \/ ClaimOrchestration \/ FinishOrchestration \/ TransitionSession
    \/ \E m \in Messages :
          \/ TurnCheck(m) \/ Converse(m) \/ AppendResponse(m)
          \/ RecordRequirementRevision(m) \/ DerivePlan(m)
          \/ PlanCheck(m) \/ BeginGraphAttempt(m) \/ Propose(m) \/ ToValidating(m)
          \/ ValidateAuthority(m) \/ FinishGraphAttempt(m) \/ FinishPlanning(m)
          \/ ApproveCheck(m) \/ Materialize(m) \/ ApprovedSession(m)
    \/ \E b \in Batches :
          \/ Preview(b) \/ ApplyCheck(b) \/ StartApplication(b) \/ ApplySources(b)
          \/ FinishApplication(b) \/ Resolve(b)
    \/ PreviewBlocked \/ ToIntegrating \/ ToVerifying \/ ToCompleted
    \/ ApplyNeedsAttention \/ ToRunning

Startup ==
    StartDaemon \/ ReconcileAttempts \/ RecoverCommands \/ ReconcileIntegrations

Workers ==
    \/ \E m \in Messages : StartTasks(m) \/ EndTasks(m)
    \/ \E b \in Batches : ResolutionDone(b)

Next == Client \/ Loop \/ Job \/ Startup \/ Workers \/ Crash

Spec == Init /\ [][Next]_vars

-----------------------------------------------------------------------------
(* A posted message never loses its follow-ups: its conversation turn is   *)
(* queued with it (sessions.rs:247), and a turn that completed with a task *)
(* candidate has queued the plan, whatever crashed in between.             *)
FollowUpsQueued ==
    \A m \in Messages :
        /\ m \in ToSet(posted) => cmd[<<"turn", m>>] # "none"
        /\ cmd[<<"turn", m>>] = "completed" =>
              (attempt[m] = "candidate" => cmd[<<"plan", m>>] # "none")

(* While the daemon runs, a conversation attempt is marked running only    *)
(* while the planning job is at it, and a command is claimed only while    *)
(* the loop or the job is at it, or it waits for manual reconciliation:    *)
(* nothing that a crash interrupted stays open (lib.rs:450).               *)
NothingLeftOpen ==
    proc = "up" =>
        /\ \A m \in Messages : attempt[m] = "running" => job.cmd = <<"turn", m>>
        /\ \A c \in ReplaySafe : cmd[c] = "claimed" => c \in {job.cmd, <<"append", append[1]>>}

(* Across crashes, nothing a user asked for is dropped and nothing is left *)
(* half done.                                                              *)
NothingLost == FollowUpsQueued /\ NothingLeftOpen

(* At most one graph is being planned, awaits approval or is approved, and *)
(* it is the head (graphs.rs:168): the scheduler never has two graphs.     *)
OneLiveGraph ==
    \A m \in Messages : rev[m] \in {"planning", "awaiting", "approved"} => head = m

(* A session that awaits approval has the proposal to approve, or one that *)
(* was just approved: a message that withdraws a proposal also moves the   *)
(* session, even when the planning job has loaded the session before       *)
(* (sessions.rs:406, planning.rs:632).                                     *)
AwaitingShowsProposal ==
    session = "awaiting_approval" =>
        head # NoMessage /\ rev[head] \in {"awaiting", "approved"}

(* The session and its graph agree: one graph at most is in force, and the *)
(* session asks for the approval of that one.                              *)
PlanCoherent == OneLiveGraph /\ AwaitingShowsProposal

(* Tasks are created only from a graph whose goal is the latest message of *)
(* the user and whose requirement revision is current.                     *)
MaterialisedWhenWanted ==
    [][\A m \in Messages : task[m] = "none" /\ task'[m] # "none" =>
           m = LatestGoal /\ m = RequirementHead /\ head = m]_vars

(* A session is completed only by an integration that was applied.         *)
CompletedByApplication ==
    session \in {"verifying", "completed"} => \E b \in Batches : batch[b].st = "applied"

(* "Integration application is never blindly replayed"                     *)
(* (operations.md:191): a batch whose application was interrupted or       *)
(* failed is never approved, applied or changed again (integrations.rs:513).*)
NeverBlindlyReplayed ==
    [][\A b \in Batches : batch[b].st = "needs_attention" => batch'[b] = batch[b]]_vars

(* What is recorded as applied was applied, once, from the approved graph. *)
AppliedOnce ==
    \A b \in Batches : batch[b].st = "applied" => applied[b] = 1

(* What the records say of an integration is what the repository holds:    *)
(* applied once, and the session completed by that only.                   *)
IntegrationHonest == CompletedByApplication /\ AppliedOnce

(* A start of the daemon reconciles what the crash left, it does not fail. *)
StartupReconciles == proc = "integrations" => CanReconcile

-----------------------------------------------------------------------------
(* The inductive invariant behind NothingLost, PlanCoherent,               *)
(* IntegrationHonest and the two action properties.                        *)

BatchStates == {"preview", "blocked", "superseded", "approved", "applying", "applied",
                "needs_attention"}

Jobs == [cmd : OrchestrationCmds \cup {<<"none">>}, pc : JobPcs,
         next : SessionStates \cup {"none"}, fresh : BOOLEAN,
         verdict : {"none", "invalid", "awaiting"}]

(* The tables and the memory of the process are well formed.  The order in *)
(* which commands were submitted (roots) only chooses among the pending.   *)
TypeOK ==
    /\ proc \in {"down", "attempts", "commands", "integrations", "up"}
    /\ cmd \in [Cmds -> CmdStates]
    /\ append \in (Messages \X {"claimed", "completed", "failed"}) \cup {NoAppend}
    /\ job \in Jobs
    /\ session \in SessionStates
    /\ posted \in Seq(Messages) /\ reqs \in Seq(Messages)
    /\ attempt \in [Messages -> {"none", "running", "failed"} \cup Outcomes]
    /\ rev \in [Messages -> {"none", "planning", "awaiting", "invalid", "approved", "superseded"}]
    /\ head \in Messages \cup {NoMessage}
    /\ task \in [Messages -> {"none", "queued", "running", "completed"}]
    /\ batch \in [Batches -> {NoBatch} \cup [st : BatchStates, rev : Messages,
                                            by : Batches \cup {0}, resolvable : BOOLEAN]]
    /\ res \in [Batches -> {"none", "queued", "completed"}]
    /\ applied \in [Batches -> {0, 1}]
    /\ overlap \in BOOLEAN /\ crashes \in 0 .. MaxCrashes

Ends == {"cas", "ok", "fail"}

(* Where a job of each kind can be. *)
PcsOf ==
    [none    |-> {"idle"},
     turn    |-> {"turn_check", "converse", "respond", "require", "derive", "ok", "fail"},
     plan    |-> {"plan_check", "plan_begin", "propose", "to_validating", "authority",
                  "plan_finish", "from_planning"} \cup Ends,
     approve |-> {"approve_check", "materialize", "approved_session"} \cup Ends,
     preview |-> {"preview", "to_attention"} \cup Ends,
     apply   |-> {"apply_check", "to_integrating", "apply_build", "applying", "apply_finish",
                  "apply_failed", "to_verifying", "to_completed", "to_attention"} \cup Ends,
     resolve |-> {"resolve", "to_running"} \cup Ends]

(* Only a serving process has something in its hands, and what the job has *)
(* is claimed.                                                             *)
JobAtWork ==
    /\ proc # "up" => job = NoJob /\ append = NoAppend
    /\ job.cmd = <<"none">> => job = NoJob
    /\ job # NoJob => cmd[job.cmd] = "claimed"
    /\ job.pc \in PcsOf[job.cmd[1]]

(* What a start has reconciled so far stays reconciled. *)
StartCloses ==
    /\ proc \in {"commands", "integrations"} => \A m \in Messages : attempt[m] # "running"
    /\ proc = "integrations" => \A c \in ReplaySafe : cmd[c] # "claimed"

(* A turn runs its attempt where it waits for the provider, and does not   *)
(* complete before the plan it calls for is queued.                        *)
TurnHeld ==
    job.cmd[1] = "turn" =>
        /\ attempt[job.cmd[2]] = "running" <=> job.pc = "converse"
        /\ job.pc = "ok" /\ attempt[job.cmd[2]] = "candidate"
              => cmd[<<"plan", job.cmd[2]>>] # "none"

Updating(next) == job.pc = "cas" /\ job.next = next

Drawing == {"plan_begin", "propose", "to_validating", "authority", "plan_finish",
            "from_planning"}

(* While a plan is drawn up only a message may move the session, back to   *)
(* drafting; an update that would ask for approval is still based on the   *)
(* state and the proposal it was loaded with, or it is no longer fresh.    *)
PlanHeld ==
    /\ ~ Updating("none") /\ (Updating("validating") => job.cmd[1] = "plan")
    /\ job.pc \in Drawing \/ Updating("validating")
          => session \in {"drafting", "planning", "validating"}
    /\ job.pc \in Drawing \ {"plan_begin"} \/ Updating("validating") => job.verdict # "none"
    /\ job.pc = "from_planning" /\ job.verdict = "awaiting" /\ session \in FromPlanning
          => rev[job.cmd[2]] = "awaiting"
    /\ Updating("awaiting_approval") /\ job.fresh
          => /\ job.cmd[1] = "plan" /\ session \in FromPlanning
             /\ rev[job.cmd[2]] = "awaiting"

(* Requirements change only at the hands of the one job.                   *)
ApproveHeld == job.pc = "materialize" => RequirementHead = job.cmd[2]

(* An application works on the batch it approved, and moves the session    *)
(* on only when that one is applied.                                       *)
ApplyHeld ==
    /\ job.pc \in {"to_integrating", "apply_build"} \/ Updating("integrating")
          => job.cmd[1] = "apply" /\ batch[job.cmd[2]].st = "approved"
    /\ job.pc \in {"applying", "apply_finish", "apply_failed"}
          => batch[job.cmd[2]].st = "applying"
    /\ job.pc = "apply_finish" => applied[job.cmd[2]] = 1
    /\ job.pc \in {"to_verifying", "to_completed"} \/ Updating("verifying") \/ Updating("completed")
          => job.cmd[1] = "apply" /\ batch[job.cmd[2]].st = "applied"

(* Integrations are requested one after the other, so a recorded batch is  *)
(* never recorded again.                                                   *)
OneRequestAtATime ==
    /\ \A a, b \in Batches :
          a < b /\ cmd[<<"preview", b>>] # "none" => cmd[<<"preview", a>>] \in Settled
    /\ \A b \in Batches : batch[b].st # "none" => cmd[<<"preview", b>>] # "none"

IInv ==
    /\ TypeOK /\ JobAtWork /\ StartCloses
    /\ TurnHeld /\ PlanHeld /\ ApproveHeld /\ ApplyHeld /\ OneRequestAtATime
    /\ NothingLost /\ PlanCoherent /\ IntegrationHonest

====

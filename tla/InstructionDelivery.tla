-------------------------- MODULE InstructionDelivery --------------------------
(***************************************************************************)
(* Messages for one task on their way from a client to the provider: the   *)
(* append_message commands of client_commands.rs, their processing by the   *)
(* daemon loop (orchestrator-daemon/src/commands.rs), the ordered           *)
(* instructions they become (instructions.rs, sessions.rs), and the job    *)
(* that hands them to the provider (execution.rs), across crashes and      *)
(* restarts of the daemon.                                                 *)
(*                                                                         *)
(* One daemon process serves at a time (DaemonLease) and one job runs the  *)
(* task at a time (TaskScheduler).  A message, its command and the         *)
(* instruction it becomes share the client's message id.  A client that    *)
(* repeats a submission under its idempotency key gets the stored command  *)
(* back, which changes nothing.                                            *)
(***************************************************************************)
EXTENDS Naturals, Sequences, FiniteSetsExt

CONSTANTS
    Messages,      \* messages clients may send to the task
    Rank,          \* message -> its place in (requested_at, command_id)
    Nobody,        \* the loop is between two commands
    MaxFaults      \* how often a crash or a lost claim may happen (a bound)

ASSUME InstructionConstants ==
    /\ IsFiniteSet(Messages)
    /\ Rank \in [Messages -> Nat]
    /\ \A m, n \in Messages : Rank[m] = Rank[n] => m = n
    /\ Nobody \notin Messages
    /\ MaxFaults \in Nat

VARIABLES
    up,        \* a daemon process is serving
    cmd,       \* client_commands.state, by message
    handling,  \* the command the loop has claimed and how far it is
    instr,     \* task_instructions.state, by message
    ordinal,   \* task_instructions.ordinal, 0 when there is no row
    task,      \* tasks.state
    job,       \* where the job of the task is
    batch,     \* the instructions this round of the job holds
    included,  \* history: instructions of a round that passed the gate
    faults,    \* crashes and lost claims so far
    skew       \* whether the system clock may be set back before a restart

vars == <<up, cmd, handling, instr, ordinal, task, job, batch, included, faults>>

commandVars == <<cmd, handling>>
jobVars == <<task, job, batch, included>>
instrVars == <<instr, ordinal>>

-----------------------------------------------------------------------------
CommandStates == {"unsent", "pending", "claimed", "completed", "failed"}

InstructionStates == {"none", "queued", "applying", "applied", "interrupted"}

TaskStates == {"queued", "analyzing", "planned", "running", "verifying",
               "completed", "failed"}

(* queue_instruction_in_transaction refuses every other state. *)
Accepting == {"queued", "analyzing", "planned", "running"}

JobPcs == {"none", "start", "collect", "execute", "apply", "interrupt", "drain",
           "verifying", "failing", "err"}

Idle == [msg |-> Nobody, step |-> "idle"]

Init ==
    /\ up = TRUE
    /\ cmd = [m \in Messages |-> "unsent"]
    /\ handling = Idle
    /\ instr = [m \in Messages |-> "none"]
    /\ ordinal = [m \in Messages |-> 0]
    /\ task = "queued"
    /\ job = "none"
    /\ batch = << >>
    /\ included = {}
    /\ faults = 0
    /\ skew \in BOOLEAN

-----------------------------------------------------------------------------
(* Clients and the command loop. *)

(* submit_client_command_with_invocation, through the daemon's endpoint.   *)
Submit(m) ==
    /\ up
    /\ cmd[m] = "unsent"
    /\ cmd' = [cmd EXCEPT ![m] = "pending"]
    /\ UNCHANGED <<up, handling, instrVars, jobVars, faults>>

(* claim_next_session_client_command: the oldest pending one. *)
ClaimCommand(m) ==
    /\ up
    /\ handling = Idle
    /\ cmd[m] = "pending"
    /\ \A n \in Messages : cmd[n] = "pending" => Rank[m] <= Rank[n]
    /\ cmd' = [cmd EXCEPT ![m] = "claimed"]
    /\ handling' = [msg |-> m, step |-> "execute"]
    /\ UNCHANGED <<up, instrVars, jobVars, faults>>

(* queue_instruction_in_transaction *)
NextOrdinal == Max({ordinal[m] : m \in Messages}) + 1

(* append_message: the message of an earlier attempt is recognised, its    *)
(* instruction was inserted in the same transaction; otherwise both are    *)
(* inserted, or the task no longer accepts instructions and nothing is.    *)
ExecuteCommand(m) ==
    /\ handling = [msg |-> m, step |-> "execute"]
    /\ \/ /\ ordinal[m] # 0
          /\ handling' = [msg |-> m, step |-> "completed"]
          /\ UNCHANGED instrVars
       \/ /\ ordinal[m] = 0
          /\ task \in Accepting
          /\ instr' = [instr EXCEPT ![m] = "queued"]
          /\ ordinal' = [ordinal EXCEPT ![m] = NextOrdinal]
          /\ handling' = [msg |-> m, step |-> "completed"]
       \/ /\ ordinal[m] = 0
          /\ task \notin Accepting
          /\ handling' = [msg |-> m, step |-> "failed"]
          /\ UNCHANGED instrVars
    /\ UNCHANGED <<up, cmd, jobVars, faults>>

(* complete_client_command or fail_client_command *)
FinishCommand(m) ==
    /\ handling.msg = m
    /\ handling.step \in {"completed", "failed"}
    /\ cmd' = [cmd EXCEPT ![m] = handling.step]
    /\ handling' = Idle
    /\ UNCHANGED <<up, instrVars, jobVars, faults>>

-----------------------------------------------------------------------------
(* The job. *)

(* The scheduler claims the queued task and spawns the job. *)
StartJob ==
    /\ up
    /\ task = "queued"
    /\ job = "none"
    /\ job' = "start"
    /\ UNCHANGED <<up, commandVars, instrVars, task, batch, included, faults>>

(* The three transitions before the first round. *)
Advance ==
    /\ job = "start"
    /\ \/ task = "queued" /\ task' = "analyzing" /\ job' = "start"
       \/ task = "analyzing" /\ task' = "planned" /\ job' = "start"
       \/ task = "planned" /\ task' = "running" /\ job' = "collect"
    /\ UNCHANGED <<up, commandVars, instrVars, batch, included, faults>>

Waiting(m) == instr[m] \in {"queued", "interrupted"}

(* Faulty variant: neither ordered nor exhaustive.                         *)
CollectAny ==
    /\ job = "collect"
    /\ \/ \E m \in Messages :
            /\ Waiting(m)
            /\ instr' = [instr EXCEPT ![m] = "applying"]
            /\ batch' = Append(batch, m)
            /\ UNCHANGED job
       \/ /\ job' = "execute"
          /\ UNCHANGED <<instr, batch>>
    /\ UNCHANGED <<up, commandVars, ordinal, task, included, faults>>

(* claim_next_task_instruction, until it finds none. *)
Collect ==
    /\ job = "collect"
    /\ \/ \E m \in Messages :
            /\ Waiting(m)
            /\ \A n \in Messages : Waiting(n) => ordinal[m] <= ordinal[n]
            /\ instr' = [instr EXCEPT ![m] = "applying"]
            /\ batch' = Append(batch, m)
            /\ UNCHANGED job
       \/ /\ \A m \in Messages : ~ Waiting(m)
          /\ job' = "execute"
          /\ UNCHANGED <<instr, batch>>
    /\ UNCHANGED <<up, commandVars, ordinal, task, included, faults>>

(* The report passed the completion gate, or the executor, the report or   *)
(* its persistence failed.                                                 *)
ExecutionPasses ==
    /\ job = "execute"
    /\ job' = "apply"
    /\ included' = included \cup {batch[i] : i \in 1 .. Len(batch)}
    /\ UNCHANGED <<up, commandVars, instrVars, task, batch, faults>>

ExecutionFails ==
    /\ job = "execute"
    /\ job' = "interrupt"
    /\ UNCHANGED <<up, commandVars, instrVars, task, batch, included, faults>>

(* finish_instructions: one transaction per instruction. *)
FinishInstructions ==
    /\ job \in {"apply", "interrupt"}
    /\ \/ /\ batch # << >>
          /\ instr[Head(batch)] = "applying"
          /\ instr' = [instr EXCEPT ![Head(batch)] =
                          IF job = "apply" THEN "applied" ELSE "interrupted"]
          /\ batch' = Tail(batch)
          /\ UNCHANGED job
       \/ /\ batch = << >>
          /\ job' = IF job = "apply" THEN "drain" ELSE "failing"
          /\ UNCHANGED <<instr, batch>>
    /\ UNCHANGED <<up, commandVars, ordinal, task, included, faults>>

Pending(m) == instr[m] \in {"queued", "applying", "interrupted"}

(* Faulty variant: only claimed instructions hold the task back.           *)
DrainIgnoringQueued ==
    /\ job = "drain"
    /\ task = "running"
    /\ \/ /\ \A m \in Messages : instr[m] # "applying"
          /\ task' = "verifying"
          /\ job' = "verifying"
       \/ /\ \E m \in Messages : instr[m] = "applying"
          /\ job' = "collect"
          /\ UNCHANGED task
    /\ UNCHANGED <<up, commandVars, instrVars, batch, included, faults>>

(* transition_running_to_verifying_if_instructions_drained, in one         *)
(* transaction with the test; FALSE means another round.                   *)
Drain ==
    /\ job = "drain"
    /\ task = "running"
    /\ \/ /\ \A m \in Messages : ~ Pending(m)
          /\ task' = "verifying"
          /\ job' = "verifying"
       \/ /\ \E m \in Messages : Pending(m)
          /\ job' = "collect"
          /\ UNCHANGED task
    /\ UNCHANGED <<up, commandVars, instrVars, batch, included, faults>>

EndTask ==
    /\ \/ job = "verifying" /\ task' = "completed"
       \/ job = "failing" /\ task' = "failed"
    /\ job' = "none"
    /\ UNCHANGED <<up, commandVars, instrVars, batch, included, faults>>

-----------------------------------------------------------------------------
(* Faults. *)

(* renew_schedule_claim fails while the executor runs: the job ends there  *)
(* with an error, its instructions left as they are.                       *)
LoseClaim ==
    /\ faults < MaxFaults
    /\ faults' = faults + 1
    /\ job = "execute"
    /\ job' = "err"
    /\ batch' = << >>
    /\ UNCHANGED <<up, commandVars, instrVars, task, included>>

(* reap_finished_tasks meets the error, once the tick has processed its    *)
(* command: the loop and with it the process end.                          *)
ReapError ==
    /\ job = "err"
    /\ handling = Idle
    /\ up' = FALSE
    /\ job' = "none"
    /\ UNCHANGED <<commandVars, instrVars, task, batch, included, faults>>

(* The process is gone, and with it what it held in memory. *)
Crash ==
    /\ faults < MaxFaults
    /\ faults' = faults + 1
    /\ up
    /\ up' = FALSE
    /\ handling' = Idle
    /\ job' = "none"
    /\ batch' = << >>
    /\ UNCHANGED <<cmd, instrVars, task, included>>

(* Faulty variant: nothing is reconciled.                                  *)
RestartForgetting ==
    /\ ~ up
    /\ up' = TRUE
    /\ UNCHANGED <<commandVars, instrVars, jobVars, faults>>

(* reconcile_daemon_startup: recover_stale_client_commands requeues what   *)
(* was claimed before the start; a claim stamped later, by a clock since   *)
(* set back, is StillClaimed.  Instructions are not touched.               *)
Restart ==
    /\ ~ up
    /\ up' = TRUE
    /\ \/ cmd' = [m \in Messages |-> IF cmd[m] = "claimed" THEN "pending" ELSE cmd[m]]
       \/ skew /\ cmd' = cmd
    /\ UNCHANGED <<handling, instrVars, jobVars, faults>>

(* `colay resume` of a task that no claim covers and that has not started  *)
(* running (TaskScheduler has the steps).                                  *)
Requeue ==
    /\ up
    /\ job = "none"
    /\ task \in {"analyzing", "planned"}
    /\ task' = "queued"
    /\ UNCHANGED <<up, commandVars, instrVars, job, batch, included, faults>>

JobStep ==
    \/ StartJob \/ Advance \/ Collect \/ FinishInstructions \/ Drain \/ EndTask
    \/ ExecutionPasses \/ ExecutionFails \/ ReapError

LoopStep == \E m \in Messages : ClaimCommand(m) \/ ExecuteCommand(m) \/ FinishCommand(m)

Next ==
    \/ LoopStep \/ JobStep \/ LoseClaim \/ Crash \/ Restart \/ Requeue
    \/ \E m \in Messages : Submit(m)

Spec == Init /\ [][Next /\ UNCHANGED skew]_<<vars, skew>>

(* The loop's command tick fires, the job goes on (every executor run has  *)
(* a timeout), and a daemon that died is started again by the next client. *)
FairSpec == Spec /\ WF_vars(LoopStep) /\ WF_vars(JobStep) /\ WF_vars(Restart)

-----------------------------------------------------------------------------
(* Properties. *)

(* The tables and the memory of the process are well formed; ordinals      *)
(* count the instructions of the task.                                     *)
TypeOK ==
    /\ up \in BOOLEAN
    /\ cmd \in [Messages -> CommandStates]
    /\ handling \in [msg : Messages, step : {"execute", "completed", "failed"}] \cup {Idle}
    /\ instr \in [Messages -> InstructionStates]
    /\ ordinal \in [Messages -> 0 .. Cardinality(Messages)]
    /\ task \in TaskStates
    /\ job \in JobPcs
    /\ batch \in Seq(Messages)
    /\ included \subseteq Messages
    /\ faults \in 0 .. MaxFaults

(* A task reaches verification only "when no instruction can still be      *)
(* delivered" (records.rs:462): whatever arrives while it finishes, every  *)
(* accepted instruction has been applied by then.                          *)
DrainedBeforeVerifying ==
    task \in {"verifying", "completed"} =>
        \A m \in Messages : instr[m] \in {"none", "applied"}

(* The client's view and the queue agree across crashes and replays: a     *)
(* completed command has its one instruction, a failed or unprocessed one  *)
(* has none, and no two instructions share an ordinal.                     *)
CommandMatchesInstruction ==
    /\ \A m \in Messages :
        /\ cmd[m] = "completed" => ordinal[m] # 0
        /\ cmd[m] \in {"unsent", "failed"} => ordinal[m] = 0
        /\ (instr[m] = "none") <=> (ordinal[m] = 0)
    /\ \A m, n \in Messages : ordinal[m] = ordinal[n] /\ ordinal[m] # 0 => m = n

(* An accepted instruction keeps its place and is never accepted again,    *)
(* however often its command is replayed: once applied it stays applied.   *)
AcceptedOnce ==
    [][\A m \in Messages : ordinal[m] # 0 =>
        /\ ordinal'[m] = ordinal[m]
        /\ instr[m] = "applied" => instr'[m] = "applied"]_vars

(* "instruction included in verified task execution" (execution.rs:456):   *)
(* an instruction is marked applied only if a round that carried it        *)
(* passed the completion gate.                                             *)
AppliedWasIncluded ==
    \A m \in Messages : instr[m] = "applied" => m \in included

(* Instructions reach the provider in order: when one has been applied, so *)
(* has every one accepted before it.                                       *)
AppliedInOrder ==
    \A m, n \in Messages :
        /\ ordinal[m] # 0 /\ ordinal[m] < ordinal[n]
        /\ instr[n] = "applied"
        => instr[m] = "applied"

(* An applied instruction was in a round that passed the gate, after those *)
(* accepted before it; a client is told of exactly the instructions that   *)
(* were accepted, and none of them is left when the task is verified.      *)
DeliveredFaithfully ==
    /\ AppliedWasIncluded /\ AppliedInOrder
    /\ CommandMatchesInstruction /\ DrainedBeforeVerifying

(* Every submitted command is answered, also when the daemon dies in the   *)
(* middle of it and another one starts, unless the clock is set back: then *)
(* the claim looks younger than the restart that should requeue it.        *)
CommandSettles ==
    <>[](skew \/ \A m \in Messages : cmd[m] \in {"unsent", "completed", "failed"})

(* Unless a fault strands the task, an accepted instruction is applied or  *)
(* the task fails.                                                         *)
AcceptedIsApplied ==
    <>[](\/ task = "failed" \/ faults > 0
         \/ \A m \in Messages : instr[m] \in {"none", "applied"})

(* "Restart reconciliation requeues an interrupted instruction safely"     *)
(* (docs/architecture.md:105): a restart leaves no instruction claimed by  *)
(* a job that died with the previous process.                              *)
RestartRequeuesInstruction ==
    [][~ up /\ up' => \A m \in Messages : instr'[m] # "applying"]_vars

-----------------------------------------------------------------------------
(* The inductive invariant behind DeliveredFaithfully and AcceptedOnce. *)

Round == {"collect", "execute", "apply", "drain"}

(* The claimed instructions of a task at work are those its job holds, in  *)
(* the order of their ordinals.                                            *)
RoundHolds ==
    /\ job \in Round =>
        \A m \in Messages :
            instr[m] = "applying" <=> \E i \in 1 .. Len(batch) : batch[i] = m
    /\ \A i \in 1 .. Len(batch) : ordinal[batch[i]] # 0
    /\ \A i, j \in 1 .. Len(batch) : i < j => ordinal[batch[i]] < ordinal[batch[j]]
    /\ job \notin {"collect", "execute", "apply", "interrupt"} => batch = << >>

(* None of them was claimed ahead of one that still waits. *)
ClaimedInOrder ==
    job \in Round =>
        \A m, n \in Messages :
            ordinal[m] # 0 /\ ordinal[m] < ordinal[n] /\ instr[n] = "applying" => ~ Waiting(m)

(* What is about to be marked applied was in the round that passed. *)
RoundIncluded == job = "apply" => \A i \in 1 .. Len(batch) : batch[i] \in included

JobMatchesTask ==
    /\ job = "start" => task \in {"queued", "analyzing", "planned"}
    /\ job \in Round \cup {"interrupt", "failing", "err"} => task = "running"
    /\ job = "verifying" => task = "verifying"

(* A task that never ran has no claimed instruction, so a round left behind*)
(* by a crash is never mixed with a new one.                               *)
NothingClaimedYet ==
    task \in {"queued", "analyzing", "planned"} =>
        \A m \in Messages : instr[m] \in {"none", "queued"}

(* What the loop has in its hands. *)
LoopHolds ==
    /\ ~ up => handling = Idle
    /\ handling # Idle => cmd[handling.msg] = "claimed"
    /\ handling.step = "completed" => ordinal[handling.msg] # 0
    /\ handling.step = "failed" => ordinal[handling.msg] = 0

(* The ordinals count the instructions, so there is a greatest one. *)
OrdinalsCounted ==
    /\ \A m \in Messages :
        ordinal[m] <= Cardinality({n \in Messages : ordinal[n] # 0})
    /\ \A k \in Messages : \E m \in Messages : \A n \in Messages : ordinal[n] <= ordinal[m]

IInv ==
    /\ TypeOK
    /\ RoundHolds /\ ClaimedInOrder /\ RoundIncluded
    /\ JobMatchesTask /\ NothingClaimedYet
    /\ LoopHolds /\ OrdinalsCounted
    /\ DeliveredFaithfully
=============================================================================

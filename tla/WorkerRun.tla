---------------------------- MODULE WorkerRun ----------------------------
(* One run of a provider for a task: OfficialCliTaskExecutor::execute and   *)
(* the tasks it depends on.  Four of them run concurrently:                 *)
(*   - the provider process with its descendants (external);                *)
(*   - the process supervisor: the capture of the output, which publishes   *)
(*     frames on a broadcast channel that overwrites its oldest entry, and  *)
(*     the monitor, which waits for the exit, a stop or the deadline;       *)
(*   - the driver of the adapter runtime, which forwards the frames to a    *)
(*     bounded channel it never waits on, talks the App Server protocol     *)
(*     and may fall back to a second process;                               *)
(*   - the executor, which parses the events and decides the outcome.       *)
(* What a frame says is abstracted to the effect it has on these tasks.     *)
EXTENDS Integers, Sequences

CONSTANTS
    BusCap,         \* capacity of the broadcast channel (64 in the code)
    QueueCap,       \* capacity of the channel to the executor (64)
    MaxForwarded,   \* MAX_FORWARDED_EVENTS (4096)
    MaxFrames       \* bound: frames a process of each transport writes

(***************************************************************************)
(* Frames.  A static transport writes events of the executor directly; an  *)
(* Agy process writes text only and completes by exiting; an App Server    *)
(* writes protocol messages the driver turns into events.                  *)
(***************************************************************************)
StructuredFrames == {"output", "completed", "error", "quota", "malformed"}
AgyFrames == {"output", "malformed"}
ServerFrames == {"response", "bad", "item", "notice", "turn_completed",
                 "turn_failed"}
Transports == {"structured", "agy", "server"}
FramesOf(t) == CASE t = "structured" -> StructuredFrames
                 [] t = "agy" -> AgyFrames
                 [] t = "server" -> ServerFrames

VARIABLES
    proc,       \* the process the driver talks to
    bus,        \* its broadcast channel: the events, and how many were lost
    drive,      \* the driver: transport, what it is doing, the protocol
    job,        \* ProcessJob: queue to the executor, loss, cancellation, result
    exec,       \* the executor: what it has seen, the outcome
    cancelled,  \* the cancellation token of the task
    history     \* what happened to the processes of this run

vars == <<proc, bus, drive, job, exec, cancelled, history>>

----------------------------------------------------------------------------
(* ProcessSupervisor::start: a fresh child, its capture and its monitor.  A *)
(* static invocation hands the work over on stdin with the start.           *)
Started ==
    [child |-> "running", tree |-> FALSE, wrote |-> 0, truncated |-> FALSE,
     stop |-> FALSE, monitor |-> "watching", reason |-> "none",
     treeError |-> FALSE, due |-> 0, bad |-> FALSE, greeted |-> FALSE,
     over |-> FALSE]

EmptyBus == [events |-> <<>>, lagged |-> 0]

(* StableAppServerSession::new and start: initialize is sent first.         *)
NewDrive(t, fallback) ==
    [transport |-> t, state |-> "driving", stopping |-> FALSE,
     phase |-> IF t = "server" THEN "initialize" ELSE "none",
     sideEffect |-> FALSE, fallback |-> fallback, safe |-> FALSE]

(* start_worker: when the primary cannot be spawned its fallback is tried,  *)
(* and a notice is queued before the fallback is driven.                    *)
Init ==
    /\ \/ \E t \in Transports, fallback \in BOOLEAN :
            /\ fallback => t = "server"
            /\ drive = NewDrive(t, fallback)
            /\ job = [queue |-> <<>>, dropped |-> 0, loss |-> FALSE,
                      forwarded |-> 0, limited |-> FALSE, cancel |-> FALSE,
                      result |-> "none", treeError |-> FALSE]
            /\ history = [submitted |-> IF t = "server" THEN 0 ELSE 1,
                          unconfirmed |-> FALSE, processes |-> 1]
       \/ /\ drive = NewDrive("structured", FALSE)
          /\ job = [queue |-> <<"fallback">>, dropped |-> 0, loss |-> FALSE,
                    forwarded |-> 1, limited |-> FALSE, cancel |-> FALSE,
                    result |-> "none", treeError |-> FALSE]
          /\ history = [submitted |-> 1, unconfirmed |-> FALSE, processes |-> 1]
    /\ proc = Started
    /\ bus = EmptyBus
    /\ exec = [state |-> "loop", completed |-> FALSE, quota |-> FALSE,
               failure |-> "none", outcome |-> "none", seen |-> 0]
    /\ cancelled = FALSE

----------------------------------------------------------------------------
(* The provider process and its descendants (external).                     *)

(* broadcast::Sender::send overwrites the oldest entry of a full channel;   *)
(* the receiver then learns only how many it missed.                        *)
Publish(b, e) ==
    IF Len(b.events) < BusCap
    THEN [b EXCEPT !.events = Append(@, e)]
    ELSE [events |-> Append(Tail(b.events), e), lagged |-> b.lagged + 1]

PipesOpen == proc.child = "running" \/ proc.tree

(* What the processes do once the run is over is not observed.              *)
Observed == drive.state # "done"

(* What the frames written so far should reach the executor as: the number  *)
(* of events that are due, and whether one of them is a failure.  The       *)
(* answer to initialize is no event, and nothing is due after a turn.       *)
Due(p, f) ==
    [p EXCEPT !.wrote = @ + 1,
              !.due = IF p.over \/ (f = "response" /\ ~p.greeted) THEN @ ELSE @ + 1,
              !.bad = @ \/ (~p.over /\ f \notin {"output", "completed", "response",
                                               "item", "notice", "turn_completed"}),
              !.greeted = @ \/ f = "response",
              !.over = @ \/ f \in {"turn_completed", "turn_failed"}]

(* A frame is written and captured: the capture publishes it, and once its  *)
(* limit is reached it reports the loss and drains the pipe in silence.     *)
Emit(f, overLimit) ==
    /\ PipesOpen /\ Observed
    /\ ~proc.truncated
    /\ proc.wrote < MaxFrames[drive.transport]
    /\ f \in FramesOf(drive.transport)
    /\ proc' = [Due(proc, f) EXCEPT !.truncated = overLimit]
    /\ bus' = Publish(bus, IF overLimit THEN "frames_dropped" ELSE f)
    /\ UNCHANGED <<drive, job, exec, cancelled, history>>

Fork ==
    /\ proc.child = "running" /\ ~proc.tree /\ Observed
    /\ proc' = [proc EXCEPT !.tree = TRUE]
    /\ UNCHANGED <<bus, drive, job, exec, cancelled, history>>

ChildExit(code) ==
    /\ proc.child = "running" /\ Observed
    /\ proc' = [proc EXCEPT !.child = code]
    /\ UNCHANGED <<bus, drive, job, exec, cancelled, history>>

(* The descendants end by themselves and close the pipes they inherited.    *)
DescendantsExit ==
    /\ proc.tree /\ Observed
    /\ proc' = [proc EXCEPT !.tree = FALSE]
    /\ UNCHANGED <<bus, drive, job, exec, cancelled, history>>

----------------------------------------------------------------------------
(* monitor: the select over the exit of the child, the stop and the         *)
(* deadline, which are not ordered when several are ready.                  *)
MonitorExit ==
    /\ proc.monitor = "watching"
    /\ proc.child # "running"
    /\ proc' = [proc EXCEPT !.monitor = "joining", !.reason = "exited"]
    /\ UNCHANGED <<bus, drive, job, exec, cancelled, history>>

Killed(child) == IF child = "running" THEN "killed" ELSE child

(* terminate_tree: the platform kills the tree or reports that it could not *)
(* (taskkill failed or timed out), the child itself is killed, and a child  *)
(* that is not reaped in time makes the monitor fail.                       *)
MonitorKill(reason) ==
    /\ proc.monitor = "watching"
    /\ reason = "cancelled" => proc.stop
    /\ \/ proc' = [proc EXCEPT !.monitor = "joining", !.reason = reason,
                               !.child = Killed(@), !.tree = FALSE]
       \/ proc' = [proc EXCEPT !.monitor = "joining", !.reason = reason,
                               !.child = Killed(@), !.treeError = TRUE]
       \/ proc' = [proc EXCEPT !.monitor = "failed"]
    /\ UNCHANGED <<bus, drive, job, exec, cancelled, history>>

(* The captures end with the pipes; only then is the exit published.  The   *)
(* prompt that could not be written to a child that exited is an error.     *)
MonitorJoin(inputOk) ==
    /\ proc.monitor = "joining"
    /\ ~PipesOpen
    /\ inputOk \/ (proc.reason = "exited" /\ drive.transport # "server")
    /\ proc' = [proc EXCEPT !.monitor = IF inputOk THEN "done" ELSE "failed"]
    /\ bus' = IF inputOk THEN Publish(bus, "exited") ELSE bus
    /\ UNCHANGED <<drive, job, exec, cancelled, history>>

----------------------------------------------------------------------------
(* The driver.                                                              *)

(* add_dropped: the loss is sticky and cancels the job.                     *)
AddDropped(j, n) ==
    [j EXCEPT !.dropped = @ + n, !.loss = TRUE, !.cancel = TRUE]


(* try_send: nothing is queued after a loss or beyond the limit, and a full *)
(* channel is a loss.                                                       *)
TrySend(j, e) ==
    IF j.loss \/ j.limited THEN j
    ELSE IF j.forwarded >= MaxForwarded
    THEN [AddDropped(j, 1) EXCEPT !.forwarded = @ + 1, !.limited = TRUE]
    ELSE IF Len(j.queue) >= QueueCap
    THEN [AddDropped(j, 1) EXCEPT !.forwarded = @ + 1]
    ELSE [j EXCEPT !.queue = Append(@, e), !.forwarded = @ + 1]

Forwarded(j, e) == Len(TrySend(j, e).queue) > Len(j.queue)

BusReady == bus.lagged > 0 \/ bus.events # <<>>
(* The channel closes when the monitor and both captures dropped it.        *)
BusClosed ==
    ~BusReady /\ (proc.monitor = "done" \/ (proc.monitor = "failed" /\ ~PipesOpen))

NextEvent == IF bus.lagged > 0 THEN "frames_dropped" ELSE Head(bus.events)
Lost == IF bus.lagged > 0 THEN bus.lagged ELSE 1
Taken == IF bus.lagged > 0 THEN [bus EXCEPT !.lagged = 0]
                           ELSE [bus EXCEPT !.events = Tail(@)]

Driving(transports) ==
    /\ drive.state = "driving"
    /\ drive.transport \in transports
    /\ UNCHANGED <<exec, cancelled, history>>

Static == {"structured", "agy"}

(* drive_static: a cancelled job stops the process once, and the driver     *)
(* goes on reading what the process still says.                             *)
StaticCancel ==
    /\ Driving(Static)
    /\ job.cancel /\ ~drive.stopping
    /\ drive' = [drive EXCEPT !.stopping = TRUE]
    /\ proc' = [proc EXCEPT !.stop = TRUE]
    /\ UNCHANGED <<bus, job>>

(* The exit event of an Agy process stands for its completion.              *)
AgyExit(code) == CASE code = "ok" -> "completed"
                   [] code = "bad" -> "error"
                   [] code = "killed" -> "malformed"

StaticEvent ==
    /\ Driving(Static)
    /\ BusReady
    /\ bus' = Taken
    /\ \/ /\ NextEvent = "frames_dropped"
          /\ job' = AddDropped(job, Lost)
          /\ drive' = [drive EXCEPT !.stopping = TRUE]
          /\ proc' = [proc EXCEPT !.stop = TRUE]
       \/ /\ NextEvent = "exited"
          /\ job' = IF drive.transport = "agy"
                    THEN TrySend(job, AgyExit(proc.child)) ELSE job
          /\ drive' = [drive EXCEPT !.state = "finishing"]
          /\ UNCHANGED proc
       \/ /\ NextEvent \notin {"frames_dropped", "exited"}
          /\ job' = TrySend(job, NextEvent)
          /\ UNCHANGED <<drive, proc>>

\* A driver that ends on the exit event only.
StaticClosedNever == FALSE /\ UNCHANGED vars

StaticClosed ==
    /\ Driving(Static)
    /\ BusClosed
    /\ drive' = [drive EXCEPT !.state = "finishing"]
    /\ UNCHANGED <<proc, bus, job>>

(* StableAppServerSession::can_fallback.                                    *)
CanFallback(d) == ~d.sideEffect /\ d.phase \in {"initialize", "thread"}

(* app_server_failure: the process is stopped and awaited.                  *)
Fail(d, safe) ==
    /\ drive' = [d EXCEPT !.state = "failing", !.safe = safe]
    /\ proc' = [proc EXCEPT !.stop = TRUE]

ServerCancel ==
    /\ Driving({"server"})
    /\ job.cancel
    /\ Fail(drive, FALSE)
    /\ UNCHANGED <<bus, job>>

(* handle_response: each response answers the request of its phase; the     *)
(* answer to thread/start sends turn/start, which hands over the work.      *)
NextPhase == [initialize |-> "thread", thread |-> "turn", turn |-> "running"]

(* The answers after the first are announced to the executor.               *)
Announce(j) == IF drive.phase = "initialize" THEN j ELSE TrySend(j, "output")

HandleResponse ==
    IF drive.phase \notin DOMAIN NextPhase
    THEN Fail(drive, CanFallback(drive)) /\ UNCHANGED <<job, history>>
    ELSE /\ LET d == [drive EXCEPT !.phase = NextPhase[@]]
            IN  \* the frames the answer asks for cannot be written
                \/ /\ drive.phase # "turn"
                   /\ Fail(d, CanFallback(d))
                   /\ UNCHANGED <<job, history>>
                \/ /\ drive' = d
                   /\ job' = Announce(job)
                   /\ history' = [history EXCEPT !.submitted =
                                     IF drive.phase = "thread" THEN @ + 1 ELSE @]
                   /\ UNCHANGED proc

(* handle_notification and handle_server_request.  The end of the turn ends *)
(* the session in every phase, and the server is then stopped.              *)
HandleNotice(f) ==
    /\ job' = TrySend(job, CASE f = "turn_completed" -> "completed"
                             [] f = "turn_failed" -> "error"
                             [] OTHER -> "output")
    /\ IF f \in {"turn_completed", "turn_failed"}
       THEN /\ drive' = [drive EXCEPT !.state = "completing", !.phase = "completed"]
            /\ proc' = [proc EXCEPT !.stop = TRUE]
       ELSE /\ drive' = [drive EXCEPT !.sideEffect = @ \/ f = "item"]
            /\ UNCHANGED proc
    /\ UNCHANGED history

(* One turn of the loop of drive_app_server.                                *)
ServerEvent ==
    /\ drive.state = "driving" /\ drive.transport = "server"
    /\ UNCHANGED <<exec, cancelled>>
    /\ BusReady
    /\ bus' = Taken
    /\ \/ /\ NextEvent = "frames_dropped"
          /\ job' = AddDropped(job, Lost)
          /\ Fail(drive, FALSE)
          /\ UNCHANGED history
       \/ /\ NextEvent = "exited"
          /\ drive' = [drive EXCEPT !.state = "failing",
                         !.safe = CanFallback(drive) /\ proc.reason = "exited"]
          /\ UNCHANGED <<proc, job, history>>
       \/ /\ NextEvent = "bad"
          /\ Fail(drive, CanFallback(drive))
          /\ UNCHANGED <<job, history>>
       \/ NextEvent = "response" /\ HandleResponse
       \/ NextEvent \in {"item", "notice", "turn_completed", "turn_failed"}
          /\ HandleNotice(NextEvent)

ServerClosed ==
    /\ Driving({"server"})
    /\ BusClosed
    /\ Fail(drive, CanFallback(drive))
    /\ UNCHANGED <<bus, job>>

MonitorEnded == proc.monitor \in {"done", "failed"}

(* The output of the process that ended; an exit of a server that completed *)
(* its turn counts as success.                                              *)
OutputOf(completing) ==
    IF proc.monitor = "failed" THEN "failed"
    ELSE IF completing THEN "ok"
    ELSE IF proc.reason = "exited" THEN proc.child ELSE proc.reason

Result(j, r) ==
    [j EXCEPT !.result = r, !.treeError = proc.treeError /\ r # "failed"]

(* The session is dropped with its channel.                                 *)
DriveEnds(j, r) ==
    /\ job' = Result(j, r)
    /\ drive' = [drive EXCEPT !.state = "done", !.stopping = FALSE]
    /\ bus' = EmptyBus
    /\ UNCHANGED <<proc, history>>

(* session.wait() of drive_static, and of a completed server.               *)
DriveFinish ==
    /\ drive.state \in {"finishing", "completing"}
    /\ MonitorEnded
    /\ IF drive.state = "completing" /\ proc.monitor = "failed"
       THEN DriveEnds(TrySend(job, "malformed"), "failed")
       ELSE DriveEnds(job, OutputOf(drive.state = "completing"))
    /\ UNCHANGED <<exec, cancelled>>

(* run_worker_chain after a failed server: the fallback is started only if  *)
(* the failure is safe, its notice was queued and the job is not cancelled. *)
DriveFail ==
    /\ drive.state = "failing"
    /\ MonitorEnded
    /\ UNCHANGED <<exec, cancelled>>
    /\ IF ~(drive.fallback /\ drive.safe)
       THEN DriveEnds(TrySend(job, "malformed"), OutputOf(FALSE))
       ELSE IF ~Forwarded(job, "fallback") \/ job.cancel
       THEN DriveEnds(TrySend(job, "fallback"), OutputOf(FALSE))
       ELSE \/ /\ job' = TrySend(job, "fallback")
               /\ drive' = NewDrive("structured", FALSE)
               /\ proc' = Started
               /\ bus' = EmptyBus
               /\ history' = [submitted |-> history.submitted + 1,
                              unconfirmed |-> proc.treeError \/ proc.monitor = "failed",
                              processes |-> 2]
            \/ DriveEnds(TrySend(job, "fallback"), "failed")

----------------------------------------------------------------------------
(* The executor.                                                            *)

Cancel ==
    /\ ~cancelled /\ exec.state # "done"
    /\ cancelled' = TRUE
    /\ UNCHANGED <<proc, bus, drive, job, exec, history>>

(* record_lifecycle_failure: a cause that is not retryable stays.           *)
Recorded(failure, new) == IF "final" \in {failure, new} THEN "final" ELSE "retryable"

(* adapter.cancel: a job that has its result is not cancelled.              *)
CancelJob(j) == [j EXCEPT !.cancel = @ \/ j.result = "none"]

ExecCancelled ==
    /\ exec.state = "loop" /\ cancelled
    /\ exec' = [exec EXCEPT !.state = "waiting"]
    /\ job' = CancelJob(job)
    /\ UNCHANGED <<proc, bus, drive, cancelled, history>>

(* next_event: queued events first, then the marker of a loss, then the end *)
(* of the channel.                                                          *)
ExecEvent ==
    /\ exec.state = "loop"
    /\ UNCHANGED <<proc, bus, drive, cancelled, history>>
    /\ \/ /\ job.queue # <<>>
          /\ LET e == Head(job.queue)
                 rest == [job EXCEPT !.queue = Tail(@)]
                 next == [exec EXCEPT !.seen = IF e = "fallback" THEN 0 ELSE @ + 1]
             IN  \/ /\ e \in {"output", "fallback"}
                    /\ exec' = next /\ job' = rest
                 \/ /\ e = "completed"
                    /\ exec' = [next EXCEPT !.completed = TRUE] /\ job' = rest
                 \/ /\ e = "quota"
                    /\ exec' = [next EXCEPT !.quota = TRUE,
                                   !.failure = Recorded(@, "retryable")]
                    /\ job' = rest
                 \/ /\ e \in {"error", "malformed"}
                    /\ exec' = [next EXCEPT !.state = "waiting", !.failure =
                          Recorded(@, IF e = "error" THEN "retryable" ELSE "final")]
                    /\ job' = CancelJob(rest)
       \/ /\ job.queue = <<>> /\ job.dropped > 0
          /\ exec' = [exec EXCEPT !.state = "waiting",
                         !.failure = Recorded(@, "final")]
          /\ job' = CancelJob([job EXCEPT !.dropped = 0])
       \/ /\ job.queue = <<>> /\ job.dropped = 0 /\ drive.state = "done"
          /\ exec' = [exec EXCEPT !.state = "waiting"]
          /\ UNCHANGED job

Truncated == job.loss \/ proc.truncated

(* The failure the way the process ended adds.                              *)
EndFailure ==
    CASE job.result \in {"timed_out", "cancelled"} -> "retryable"
      [] job.result \in {"bad", "killed"} -> "final"
      [] job.result = "ok" -> IF exec.completed THEN "none" ELSE "final"

(* After wait(): an error of the runtime or a tree whose end is not         *)
(* confirmed is an error of the execution; otherwise the outcome follows.   *)
FailureAtEnd ==
    LET recorded == {exec.failure, IF Truncated THEN "final" ELSE "none",
                     IF cancelled \/ exec.quota THEN "none" ELSE EndFailure}
    IN  CASE "final" \in recorded -> "final"
          [] "retryable" \in recorded -> "retryable"
          [] OTHER -> "none"

Outcome ==
    CASE cancelled -> "cancelled"
      [] exec.quota -> "quota_exceeded"
      [] job.result = "timed_out" -> "timed_out"
      [] job.result = "cancelled" ->
            IF FailureAtEnd # "none" THEN "failed" ELSE "cancelled"
      [] OTHER -> IF job.result = "ok" /\ exec.completed /\ FailureAtEnd = "none"
                  THEN "succeeded" ELSE "failed"

ExecWait ==
    /\ exec.state = "waiting"
    /\ job.result # "none"              \* wait() forgets the job
    /\ exec' = IF job.result = "failed" \/ job.treeError
               THEN [exec EXCEPT !.state = "done", !.outcome = "error"]
               ELSE [exec EXCEPT !.state = "reporting", !.outcome = Outcome,
                                 !.failure = FailureAtEnd]
    /\ job' = [job EXCEPT !.queue = <<>>, !.dropped = 0, !.forwarded = 0]
    /\ UNCHANGED <<proc, bus, drive, cancelled, history>>

(* The snapshot, the secret scan, the checkpoint and the verification: one  *)
(* of them refuses, or the report is returned.                              *)
ExecReport(evidenceOk) ==
    /\ exec.state = "reporting"
    /\ exec' = [exec EXCEPT !.state = "done",
                            !.outcome = IF evidenceOk THEN @ ELSE "error"]
    /\ UNCHANGED <<proc, bus, drive, job, cancelled, history>>

Done == exec.state = "done" /\ drive.state = "done" /\ UNCHANGED vars

Provider ==
    \/ \E f \in StructuredFrames \cup ServerFrames, overLimit \in BOOLEAN :
            Emit(f, overLimit)
    \/ Fork
    \/ \E code \in {"ok", "bad"} : ChildExit(code)
    \/ DescendantsExit

Supervisor ==
    \/ MonitorExit
    \/ \E reason \in {"cancelled", "timed_out"} : MonitorKill(reason)
    \/ \E inputOk \in BOOLEAN : MonitorJoin(inputOk)

Driver ==
    \/ StaticCancel \/ StaticEvent \/ StaticClosed
    \/ ServerCancel \/ ServerEvent \/ ServerClosed
    \/ DriveFinish \/ DriveFail

Executor ==
    \/ ExecCancelled \/ ExecEvent \/ ExecWait
    \/ \E ok \in BOOLEAN : ExecReport(ok)

Next == Provider \/ Supervisor \/ Driver \/ Executor \/ Cancel \/ Done

Spec == Init /\ [][Next]_vars

(* The tasks of the orchestrator are scheduled, and the deadline passes.    *)
(* Nothing is assumed of the provider.                                      *)
Fairness ==
    /\ WF_vars(Driver) /\ WF_vars(Executor)
    /\ WF_vars(MonitorExit)
    /\ WF_vars(\E reason \in {"cancelled", "timed_out"} : MonitorKill(reason))
    /\ WF_vars(\E inputOk \in BOOLEAN : MonitorJoin(inputOk))

FairSpec == Spec /\ Fairness

----------------------------------------------------------------------------
(* A success rests on everything the provider said: the executor saw, in    *)
(* order, every frame the process wrote (for an App Server, every message   *)
(* up to the end of its turn), whatever the two bounded channels, the       *)
(* capture limit, the event limit and a racing stop did on the way.         *)
SucceededIsComplete ==
    exec.outcome = "succeeded" =>
        /\ exec.seen = proc.due + IF drive.transport = "agy" THEN 1 ELSE 0
        /\ ~proc.bad

(* The work of a task is handed to one process only: a fallback starts only *)
(* when the App Server was never asked for its turn, whatever frame, write  *)
(* error, exit or loss made it fail.                                        *)
WorkSubmittedOnce == history.submitted <= 1

(* Every execution ends, by the deadline at the latest, or a process of it  *)
(* keeps the pipes open for ever: no driver, monitor or executor waits on   *)
(* another that has gone.                                                   *)
ExecutionEnds == <>(exec.state = "done" \/ []PipesOpen)

----------------------------------------------------------------------------
(* The constants are numbers, and a channel has room for an event.          *)
RunConstants ==
    /\ BusCap \in Nat \ {0} /\ QueueCap \in Nat /\ MaxForwarded \in Nat
    /\ MaxFrames \in [Transports -> Nat]

(* What the driver queues for the executor.                                 *)
Events == StructuredFrames \cup {"fallback"}

BusEvents == StructuredFrames \cup ServerFrames \cup {"frames_dropped", "exited"}

ProcRecord ==
    [child : {"running", "ok", "bad", "killed"}, tree : BOOLEAN, wrote : Nat,
     truncated : BOOLEAN, stop : BOOLEAN,
     monitor : {"watching", "joining", "done", "failed"},
     reason : {"none", "exited", "cancelled", "timed_out"}, treeError : BOOLEAN,
     due : Nat, bad : BOOLEAN, greeted : BOOLEAN, over : BOOLEAN]

DriveRecord ==
    [transport : Transports,
     state : {"driving", "finishing", "completing", "failing", "done"},
     stopping : BOOLEAN,
     phase : {"none", "initialize", "thread", "turn", "running", "completed"},
     sideEffect : BOOLEAN, fallback : BOOLEAN, safe : BOOLEAN]

JobRecord ==
    [queue : Seq(Events), dropped : Nat, loss : BOOLEAN, forwarded : Nat,
     limited : BOOLEAN, cancel : BOOLEAN,
     result : {"none", "ok", "bad", "killed", "failed", "timed_out", "cancelled"},
     treeError : BOOLEAN]

ExecRecord ==
    [state : {"loop", "waiting", "reporting", "done"}, completed : BOOLEAN,
     quota : BOOLEAN, failure : {"none", "retryable", "final"},
     outcome : {"none", "error", "succeeded", "failed", "cancelled", "timed_out",
                "quota_exceeded"},
     seen : Nat]

TypeOK ==
    /\ proc \in ProcRecord
    /\ bus \in [events : Seq(BusEvents), lagged : Nat]
    /\ drive \in DriveRecord
    /\ job \in JobRecord
    /\ exec \in ExecRecord
    /\ cancelled \in BOOLEAN
    /\ history \in [submitted : Nat, unconfirmed : BOOLEAN, processes : {1, 2}]

(* The monitor ends after the process: the reason is known when it joins,   *)
(* and the pipes are closed when it publishes the exit.                     *)
MonitorHeld ==
    /\ proc.monitor \in {"joining", "done"} =>
           /\ proc.reason # "none"
           /\ proc.child # "running"
    /\ proc.monitor = "done" => ~PipesOpen

(* The work is not submitted before the answer to thread/start, and a       *)
(* failure is safe only before that.                                        *)
SubmissionHeld ==
    /\ history.submitted <= 1
    /\ drive.state = "driving" /\ drive.phase \in {"initialize", "thread"} =>
           history.submitted = 0
    /\ drive.state = "failing" /\ drive.safe => history.submitted = 0
    /\ drive.transport # "server" => drive.phase = "none"

(* The outcome may still be a success: neither the driver nor the executor  *)
(* knows of a loss, a failure or a cancellation, and the capture of the     *)
(* present process is complete.                                             *)
Unbroken == ~job.loss /\ ~cancelled /\ exec.failure = "none"
Hopeful == Unbroken /\ ~proc.truncated

(* The frames in the broadcast channel, without the exit behind them.       *)
Unread == IF proc.monitor = "done" THEN Len(bus.events) - 1 ELSE Len(bus.events)

BusHeld ==
    drive.state = "driving" =>
        /\ proc.monitor = "done" =>
               bus.events # <<>> /\ bus.events[Len(bus.events)] = "exited"
        /\ \A i \in 1 .. Unread :
               \/ bus.events[i] \in FramesOf(drive.transport)
               \/ bus.events[i] = "frames_dropped" /\ proc.truncated

(* The losses are known to the job, and an executor that left the loop had  *)
(* a reason.                                                                *)
JobHeld ==
    /\ job.limited \/ job.dropped > 0 => job.loss
    /\ job.cancel => ~Unbroken
    /\ exec.state = "waiting" /\ Unbroken => drive.state = "done" /\ job.queue = <<>>
    /\ (job.result # "none") <=> (drive.state = "done")

(* At most one notice of a fallback is on its way.                          *)
Notices == {i \in DOMAIN job.queue : job.queue[i] = "fallback"}

NoticeHeld ==
    /\ drive.fallback /\ drive.state # "done" => Notices = {}
    /\ \A i, j \in Notices : i = j

(* The events of the present process that were queued for the executor:     *)
(* those behind the notice of its start, or those seen too when the notice  *)
(* has been read.                                                           *)
Heard(h) ==
    \/ \E i \in Notices : h = Len(job.queue) - i
    \/ Notices = {} /\ h = exec.seen + Len(job.queue)

BadQueued ==
    \E i \in DOMAIN job.queue : job.queue[i] \in {"error", "quota", "malformed"}

TurnEnds == {"turn_completed", "turn_failed"}
BadFrames == {"error", "quota", "malformed", "bad", "turn_failed"}

(* The answer to initialize is among the first n frames in the channel.     *)
Greeting(n) ==
    IF drive.phase = "initialize" /\ \E i \in 1 .. n : bus.events[i] = "response"
    THEN 1 ELSE 0

(* The first n frames in the channel are all that is due and not yet heard: *)
(* everything up to the end of the turn, but for the answer to initialize.  *)
Accounted(n) ==
    /\ proc.over => n > 0 /\ bus.events[n] \in TurnEnds
    /\ ~proc.over => n = Unread
    /\ \A i \in 1 .. n : bus.events[i] \in TurnEnds => proc.over /\ i = n
    /\ Heard(proc.due + Greeting(n) - n)
    /\ proc.bad => BadQueued \/ \E i \in 1 .. n : bus.events[i] \in BadFrames

(* Everything that is due has been queued.                                  *)
AllHeard ==
    /\ Heard(proc.due + IF drive.transport = "agy" THEN 1 ELSE 0)
    /\ proc.bad => BadQueued

(* In a run that may still succeed nothing is lost between the process and  *)
(* the executor: while the driver reads,                                    *)
Flowing == drive.state = "driving" /\ Hopeful /\ bus.lagged = 0

GreetingHeld ==
    Flowing /\ drive.transport = "server" =>
        (proc.greeted <=> \/ drive.phase # "initialize"
                          \/ \E i \in 1 .. Unread : bus.events[i] = "response")

FlowHeld == Flowing => \E n \in 0 .. Unread : Accounted(n)

(* and when it has read what there is to read.                              *)
EndHeld ==
    /\ drive.transport # "server" => ~proc.over
    /\ drive.state = "finishing" /\ Hopeful =>
           proc.monitor = "failed" \/ (proc.monitor = "done" /\ AllHeard)
    /\ drive.state = "completing" => drive.transport = "server"
    /\ drive.state = "completing" /\ Hopeful => proc.over /\ AllHeard
    /\ drive.state = "done" /\ Hopeful => job.result = "failed" \/ BadQueued \/ AllHeard

OutcomeHeld ==
    /\ SucceededIsComplete
    /\ exec.outcome = "succeeded" =>
           exec.state \in {"reporting", "done"} /\ drive.state = "done"

IInv ==
    /\ TypeOK /\ MonitorHeld /\ SubmissionHeld /\ BusHeld /\ JobHeld /\ NoticeHeld
    /\ GreetingHeld /\ FlowHeld /\ EndHeld /\ OutcomeHeld

==========================================================================

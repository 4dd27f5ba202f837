----------------------------- MODULE MCDelivery -----------------------------
(***************************************************************************)
(* The components that owe an answer, for TLC: the instructions of a task, *)
(* the writer of the daemon's endpoint, the run of a worker process and a  *)
(* daemon that is asked to stop.                                           *)
(* They meet only through rows that each of them already models, so a      *)
(* behaviour runs one of them, the others stay as they began, and one run  *)
(* checks the four.                                                        *)
(***************************************************************************)
EXTENDS MCInstructionDelivery

VARIABLES
    part,                                    \* what this behaviour is about
    conn, data, control, claimed, loop, admissions, lanes, gens, nextGen, ready,
    jobs, serving, nextSeq, drained, stopSeq, commits,           \* IpcWriter
    proc, bus, drive, run, exec, cancelled, history,             \* WorkerRun
    wall, table, owner, phase, beat, cancel                      \* DaemonLease

(* Two registrations of a workspace that can be joined, a lookup of it     *)
(* that cannot join them, and a stop.                                      *)
Writes == [reg1 |-> "register", reg2 |-> "register", look |-> "lookup", stop |-> "stop"]
OneWorkspace == [r \in DOMAIN Writes |-> "w1"]
OneSource == [r \in DOMAIN Writes |-> "s1"]

Ipc == INSTANCE IpcWriter WITH
    Requests <- DOMAIN Writes, Action <- Writes, Workspace <- OneWorkspace,
    Semantics <- OneSource, IngressCap <- 1, MaxPending <- 2, MaxJobs <- 2

FrameBounds == [structured |-> 2, agy |-> 1, server |-> 2]

Worker == INSTANCE WorkerRun WITH
    BusCap <- 1, QueueCap <- 1, MaxForwarded <- 2, MaxFrames <- FrameBounds, job <- run

Daemon == INSTANCE DaemonLease WITH
    Daemons <- {"d1"}, LeaseTtl <- 1, MaxClock <- 1, MaxLag <- 1,
    Free <- "free", Maintenance <- "maintenance",
    clock <- wall, rows <- table, lock <- owner, pc <- phase

ipcVars == <<conn, data, control, claimed, loop, admissions, lanes, gens, nextGen, ready,
             jobs, serving, nextSeq, drained, stopSeq, commits>>
workerVars == <<proc, bus, drive, run, exec, cancelled, history>>
daemonVars == <<wall, table, owner, phase, beat, cancel>>
allVars == <<part, vars, skew, ipcVars, workerVars, daemonVars>>

(* A component that a behaviour is not about starts in one state only.     *)
AllInit ==
    /\ part \in {"instructions", "ipc", "worker", "daemon"}
    /\ Init /\ (part # "instructions" => ~skew)
    /\ Ipc!Init
    /\ Worker!Init
    /\ Daemon!Init
    /\ part # "worker" => drive.transport = "agy"

AllNext ==
    /\ UNCHANGED <<part, skew>>
    /\ \/ part = "instructions" /\ Next /\ UNCHANGED <<ipcVars, workerVars, daemonVars>>
       \/ part = "ipc" /\ Ipc!Next /\ UNCHANGED <<vars, workerVars, daemonVars>>
       \/ part = "worker" /\ Worker!Next /\ UNCHANGED <<vars, ipcVars, daemonVars>>
       \/ part = "daemon" /\ Daemon!Next /\ UNCHANGED <<vars, ipcVars, workerVars>>

(* The fairness that the components assume.                                *)
AllFairness ==
    /\ WF_vars(part = "instructions" /\ LoopStep)
    /\ WF_vars(part = "instructions" /\ JobStep)
    /\ WF_vars(part = "instructions" /\ Restart)
    /\ WF_ipcVars(part = "ipc" /\ Ipc!Writer)
    /\ WF_ipcVars(part = "ipc" /\ Ipc!Jobs)
    /\ \A r \in DOMAIN Writes : WF_ipcVars(part = "ipc" /\ Ipc!Enqueue(r))
    /\ WF_workerVars(part = "worker" /\ Worker!Driver)
    /\ WF_workerVars(part = "worker" /\ Worker!Executor)
    /\ WF_workerVars(part = "worker" /\ Worker!MonitorExit)
    /\ WF_workerVars(part = "worker" /\
           \E reason \in {"cancelled", "timed_out"} : Worker!MonitorKill(reason))
    /\ WF_workerVars(part = "worker" /\ \E inputOk \in BOOLEAN : Worker!MonitorJoin(inputOk))
    /\ WF_daemonVars(part = "daemon" /\ Daemon!OwnStep("d1"))
    /\ WF_daemonVars(part = "daemon" /\ Daemon!Timers("d1"))

AllSpec == AllInit /\ [][AllNext]_allVars /\ AllFairness

-----------------------------------------------------------------------------
(* The properties of the instanced components, as they are stated and      *)
(* explained there.                                                        *)

(* IpcWriter: every request is answered or its connection is gone.         *)
EveryRequestAnswered == Ipc!EveryRequestAnswered


(* WorkerRun: every execution ends, or a process keeps its pipes open.     *)
ExecutionEnds == part = "worker" => Worker!ExecutionEnds

(* DaemonLease: a requested stop ends the process in every phase.          *)
StopEndsProcess == Daemon!StopEndsProcess
=============================================================================

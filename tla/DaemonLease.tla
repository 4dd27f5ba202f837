----------------------------- MODULE DaemonLease ------------------------------
(***************************************************************************)
(* The life of the per-user daemon: the OS owner lock, the row in          *)
(* daemon_instances, startup, the heartbeat, stop, drain, failure and       *)
(* crash (crates/orchestrator-cli/src/daemon.rs, orchestrator-daemon/src/  *)
(* lib.rs and the owner lock of ipc.rs).  Each member of Daemons is one     *)
(* process; a restart is another process.                                  *)
(*                                                                         *)
(* A timestamp is Utc::now() read before the statement reaches the         *)
(* database, so it lags behind the clock by up to MaxLag; two readings may  *)
(* also come out of order when the system clock is stepped back.           *)
(***************************************************************************)
EXTENDS DaemonRows

CONSTANTS
    MaxLag,        \* how far a timestamp may lag behind the clock
    Free,          \* nobody holds the owner lock
    Maintenance    \* doctor, migrate or rollback holds it, or a polling `stop`

ASSUME DaemonLeaseConstants ==
    /\ MaxLag \in Nat
    /\ Free \notin Daemons /\ Maintenance \notin Daemons /\ Free # Maintenance

VARIABLES
    clock,
    rows,      \* daemon_instances
    lock,      \* the OS file lock daemon.lock
    pc,        \* where each process is
    beat,      \* its startup heartbeat task
    cancel     \* its CancellationToken

vars == <<clock, rows, lock, pc, beat, cancel>>

(* off: not started.  locked: owner lock taken, database being prepared.   *)
(* booting, probing, starting: the startup of serve_foreground, starting   *)
(* while the planner is probed.  serving: the loop of serve_with_runtime.  *)
(* draining: after the loop, stopping jobs.  unwinding: the lease is given *)
(* up, the process is on its way out.  dead: exited or crashed.            *)
Pcs == {"off", "locked", "booting", "probing", "starting", "serving",
        "draining", "unwinding", "dead"}

(* The process believes that it owns the daemon lease. *)
Owning == {"booting", "probing", "starting", "serving", "draining"}

(* The IPC endpoint is bound while booting and answers until the end.      *)
Answering == {"booting", "probing", "starting", "serving", "draining"}

Stamps == {t \in 0 .. clock : clock <= t + MaxLag}

Init ==
    /\ clock = 0
    /\ rows = [d \in Daemons |-> NoInstance]
    /\ lock = Free
    /\ pc = [d \in Daemons |-> "off"]
    /\ beat = [d \in Daemons |-> "none"]
    /\ cancel = [d \in Daemons |-> FALSE]

-----------------------------------------------------------------------------
(* GlobalDaemonBootstrap::prepare: DaemonOwnerLock::acquire is try_lock.   *)

(* Faulty variant: the lock file is opened but not locked.                 *)
TakeOwnerLockUnlocked(d) ==
    /\ pc[d] = "off"
    /\ lock' = d
    /\ pc' = [pc EXCEPT ![d] = "locked"]
    /\ UNCHANGED <<clock, rows, beat, cancel>>

TakeOwnerLock(d) ==
    /\ pc[d] = "off"
    /\ lock = Free
    /\ lock' = d
    /\ pc' = [pc EXCEPT ![d] = "locked"]
    /\ UNCHANGED <<clock, rows, beat, cancel>>

Leave(d) ==
    /\ pc' = [pc EXCEPT ![d] = "dead"]
    /\ lock' = IF lock = d THEN Free ELSE lock

(* Opening, migrating or registering fails: the process exits. *)
BootstrapFails(d) ==
    /\ pc[d] = "locked"
    /\ Leave(d)
    /\ UNCHANGED <<clock, rows, beat, cancel>>

(* acquire_daemon_startup_lease, and the startup heartbeat is spawned; an   *)
(* unexpired row left by a crashed daemon makes the start fail.            *)
AcquireStartupLease(d, at) ==
    /\ pc[d] = "locked"
    /\ \/ /\ LeaseAvailable(rows, at)
          /\ rows' = AcquireLease(rows, d, "booting", at)
          /\ pc' = [pc EXCEPT ![d] = "booting"]
          /\ beat' = [beat EXCEPT ![d] = "live"]
          /\ UNCHANGED lock
       \/ /\ ~ LeaseAvailable(rows, at)
          /\ Leave(d)
          /\ UNCHANGED <<rows, beat>>
    /\ UNCHANGED <<clock, cancel>>

(* One tick of the startup heartbeat task: it runs beside the startup and  *)
(* until the startup aborts it, so it may also hit a row just released.    *)
StartupHeartbeat(d, at) ==
    /\ beat[d] = "live"
    /\ pc[d] \in {"booting", "probing", "starting", "unwinding"}
    /\ \/ /\ StopRequested(rows, d) \/ cancel[d]
          /\ cancel' = [cancel EXCEPT ![d] = TRUE]
          /\ beat' = [beat EXCEPT ![d] = "stopped"]
          /\ UNCHANGED rows
       \/ /\ ~ StopRequested(rows, d) /\ ~ cancel[d]
          /\ \/ /\ CanHeartbeat(rows, d, at)
                /\ rows' = HeartbeatLease(rows, d, at)
                /\ UNCHANGED beat
             \/ /\ ~ CanHeartbeat(rows, d, at)
                /\ beat' = [beat EXCEPT ![d] = "failed"]
                /\ UNCHANGED rows
          /\ UNCHANGED cancel
    /\ UNCHANGED <<clock, lock, pc>>

(* The endpoint cannot be bound (StartupLeaseGuard releases the row), or   *)
(* the redaction configuration is invalid (the row is marked failed first).*)
StartupError(d) ==
    /\ pc[d] = "booting"
    /\ \/ rows' = ReleaseInstance(rows, d)
       \/ /\ CanTransition(rows, d, "failed")
          /\ rows' = ReleaseInstance(TransitionPhase(rows, d, "failed"), d)
    /\ pc' = [pc EXCEPT ![d] = "unwinding"]
    /\ UNCHANGED <<clock, lock, beat, cancel>>

EnterPhase(d, from, phase, to) ==
    /\ pc[d] = from
    /\ CanTransition(rows, d, phase)
    /\ rows' = TransitionPhase(rows, d, phase)
    /\ pc' = [pc EXCEPT ![d] = to]
    /\ UNCHANGED <<clock, lock, beat, cancel>>

EnterProbing(d) == EnterPhase(d, "booting", "probing", "probing")

EnterOnline(d) == EnterPhase(d, "probing", "online", "starting")

(* The probe was cancelled, or the token is found cancelled afterwards.    *)
StartupCancelled(d) ==
    /\ pc[d] = "starting"
    /\ cancel[d]
    /\ rows' = ReleaseInstance(rows, d)
    /\ pc' = [pc EXCEPT ![d] = "unwinding"]
    /\ UNCHANGED <<clock, lock, beat, cancel>>

(* fail_startup: the phase is online by now, so no row is marked failed;   *)
(* the heartbeat task is aborted before the release.                       *)
GiveUpStartup(d) ==
    /\ pc[d] = "starting"
    /\ rows' = ReleaseInstance(rows, d)
    /\ pc' = [pc EXCEPT ![d] = "unwinding"]
    /\ beat' = [beat EXCEPT ![d] = "none"]
    /\ UNCHANGED <<clock, lock, cancel>>

StartupFails(d) == GiveUpStartup(d)

StartupHeartbeatFailed(d) == beat[d] = "failed" /\ GiveUpStartup(d)

(* The startup heartbeat is aborted, then serve_with_runtime renews the    *)
(* lease it was handed; if it cannot, OwnedLeaseGuard releases on the way. *)
BeginServing(d, at) ==
    /\ pc[d] = "starting"
    /\ ~ cancel[d]
    /\ beat[d] # "failed"
    /\ beat' = [beat EXCEPT ![d] = "none"]
    /\ \/ /\ CanHeartbeat(rows, d, at)
          /\ rows' = HeartbeatLease(rows, d, at)
          /\ pc' = [pc EXCEPT ![d] = "serving"]
       \/ /\ ~ CanHeartbeat(rows, d, at)
          /\ rows' = ReleaseInstance(rows, d)
          /\ pc' = [pc EXCEPT ![d] = "unwinding"]
    /\ UNCHANGED <<clock, lock, cancel>>

-----------------------------------------------------------------------------
(* The serving loop. *)

(* Faulty variant: the tick does not ask for a stop request.               *)
ServeHeartbeatDeaf(d, at) ==
    /\ pc[d] = "serving"
    /\ \/ /\ CanHeartbeat(rows, d, at)
          /\ rows' = HeartbeatLease(rows, d, at)
          /\ UNCHANGED pc
       \/ /\ ~ CanHeartbeat(rows, d, at)
          /\ rows' = ReleaseInstance(rows, d)
          /\ pc' = [pc EXCEPT ![d] = "unwinding"]
    /\ UNCHANGED <<clock, lock, beat, cancel>>

(* heartbeat_interval.tick(): a stop request ends the loop, a heartbeat    *)
(* that fails ends it with an error.                                       *)
ServeHeartbeat(d, at) ==
    /\ pc[d] = "serving"
    /\ \/ /\ StopRequested(rows, d)
          /\ pc' = [pc EXCEPT ![d] = "draining"]
          /\ UNCHANGED rows
       \/ /\ ~ StopRequested(rows, d)
          /\ CanHeartbeat(rows, d, at)
          /\ rows' = HeartbeatLease(rows, d, at)
          /\ UNCHANGED pc
       \/ /\ ~ StopRequested(rows, d)
          /\ ~ CanHeartbeat(rows, d, at)
          /\ rows' = ReleaseInstance(rows, d)
          /\ pc' = [pc EXCEPT ![d] = "unwinding"]
    /\ UNCHANGED <<clock, lock, beat, cancel>>

ServeCancelled(d) ==
    /\ pc[d] = "serving"
    /\ cancel[d]
    /\ pc' = [pc EXCEPT ![d] = "draining"]
    /\ UNCHANGED <<clock, rows, lock, beat, cancel>>

(* Any error of the command tick, or the IPC server ending by itself:      *)
(* OwnedLeaseGuard releases the row and the token is cancelled.            *)
LoopError(d) ==
    /\ pc[d] = "serving"
    /\ rows' = ReleaseInstance(rows, d)
    /\ pc' = [pc EXCEPT ![d] = "unwinding"]
    /\ cancel' = [cancel EXCEPT ![d] = TRUE]
    /\ UNCHANGED <<clock, lock, beat>>

(* The jobs are stopped and joined, then the lease is finished.            *)
FinishDrain(d) ==
    /\ pc[d] = "draining"
    /\ rows' = ReleaseInstance(rows, d)
    /\ pc' = [pc EXCEPT ![d] = "unwinding"]
    /\ cancel' = [cancel EXCEPT ![d] = TRUE]
    /\ UNCHANGED <<clock, lock, beat>>

(* The owner lock is held by serve_foreground to its very end.             *)
ProcessExit(d) ==
    /\ pc[d] = "unwinding"
    /\ Leave(d)
    /\ UNCHANGED <<clock, rows, beat, cancel>>

(* A kill or a power loss: the OS drops the lock, the row stays.           *)
Crash(d) ==
    /\ pc[d] \notin {"off", "dead"}
    /\ Leave(d)
    /\ UNCHANGED <<clock, rows, beat, cancel>>

-----------------------------------------------------------------------------
(* The outside. *)

(* ctrl_c, from the moment its handler is spawned *)
Interrupt(d) ==
    /\ pc[d] \in Owning
    /\ ~ cancel[d]
    /\ cancel' = [cancel EXCEPT ![d] = TRUE]
    /\ UNCHANGED <<clock, rows, lock, pc, beat>>

(* daemon.stop, answered by an endpoint: whichever row is unreleased.      *)
RequestStop ==
    /\ \E server \in Daemons : pc[server] \in Answering
    /\ \E d \in Daemons :
        /\ Unreleased(rows[d])
        /\ rows' = RequestStopOf(rows, d)
    /\ UNCHANGED <<clock, lock, pc, beat, cancel>>

MaintenanceBegins ==
    /\ lock = Free
    /\ lock' = Maintenance
    /\ UNCHANGED <<clock, rows, pc, beat, cancel>>

MaintenanceEnds ==
    /\ lock = Maintenance
    /\ lock' = Free
    /\ UNCHANGED <<clock, rows, pc, beat, cancel>>

Tick ==
    /\ clock < MaxClock
    /\ clock' = clock + 1
    /\ UNCHANGED <<rows, lock, pc, beat, cancel>>

Next ==
    \/ Tick \/ RequestStop \/ MaintenanceBegins \/ MaintenanceEnds
    \/ \E d \in Daemons :
        \/ TakeOwnerLock(d) \/ BootstrapFails(d) \/ StartupError(d)
        \/ EnterProbing(d) \/ EnterOnline(d) \/ StartupCancelled(d)
        \/ StartupFails(d) \/ StartupHeartbeatFailed(d)
        \/ ServeCancelled(d) \/ LoopError(d) \/ FinishDrain(d)
        \/ ProcessExit(d) \/ Crash(d) \/ Interrupt(d)
        \/ \E at \in Stamps :
            \/ AcquireStartupLease(d, at) \/ StartupHeartbeat(d, at)
            \/ BeginServing(d, at) \/ ServeHeartbeat(d, at)

Spec == Init /\ [][Next]_vars

(* What a process does by itself: its timers fire, its startup goes on     *)
(* (the probe is bounded by a timeout), a cancelled executor returns.      *)
OwnStep(d) ==
    \/ EnterProbing(d) \/ EnterOnline(d) \/ StartupCancelled(d)
    \/ StartupHeartbeatFailed(d) \/ ServeCancelled(d) \/ FinishDrain(d)
    \/ ProcessExit(d)
    \/ \E at \in Stamps : BeginServing(d, at)

Timers(d) == \E at \in Stamps : StartupHeartbeat(d, at) \/ ServeHeartbeat(d, at)

FairSpec == Spec /\ \A d \in Daemons : WF_vars(OwnStep(d)) /\ WF_vars(Timers(d))

-----------------------------------------------------------------------------
(* Properties. *)

(* The table, the lock and the processes are well formed. *)
TypeOK ==
    /\ clock \in 0 .. MaxClock
    /\ rows \in DaemonTable
    /\ lock \in Daemons \cup {Free, Maintenance}
    /\ pc \in [Daemons -> Pcs]
    /\ beat \in [Daemons -> {"none", "live", "failed", "stopped"}]
    /\ cancel \in [Daemons -> BOOLEAN]

(* "the single per-user background service" (docs/operations.md:158): a    *)
(* process that acts as the daemon holds the owner lock and the only       *)
(* unreleased row, however many processes start, crash or are suspended    *)
(* past the expiry of their lease, and whatever maintenance runs.          *)
DaemonOwnsLease ==
    \A d \in Daemons : pc[d] \in Owning =>
        /\ lock = d
        /\ \A e \in Daemons : Unreleased(rows[e]) <=> e = d

(* Taking over "only at or after lease expiry" (docs/operations.md:180):   *)
(* a row released while its process is already dead had expired.           *)
TakeoverAfterExpiry ==
    [][\A d \in Daemons :
        /\ pc[d] = "dead" /\ Unreleased(rows[d]) /\ ~ Unreleased(rows'[d])
        => rows[d].expires <= clock]_vars

(* A released row is history: no late heartbeat, phase change or stop       *)
(* request alters it (the comment in heartbeat_daemon).                    *)
ReleasedIsFinal ==
    [][\A d \in Daemons : rows[d].st = "released" => rows'[d] = rows[d]]_vars

(* The rows of other daemons are honoured: not taken before they expire,   *)
(* and not touched once they are released.                                 *)
RowsHonoured == TakeoverAfterExpiry /\ ReleasedIsFinal

(* The promise of the owner lock and the table together, as ExclusiveGrant *)
(* has it: to act as the daemon is the authority of one instance at a time *)
(* and never of one whose row is released.                                 *)
Acting == [a \in {"daemon"} |-> {d \in Daemons : pc[d] \in Owning}]

ReleasedInstances == {d \in Daemons : rows[d].st = "released"}

Role == INSTANCE ExclusiveGrant WITH
    Authorities <- {"daemon"}, Ids <- Daemons,
    holders <- Acting, ended <- ReleasedInstances

(* Processes that start, crash, are suspended past their expiry or are     *)
(* taken over implement that promise (ipc.rs:258): nobody is the daemon    *)
(* before the one before has ceased to be it.                              *)
ImplementsExclusiveRole == Role!Spec

(* A requested stop ends the process, in whichever startup phase it finds  *)
(* it; the flag is never cleared and a dead process stays dead.            *)
StopEndsProcess ==
    \A d \in Daemons : <>[](rows[d] # NoInstance /\ rows[d].stop => pc[d] = "dead")

-----------------------------------------------------------------------------
(* The inductive strengthening of DaemonOwnsLease. *)

(* Whoever is between taking the owner lock and leaving holds it. *)
HoldsLock == \A d \in Daemons : pc[d] \notin {"off", "dead"} => lock = d

(* An instance id is new until its process acquires the lease. *)
FreshRow == \A d \in Daemons : pc[d] \in {"off", "locked"} => rows[d] = NoInstance

IInv == TypeOK /\ HoldsLock /\ FreshRow /\ DaemonOwnsLease
=============================================================================

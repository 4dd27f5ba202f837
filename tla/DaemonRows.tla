------------------------------ MODULE DaemonRows ------------------------------
(***************************************************************************)
(* The table daemon_instances and the statements of                        *)
(* crates/orchestrator-state/src/daemon_instances.rs on it, as operators   *)
(* from a table to a table.  Every one of them is a single SQL statement   *)
(* or a single IMMEDIATE transaction.                                      *)
(***************************************************************************)
EXTENDS Naturals

CONSTANTS
    Daemons,    \* daemon instance ids: one per process incarnation
    LeaseTtl,   \* DaemonSettings::lease_ttl
    MaxClock    \* where the clock stops (a bound)

ASSUME DaemonRowConstants == LeaseTtl \in Nat \ {0} /\ MaxClock \in Nat

Phases == {"booting", "probing", "online", "failed"}

NoInstance == [st |-> "absent"]

DaemonInstance ==
    [st : {"active", "released"}, phase : Phases, heartbeat : 0 .. MaxClock,
     expires : 0 .. (MaxClock + LeaseTtl), stop : BOOLEAN]

DaemonTable == [Daemons -> DaemonInstance \cup {NoInstance}]

(* released_at IS NULL *)
Unreleased(row) == row.st = "active"

(* acquire_daemon_lease_with_phase, its first statement: rows whose lease  *)
(* has expired at the request's timestamp are released.                    *)
ExpireInstances(rows, at) ==
    [d \in Daemons |->
        IF Unreleased(rows[d]) /\ rows[d].expires <= at
        THEN [rows[d] EXCEPT !.st = "released"]
        ELSE rows[d]]

LeaseAvailable(rows, at) ==
    \A d \in Daemons : ~ Unreleased(ExpireInstances(rows, at)[d])

NewInstance(phase, at) ==
    [st |-> "active", phase |-> phase, heartbeat |-> at,
     expires |-> at + LeaseTtl, stop |-> FALSE]

AcquireLease(rows, d, phase, at) ==
    [ExpireInstances(rows, at) EXCEPT ![d] = NewInstance(phase, at)]

(* transition_daemon_phase *)
PhaseSources(phase) ==
    CASE phase = "probing" -> {"booting"}
      [] phase = "online"  -> {"probing"}
      [] phase = "failed"  -> {"booting", "probing"}
      [] OTHER             -> {}

CanTransition(rows, d, phase) ==
    Unreleased(rows[d]) /\ rows[d].phase \in PhaseSources(phase)

TransitionPhase(rows, d, phase) == [rows EXCEPT ![d].phase = phase]

(* Faulty variant: the update does not ask for released_at IS NULL.        *)
CanHeartbeatReleased(rows, d, at) == rows[d].st # "absent" /\ rows[d].heartbeat <= at

(* heartbeat_daemon: also after expiry, as long as nobody released the row *)
CanHeartbeat(rows, d, at) == Unreleased(rows[d]) /\ rows[d].heartbeat <= at

HeartbeatLease(rows, d, at) ==
    [rows EXCEPT ![d].heartbeat = at, ![d].expires = at + LeaseTtl]

(* request_daemon_stop, daemon_stop_requested, release_daemon *)
RequestStopOf(rows, d) == [rows EXCEPT ![d].stop = TRUE]

StopRequested(rows, d) == Unreleased(rows[d]) /\ rows[d].stop

ReleaseInstance(rows, d) ==
    IF Unreleased(rows[d]) THEN [rows EXCEPT ![d].st = "released"] ELSE rows

(* ensure_daemon_owner of scheduling.rs: the fence every schedule claim    *)
(* passes.                                                                 *)
EnsureDaemonOwner(rows, d, at) ==
    Unreleased(rows[d]) /\ ~ rows[d].stop /\ rows[d].expires > at
=============================================================================

--------------------------- MODULE ReleaseRollback ---------------------------
(***************************************************************************)
(* Release rollback: `rollback plan` and `rollback apply` of app.rs and    *)
(* the journalled file transaction of the engine's rollback.rs, which      *)
(* replaces installed files by the backups of a release and restores what  *)
(* it touched when a later step fails.                                     *)
(*                                                                         *)
(* A plan has two steps: the config file, whose destination is fixed, and  *)
(* the Codex binary, whose destination is the executable the newest        *)
(* completed writable attempt ran.  Plans are named by their hash, whose   *)
(* prefix names the staged, recovery and failed-install siblings and the   *)
(* journal.  Any file operation may fail and the process may die between   *)
(* two of them; MaxFaults bounds both together.                            *)
(***************************************************************************)
EXTENDS Naturals, Sequences, FiniteSets

CONSTANTS Plans,      \* the plan hashes
          Workspaces, \* workspaces of the user-global database
          Own,        \* the workspace of the repository of the command
          MaxFaults

VARIABLES
  dest,      \* [Paths -> contents of the installed file]
  backup,    \* [Steps -> contents of the release backup]
  side,      \* [Plans -> [Steps -> the three sibling files]]
  journal,   \* [Plans -> the recovery journal, <<>> when there is none]
  plan,      \* [Plans -> the sealed plan, a set of at most one]
  evidence,  \* the executable the newest Codex attempt ran, or "none"
  active,    \* workspaces with an executing task or an unreleased lease
  run,       \* the apply in progress
  last,      \* the outcome of the latest apply
  faults

vars == <<dest, backup, side, journal, plan, evidence, active, run, last, faults>>

Steps == 1 .. 2
Paths == {"config", "codexA", "codexB"}
NoSide == [staged |-> "none", recovery |-> "none", failed |-> "none"]
Idle == [at |-> "idle", hash |-> {}, step |-> 0, touched |-> <<>>,
         before |-> [p \in Paths |-> "none"], lost |-> FALSE]

-----------------------------------------------------------------------------
(* Paths *)

\* rollback_resolution_context, trusted_rollback_destination: the destination of
\* a component, which must be a regular file.
TrustedDestination(i) == IF i = 1 THEN "config" ELSE evidence
DestinationsTrusted ==
  /\ evidence # "none"
  /\ \A i \in Steps : dest[TrustedDestination(i)] # "none"

\* trusted_rollback_steps: the steps of the manifest as they resolve now.
ManifestSteps == [i \in Steps |-> TrustedDestination(i)]

\* prepare_steps, sibling_path: no generated path may exist.
SiblingsFree(h) == side[h] = [i \in Steps |-> NoSide]

\* The siblings are free and the journal is created anew.
Begins(h) == SiblingsFree(h) /\ journal[h] = <<>>

\* validate_approved_plan: what the plan sealed is still there.
ApprovedPlanHolds(p) == \A i \in Steps : backup[i] = p.sha[i]

\* is_release_rollback_quiescent, read through the views of one workspace.
Quiescent == Own \notin active

Journalled(h, phase) == journal' = [journal EXCEPT ![h] = Append(@, phase)]

\* An I/O error of the step; the environment has a bounded number of them.
Fault == faults < MaxFaults /\ faults' = faults + 1

The(S) == CHOOSE x \in S : TRUE
Hash == The(run.hash)
Sealed == The(plan[Hash])
Path(i) == Sealed.steps[i]

-----------------------------------------------------------------------------
(* The commands *)

\* RollbackAction::Plan: the manifest is resolved, sealed and stored.
PlanRelease(h) ==
  /\ run.at = "idle" /\ plan[h] = {}
  /\ DestinationsTrusted
  /\ plan' = [plan EXCEPT ![h] = {[steps |-> ManifestSteps, sha |-> backup]}]
  /\ UNCHANGED <<dest, backup, side, journal, evidence, active, run, last, faults>>

\* RollbackAction::Apply up to the first journal entry: the sealed plan, the
\* manifest, the destinations, quiescence and the approval are checked again.
ApplyRelease(h) ==
  /\ run.at = "idle"
  /\ \E p \in plan[h] :
       /\ DestinationsTrusted /\ p.steps = ManifestSteps
       /\ Quiescent
       /\ ApprovedPlanHolds(p)
  /\ Begins(h)
  /\ Journalled(h, "transaction_started")
  /\ run' = [Idle EXCEPT !.at = "stage", !.hash = {h}, !.step = 1, !.before = dest]
  /\ UNCHANGED <<dest, backup, side, plan, evidence, active, last, faults>>

End(outcome) == run' = Idle /\ last' = [outcome |-> outcome, hash |-> run.hash,
                                        before |-> run.before, lost |-> run.lost]

\* All sources are staged, and hashed against the plan, before the first
\* destination changes; a failure here leaves the staged files behind.
StageFile ==
  /\ run.at = "stage"
  /\ LET i == run.step IN
     \/ /\ side' = [side EXCEPT ![Hash][i].staged = backup[i]]
        /\ IF backup[i] = Sealed.sha[i]
           THEN /\ run' = IF i = Len(Sealed.steps)
                          THEN [run EXCEPT !.at = "preserve", !.step = 1]
                          ELSE [run EXCEPT !.step = i + 1]
                /\ Journalled(Hash, "source_staged") /\ UNCHANGED last
           ELSE End("failed") /\ Journalled(Hash, "transaction_failed")
        /\ UNCHANGED faults
     \/ /\ Fault
        /\ \E written \in {side[Hash][i].staged, backup[i]} :
             side' = [side EXCEPT ![Hash][i].staged = written]
        /\ End("failed") /\ Journalled(Hash, "transaction_failed")
  /\ UNCHANGED <<dest, backup, plan, evidence, active>>

FailAndRecover(touched) ==
  run' = [run EXCEPT !.at = "recover", !.touched = touched]

\* Faulty variant: a step counts as touched once its artifact is installed.
PreserveLate ==
  /\ run.at = "preserve"
  /\ LET i == run.step IN
     /\ dest' = [dest EXCEPT ![Path(i)] = "none"]
     /\ side' = [side EXCEPT ![Hash][i].recovery = dest[Path(i)]]
     /\ run' = [run EXCEPT !.at = "install"]
     /\ Journalled(Hash, "destination_preserved") /\ UNCHANGED faults
  /\ UNCHANGED <<backup, plan, evidence, active, last>>

\* The destination is renamed to its recovery sibling, hashed and journalled.
Preserve ==
  /\ run.at = "preserve"
  /\ LET i == run.step
         now == Append(run.touched, i) IN
     \/ /\ dest[Path(i)] # "none"
        /\ dest' = [dest EXCEPT ![Path(i)] = "none"]
        /\ side' = [side EXCEPT ![Hash][i].recovery = dest[Path(i)]]
        /\ \/ /\ run' = [run EXCEPT !.at = "install", !.touched = now]
              /\ Journalled(Hash, "destination_preserved") /\ UNCHANGED faults
           \/ Fault /\ FailAndRecover(now) /\ Journalled(Hash, "transaction_failed")
     \/ /\ dest[Path(i)] = "none"
        /\ run' = [run EXCEPT !.at = "install", !.touched = now]
        /\ UNCHANGED <<dest, side, journal, faults>>
     \/ /\ dest[Path(i)] # "none" /\ Fault
        /\ FailAndRecover(run.touched) /\ Journalled(Hash, "transaction_failed")
        /\ UNCHANGED <<dest, side>>
  /\ UNCHANGED <<backup, plan, evidence, active, last>>

\* The staged artifact is renamed to the destination and journalled; the last
\* step also journals the completion.
Install ==
  /\ run.at = "install"
  /\ LET i == run.step IN
     \/ /\ dest' = [dest EXCEPT ![Path(i)] = side[Hash][i].staged]
        /\ side' = [side EXCEPT ![Hash][i].staged = "none"]
        /\ \/ /\ UNCHANGED faults
              /\ IF i = Len(Sealed.steps)
                 THEN End("applied") /\ Journalled(Hash, "transaction_completed")
                 ELSE /\ run' = [run EXCEPT !.at = "preserve", !.step = i + 1]
                      /\ Journalled(Hash, "rollback_artifact_installed")
                      /\ UNCHANGED last
           \/ /\ Fault /\ FailAndRecover(run.touched) /\ UNCHANGED last
              /\ Journalled(Hash, "transaction_failed")
     \/ /\ Fault /\ FailAndRecover(run.touched)
        /\ Journalled(Hash, "transaction_failed")
        /\ UNCHANGED <<dest, side, last>>
  /\ UNCHANGED <<backup, plan, evidence, active>>

\* fail_and_recover, one touched step at a time from the last: the failed
\* install is set aside, then the recovery sibling is renamed back.
RecoverStep ==
  /\ run.at = "recover" /\ run.touched # <<>>
  /\ LET i == run.touched[Len(run.touched)]
         rest == SubSeq(run.touched, 1, Len(run.touched) - 1)
         installed == dest[Path(i)] # "none"
         aside == IF installed THEN dest[Path(i)] ELSE side[Hash][i].failed
         kept == side[Hash][i].recovery IN
     \/ /\ side' = [side EXCEPT ![Hash][i].failed = aside, ![Hash][i].recovery = "none"]
        /\ dest' = [dest EXCEPT ![Path(i)] = kept]
        /\ run' = [run EXCEPT !.touched = rest]
        /\ UNCHANGED faults
     \/ /\ Fault /\ kept # "none"
        /\ run' = [run EXCEPT !.touched = rest, !.lost = TRUE]
        /\ \/ UNCHANGED <<dest, side>>
           \/ /\ installed
              /\ side' = [side EXCEPT ![Hash][i].failed = aside]
              /\ dest' = [dest EXCEPT ![Path(i)] = "none"]
  /\ Journalled(Hash, "destination_restored")
  /\ UNCHANGED <<backup, plan, evidence, active, last>>

RecoverEnds ==
  /\ run.at = "recover" /\ run.touched = <<>>
  /\ End("failed")
  /\ Journalled(Hash, "transaction_recovery_completed")
  /\ UNCHANGED <<dest, backup, side, plan, evidence, active, faults>>

-----------------------------------------------------------------------------
(* Environment *)

\* The process dies; nothing reads the journal afterwards.
Crash ==
  /\ run.at # "idle" /\ Fault
  /\ run' = Idle
  /\ last' = [outcome |-> "none", hash |-> {}, before |-> run.before, lost |-> FALSE]
  /\ UNCHANGED <<dest, backup, side, journal, plan, evidence, active>>

\* The administrator provisions the backups of the release again.
ProvisionBackup(i) ==
  /\ backup[i] = "new"
  /\ backup' = [backup EXCEPT ![i] = "newer"]
  /\ UNCHANGED <<dest, side, journal, plan, evidence, active, run, last, faults>>

\* The daemon, which cannot run during a maintenance command, starts and ends
\* work, and a Codex attempt completes with some executable.
Work(w) ==
  /\ run.at = "idle"
  /\ active' = IF w \in active THEN active \ {w} ELSE active \cup {w}
  /\ UNCHANGED <<dest, backup, side, journal, plan, evidence, run, last, faults>>

\* latest_completed_writable_attempt, as a new attempt completes.
AttemptCompletes(path) ==
  /\ run.at = "idle" /\ evidence' = path
  /\ UNCHANGED <<dest, backup, side, journal, plan, active, run, last, faults>>

Init ==
  /\ dest = [p \in Paths |-> "old"]
  /\ backup = [i \in Steps |-> "new"]
  /\ side = [h \in Plans |-> [i \in Steps |-> NoSide]]
  /\ journal = [h \in Plans |-> <<>>]
  /\ plan = [h \in Plans |-> {}]
  /\ evidence = "none" /\ active = {}
  /\ run = Idle
  /\ last = [outcome |-> "none", hash |-> {}, before |-> dest, lost |-> FALSE]
  /\ faults = 0

Next ==
  \/ \E h \in Plans : PlanRelease(h) \/ ApplyRelease(h)
  \/ StageFile \/ Preserve \/ Install \/ RecoverStep \/ RecoverEnds
  \/ Crash
  \/ \E i \in Steps : ProvisionBackup(i)
  \/ \E w \in Workspaces : Work(w)
  \/ \E path \in {"codexA", "codexB"} : AttemptCompletes(path)

Spec == Init /\ [][Next]_vars

-----------------------------------------------------------------------------
(* Properties *)

\* An apply that reports success installed every artifact its plan sealed; one
\* that reports a failure left every destination as it found it, unless the
\* recovery itself failed and said so.
AllOrNothing ==
  run.at = "idle" =>
    /\ last.outcome = "applied" =>
         \A h \in last.hash : \A p \in plan[h] : \A i \in Steps :
           dest[p.steps[i]] = p.sha[i]
    /\ last.outcome = "failed" /\ ~last.lost => dest = last.before

\* What was installed before the first rollback is never destroyed: whatever
\* fails, crashes or is tried again, it is at its destination or in the recovery
\* sibling of some plan.
OriginalKept ==
  \A p \in Paths :
    \/ dest[p] = "old"
    \/ \E h \in Plans : \E q \in plan[h] : \E i \in Steps :
         q.steps[i] = p /\ side[h][i].recovery = "old"

-----------------------------------------------------------------------------
(* The inductive invariant behind AllOrNothing and OriginalKept *)

Contents == {"none", "old", "new", "newer"}
Siblings == [staged : Contents, recovery : Contents, failed : Contents]
SealedPlans == [steps : [Steps -> Paths], sha : [Steps -> {"new", "newer"}]]
Phases == {"transaction_started", "source_staged", "transaction_failed",
           "destination_preserved", "rollback_artifact_installed",
           "transaction_completed", "destination_restored",
           "transaction_recovery_completed"}
Sides == [Plans -> [Steps -> Siblings]]
Prefixes == {[i \in 1 .. n |-> i] : n \in 0 .. 2}
RunStates == {"idle", "stage", "preserve", "install", "recover"}
Runs == [at : RunStates,
         hash : SUBSET Plans, step : 0 .. 2, touched : Prefixes,
         before : [Paths -> Contents], lost : BOOLEAN]
Reports == [outcome : {"none", "applied", "failed"}, hash : SUBSET Plans,
            before : [Paths -> Contents], lost : BOOLEAN]

\* Every variable has its shape; the touched steps are a prefix of the steps.
TypeOK ==
  /\ dest \in [Paths -> Contents]
  /\ backup \in [Steps -> {"new", "newer"}]
  /\ side \in Sides
  /\ journal \in [Plans -> Seq(Phases)]
  /\ plan \in [Plans -> SUBSET SealedPlans]
  /\ evidence \in {"none", "codexA", "codexB"}
  /\ active \subseteq Workspaces
  /\ run \in Runs
  /\ last \in Reports
  /\ faults \in Nat

\* A hash names one plan, whose two destinations are different files.
PlansSealed ==
  \A h \in Plans : \A p \in plan[h] :
    plan[h] = {p} /\ p.steps[1] = "config" /\ p.steps[2] \in {"codexA", "codexB"}

\* A report is about a plan that exists, so that no later plan changes it.
ReportHeld == \A h \in last.hash : plan[h] # {}

\* Where the file of step i is while plan p of hash h is applied: untouched, it
\* is where it was; touched, it is in the recovery sibling and the destination
\* holds nothing or the artifact.
StepHeld(h, p, i) ==
  LET file == dest[p.steps[i]]
      kept == side[h][i].recovery
      was == run.before[p.steps[i]]
      touched == i <= Len(run.touched)
      done == i < run.step IN
  /\ run.at \in {"stage", "preserve", "install"} =>
       /\ ~ touched => file = was /\ kept = "none"
       /\ run.at = "stage" => ~ touched /\ (done => side[h][i].staged = p.sha[i])
       /\ run.at \in {"preserve", "install"} =>
            /\ touched = (done \/ (run.at = "install" /\ i = run.step))
            /\ done => file = p.sha[i]
            /\ ~ done => side[h][i].staged = p.sha[i]
       /\ run.at = "install" /\ i = run.step => file = "none"
  /\ touched => kept = was /\ file # "old"
  /\ run.at = "recover" /\ ~ touched /\ ~ run.lost => file = was

\* What the apply of plan p has done so far, whichever step failed.
ApplyHeld(h, p) ==
  /\ run.hash = {h} /\ run.step \in Steps
  /\ run.at # "recover" => ~ run.lost
  /\ \A i \in Steps : StepHeld(h, p, i)
  /\ \A f \in Paths : f \notin {p.steps[1], p.steps[2]} => dest[f] = run.before[f]

RunHeld == run.at # "idle" => \E h \in Plans : \E p \in plan[h] : ApplyHeld(h, p)

IInv == TypeOK /\ PlansSealed /\ ReportHeld /\ RunHeld /\ AllOrNothing /\ OriginalKept

=============================================================================

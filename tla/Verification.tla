---------------------------- MODULE Verification ----------------------------
(***************************************************************************)
(* What a finished worker's result must show before its task is completed: *)
(* the verification engine (orchestrator-engine/verification.rs), the      *)
(* completion gate (orchestrator-domain/verification.rs) and their two     *)
(* callers.  The executor of the daemon (cli/task_executor.rs) scans the   *)
(* worktree, seals a checkpoint and verifies.  The coordinator             *)
(* (verify_and_finish, cli/app.rs) also has the diff reviewed, runs the    *)
(* project's own commands and judges every acceptance criterion.           *)
(*                                                                         *)
(* A changed file is what the checks tell apart: what its added and its    *)
(* removed lines hold, whether git shows them, and whether the file is     *)
(* longer than the scan reads.  An acceptance criterion is the set of      *)
(* evidence its wording asks for.                                          *)
(***************************************************************************)
EXTENDS Naturals, Sequences, SequencesExt, FiniteSets

CONSTANTS
    None,
    Files,          \* repository paths, as sequences of components
    Changes,        \* file -> what may happen to it
    Tasks,          \* envelopes: review, wide, scope (paths), criteria
    Manifests       \* the project files at the root of the worktree

VARIABLES
    caller,      \* "executor" or "coordinator"
    task,
    tree,        \* the changed files of the worktree
    manifest,
    outcome,     \* the worker's
    observed,    \* the commands that the worker was seen to run
    step,
    review,      \* the ReviewOutcome
    todo,        \* verification commands still to run
    tests,       \* TestEvidence, with what its command did
    result,      \* the VerificationResult
    state        \* of the task

vars == <<caller, task, tree, manifest, outcome, observed, step, review, todo, tests, result, state>>

----------------------------------------------------------------------------
(* The secret scan                                                          *)

\* added, removed: the contents of the lines; shown: git diffs the file as
\* text; large: longer than MAX_SECRET_SCAN_BYTES_PER_FILE, the secret beyond
\* what is read; gone: deleted.
Changed == DOMAIN tree

FindingsInDiff(everyByte) ==
    {f \in Changed : tree[f].shown /\ ("secret" = tree[f].added \/ (everyByte /\ "secret" = tree[f].removed))}

ScannedFiles == {f \in Changed : ~tree[f].gone}


\* scan_changed_files: the diff, whole or its added lines, and the beginning
\* of every changed file that still exists.
ScanChangedFiles(everyByte) ==
    [findings  |-> FindingsInDiff(everyByte)
                     \cup {f \in ScannedFiles : tree[f].added = "secret" /\ ~tree[f].large},
     truncated |-> {f \in ScannedFiles : tree[f].large}]

SafeToPersistOrShare(scan) == scan.findings = {} /\ scan.truncated = {}

PreflightPersistence == ScanChangedFiles(TRUE)

SecretScanStatus(scan) ==
    IF scan.findings # {} THEN "fail" ELSE IF scan.truncated # {} THEN "inconclusive" ELSE "pass"

----------------------------------------------------------------------------
(* The verification engine and the completion gate                          *)

PathIsExpected(path, expected) == \E prefix \in expected : IsPrefix(prefix, path)

ExpectedPaths == IF task.wide THEN Changed ELSE task.scope

PassIf(b) == IF b THEN "pass" ELSE "fail"

\* verify: one check for each kind of evidence.
Verify(input) ==
    LET outside == {f \in Changed : ~PathIsExpected(f, ExpectedPaths)}
        scan    == ScanChangedFiles(FALSE)
        reviewed == ~input.required \/ (input.passed /\ input.reviewer \notin {None, "implementer"})
        checks  ==
          [scope    |-> PassIf(outside = {}),
           commands |-> PassIf(\A t \in input.tests : t.exit = 0 /\ ~t.truncated),
           tests    |-> PassIf(\A t \in input.tests : t.status \in {"passed", "no test"}),
           criteria |-> PassIf(\A c \in DOMAIN input.criteria : input.criteria[c] = "pass"),
           todos    |-> PassIf(~input.unresolved),
           secrets  |-> SecretScanStatus(scan),
           review   |-> PassIf(reviewed)] IN
    [checks   |-> checks,
     status   |-> IF \E k \in DOMAIN checks : checks[k] = "fail" THEN "fail"
                  ELSE IF scan.truncated # {} THEN "inconclusive" ELSE "pass",
     approval |-> outside # {} \/ ~SafeToPersistOrShare(scan),
     outside  |-> outside,
     criteria |-> input.criteria,
     reviewer |-> input.reviewer]

PassesCompletionGate(r, required) ==
    /\ r.status = "pass"
    /\ ~r.approval
    /\ r.outside = {}
    /\ \A k \in DOMAIN r.checks : r.checks[k] = "pass"
    /\ \A c \in DOMAIN r.criteria : r.criteria[c] = "pass"
    /\ required => r.reviewer \notin {None, "implementer"} /\ r.checks.review = "pass"

----------------------------------------------------------------------------
(* The evidence of the coordinator                                          *)

\* verification_specs: the first manifest that is found decides.
VerificationSpecs(m) ==
    CASE m = "Cargo.toml" -> <<"fmt", "clippy", "check", "test">>
      [] m \in {"go.mod", "pyproject.toml", "package.json"} -> <<"test">>
      [] OTHER -> <<>>

\* What a command may do; a test passes when its command exits 0 and all of its
\* output was read.
CommandEnds == {[exit |-> 0, truncated |-> FALSE], [exit |-> 0, truncated |-> TRUE],
                [exit |-> 1, truncated |-> FALSE]}

TestEvidence(name, end) ==
    [name |-> name, exit |-> end.exit, truncated |-> end.truncated,
     status |-> IF end.exit = 0 /\ ~end.truncated THEN "passed" ELSE "failed"]

\* A command in the worker's own event stream: a test by its command line, with
\* the exit code the provider reports.
WorkerCommand(name, exit) ==
    [name |-> name, exit |-> exit, truncated |-> FALSE,
     status |-> IF name # "test" THEN "no test" ELSE IF exit = 0 THEN "passed" ELSE "failed"]

WorkerCommands == {WorkerCommand("test", 0), WorkerCommand("test", 1), WorkerCommand("other", 1)}

NoManifest == [name |-> None, exit |-> 0, truncated |-> FALSE, status |-> "inconclusive"]

\* The commands whose names match a category of a criterion's words.
Matching(category) ==
    {t \in tests \cup observed : t.status # "no test" /\ t.name = [test |-> "test", lint |-> "clippy", build |-> "check", format |-> "fmt"][category]}

Oracle(category) ==
    CASE category = "secret" -> SafeToPersistOrShare(PreflightPersistence)
      [] category = "scope"  -> \A f \in Changed : PathIsExpected(f, ExpectedPaths)
      [] OTHER -> Matching(category) # {} /\ \A t \in Matching(category) : t.status = "passed"

ReviewSatisfied == task.review => review.passed /\ review.met /\ review.by # None

\* acceptance_evidence: the oracles that the words of the criterion call for,
\* all of them; one with none needs an independent review.
AcceptanceEvidence(criterion) ==
    IF ~ReviewSatisfied THEN "inconclusive"
    ELSE IF (\A k \in criterion : Oracle(k)) /\ (criterion # {} \/ task.review) THEN "pass"
    ELSE IF criterion = {} THEN "inconclusive"
    ELSE "fail"

AddedTodoMarkers == \E f \in Changed : tree[f].shown /\ tree[f].added = "todo"

----------------------------------------------------------------------------
(* The two callers                                                          *)

NoReview == [by |-> None, passed |-> TRUE, met |-> FALSE, findings |-> FALSE]
Blocked == [by |-> None, passed |-> FALSE, met |-> FALSE, findings |-> TRUE]

\* The worker has ended; the coordinator comes here only with one that
\* succeeded, the executor of the daemon with any.
Init ==
    /\ caller \in {"executor", "coordinator"}
    /\ task \in Tasks
    /\ \E C \in SUBSET Files : tree \in [C -> UNION {Changes[f] : f \in C}]
    /\ \A f \in DOMAIN tree : tree[f] \in Changes[f]
    /\ manifest \in Manifests
    /\ outcome \in {"succeeded", "failed"}
    /\ observed \in SUBSET WorkerCommands
    /\ caller = "coordinator" => outcome = "succeeded"
    /\ caller = "executor" => observed = {}
    /\ step = "preflight"
    /\ review = NoReview
    /\ todo = <<>>
    /\ tests = {}
    /\ result = None
    /\ state = "verifying"

Keep == UNCHANGED <<caller, task, tree, manifest, outcome, observed>>

\* Nothing that may hold a secret is sealed: the executor ends with an error.
PreflightExecutor ==
    /\ step = "preflight" /\ caller = "executor"
    /\ IF SafeToPersistOrShare(PreflightPersistence)
       THEN step' = "verify" /\ UNCHANGED state
       ELSE step' = "ended" /\ state' = "failed"
    /\ UNCHANGED <<review, todo, tests, result>> /\ Keep

\* The executor takes the provider's completion for every criterion, and runs
\* neither tests nor a review.
VerifyExecutor ==
    /\ step = "verify" /\ caller = "executor"
    /\ result' = Verify([required |-> FALSE, passed |-> FALSE, reviewer |-> None, tests |-> {},
                         unresolved |-> FALSE,
                         criteria |-> [c \in task.criteria |-> PassIf(outcome = "succeeded")]])
    /\ step' = "finish"
    /\ UNCHANGED <<review, todo, tests, state>> /\ Keep

\* passed_completion_gate of the report; the daemon ends any other as failed.
FinishExecutor ==
    /\ step = "finish" /\ caller = "executor"
    /\ state' = IF outcome = "succeeded" /\ PassesCompletionGate(result, FALSE)
                THEN "completed" ELSE "failed"
    /\ step' = "ended"
    /\ UNCHANGED <<review, todo, tests, result>> /\ Keep

\* A diff that may hold a secret is not shown to a reviewer.
PreflightCoordinator ==
    /\ step = "preflight" /\ caller = "coordinator"
    /\ IF ~SafeToPersistOrShare(PreflightPersistence)
       THEN review' = Blocked /\ step' = "commands"
       ELSE review' = NoReview /\ step' = IF task.review THEN "review" ELSE "commands"
    /\ todo' = VerificationSpecs(manifest)
    /\ UNCHANGED <<tests, result, state>> /\ Keep

\* No reviewer satisfies the routing policy, or one other than the implementer
\* answers; its decision counts only in the required form.
Review ==
    /\ step = "review"
    /\ \/ review' = Blocked
       \/ \E approved, met, findings \in BOOLEAN :
             review' = [by |-> "other", passed |-> approved, met |-> met, findings |-> findings]
    /\ step' = "commands"
    /\ UNCHANGED <<todo, tests, result, state>> /\ Keep

RunVerificationCommand ==
    /\ step = "commands" /\ todo # <<>>
    /\ \E end \in CommandEnds : tests' = tests \cup {TestEvidence(Head(todo), end)}
    /\ todo' = Tail(todo)
    /\ UNCHANGED <<step, review, result, state>> /\ Keep

VerifyCoordinator ==
    /\ step = "commands" /\ todo = <<>>
    /\ result' = Verify([required |-> task.review, passed |-> review.passed, reviewer |-> review.by,
                         tests |-> observed \cup (IF tests = {} THEN {NoManifest} ELSE tests),
                         unresolved |-> AddedTodoMarkers \/ review.findings,
                         criteria |-> [c \in task.criteria |-> AcceptanceEvidence(c)]])
    /\ step' = "finish"
    /\ UNCHANGED <<review, todo, tests, state>> /\ Keep

FinishCoordinator ==
    /\ step = "finish" /\ caller = "coordinator"
    /\ state' = IF PassesCompletionGate(result, task.review) THEN "completed" ELSE "blocked"
    /\ step' = "ended"
    /\ UNCHANGED <<review, todo, tests, result>> /\ Keep

Next ==
    \/ PreflightExecutor \/ VerifyExecutor \/ FinishExecutor
    \/ PreflightCoordinator \/ Review \/ RunVerificationCommand
    \/ VerifyCoordinator \/ FinishCoordinator

Spec == Init /\ [][Next]_vars

----------------------------------------------------------------------------

\* A task is completed, by either caller, only with every changed file inside
\* its scope, and with no secret in what the worker wrote: not in a line git
\* shows, nor in a binary file, nor beyond the part of a file that the scan
\* reads (verification.rs:79, 225).
CompletedIsClean ==
    state = "completed" =>
        /\ \A f \in Changed : task.wide \/ \E p \in task.scope : IsPrefix(p, f)
        /\ \A f \in Changed : tree[f].added = "secret" => tree[f].gone

\* What completes through the coordinator has evidence for every acceptance
\* criterion.  The project's own commands ran after the worker and every one of
\* them passed, whatever the worker was seen to run; a criterion that speaks of
\* lint, build or format has the command for it; one that speaks of nothing
\* that can be checked has the review of another provider, which approved the
\* diff and found the criteria met (app.rs:4700).
CriteriaHaveEvidence ==
    state = "completed" /\ caller = "coordinator" =>
        /\ task.review => review.by = "other" /\ review.passed /\ review.met
        /\ \A c \in task.criteria :
             /\ c = {} => task.review
             /\ \A k \in c \cap {"lint", "build", "format"} :
                    \E t \in tests : k = [clippy |-> "lint", check |-> "build", fmt |-> "format", test |-> "test"][t.name]
        /\ tests # {}
        /\ \A t \in tests \cup observed : t.exit = 0 /\ ~t.truncated

\* threat-model.md:12: "A provider's success statement is never verification
\* evidence."  Whoever completes a task, each of its acceptance criteria has
\* evidence of another origin than the worker's own completion: a command that
\* was run, a review, or the scan and the scope when the criterion is about
\* them.
SuccessIsNoEvidence ==
    state = "completed" =>
        \A c \in task.criteria :
            \/ tests # {}
            \/ review.by = "other"
            \/ c # {} /\ c \subseteq {"secret", "scope"}

=============================================================================

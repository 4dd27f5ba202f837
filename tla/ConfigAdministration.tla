------------------------ MODULE ConfigAdministration ------------------------
(***************************************************************************)
(* The configuration of Colay and the commands that change it.             *)
(*                                                                         *)
(* Files are partial overrides of the compiled defaults, merged in the     *)
(* order global < repository (or the legacy repository file) < the file of *)
(* COLAY_CONFIG < the file of --config.  A command loads the effective     *)
(* configuration, picks the one file it may edit, reads it, changes one    *)
(* value and has the daemon replace the file; `init` writes a new file     *)
(* itself, `migrate apply` upgrades an old file under the owner lock after *)
(* a backup, and the administration dashboard of the chat edits with the   *)
(* configuration the chat was opened with.  Several commands, and the      *)
(* user's editor, may be at work at the same time: nothing locks a file    *)
(* between its read and its replacement.                                   *)
(***************************************************************************)
EXTENDS Integers, Sequences, FiniteSets, SequencesExt, TLC

CONSTANTS Commands,    \* concurrent command-line processes
          Kind,        \* Kind[c] \subseteq Kinds: what c may be asked for
          Selectors,   \* Selectors[c]: the --config values c may be given
          Start,       \* the sets of files the run may start with
          UserDocs,    \* what the user's editor may save
          MaxEdits,    \* how often the user's editor saves
          MaxVisits,   \* how often a chat opens the dashboard
          None

Kinds == {"set", "reset", "init", "migrate", "dashboard"}

Paths == {"global", "repository", "legacy", "env", "cli"}

Keys == {"routing", "model", "state_dir"}

\* CONFIG_SCHEMA_VERSION.
Current == 4

\* A document is a version (0: no readable version) and the values it sets.
Document == [version : 0 .. Current + 1, set : UNION {[K -> STRING] : K \in SUBSET Keys}]

Missing == [version |-> -1, set |-> <<>>]

\* RootConfig::default(): every value has a compiled default.
Defaults == [routing |-> "on", model |-> "preset", state_dir |-> ".colay"]

\* config.example.toml, the template of new files: a version and no value.
Template == [version |-> Current, set |-> <<>>]

\* validate: a value that no typed configuration accepts.
ValidValues(values) == \A k \in DOMAIN values : values[k] # "bad"

VARIABLES file,        \* path -> document or Missing
          outside,     \* the explicit files that lie outside the workspace
          env,         \* COLAY_CONFIG
          daemon,      \* is the user daemon running, holding the owner lock?
          owner,       \* the command that holds the owner lock for maintenance
          pc, kind, cli, target, doc, shown, backup, visits,
          quiet,       \* nobody else wrote a file since the command loaded
          edits

vars == <<file, outside, env, daemon, owner, pc, kind, cli, target, doc, shown,
          backup, visits, quiet, edits>>

----------------------------------------------------------------------------
(* Loading                                                                 *)

Exists(f, p) == f[p] # Missing

\* An explicit --config of one of the two repository files settles which is meant.
Conflict(f, c) == Exists(f, "repository") /\ Exists(f, "legacy") /\ c \notin {"repository", "legacy"}

\* The repository layer, when exactly one of its two files exists.
RepositoryLayer(f) ==
  SelectSeq(<<"repository", "legacy">>,
            LAMBDA p : Exists(f, p) /\ ~(Exists(f, "repository") /\ Exists(f, "legacy")))

\* The layers in the order they are merged; explicit ones are required to exist.
Sources(f, c, e) ==
  SelectSeq(<<"global">>, LAMBDA p : Exists(f, p))
    \o RepositoryLayer(f)
    \o (IF e = None THEN <<>> ELSE <<e>>)
    \o (IF c = None THEN <<>> ELSE <<c>>)

\* validate_layer_version
LayerVersionOk(f, p) == f[p].version = Current

\* merge_table: a value of a later layer replaces that of an earlier one.
MergeTable(below, above) == above @@ below

Effective(f, c, e) ==
  FoldLeft(LAMBDA merged, p : MergeTable(merged, f[p].set), Defaults, Sources(f, c, e))

\* load_effective_config, and the ConfigDocument::parse of the merged document
Loads(f, c, e) ==
  /\ ~Conflict(f, c)
  /\ \A i \in DOMAIN Sources(f, c, e) : LayerVersionOk(f, Sources(f, c, e)[i])
  /\ ValidValues(Effective(f, c, e))

ConfigEditPathRepositoryFirst(f, c, e) ==
  CASE c # None -> c
    [] c = None /\ RepositoryLayer(f) # <<>> -> RepositoryLayer(f)[1]
    [] c = None /\ RepositoryLayer(f) = <<>> /\ e # None -> e
    [] OTHER -> "repository"

\* The one file a command may edit: the explicit selector, then COLAY_CONFIG,
\* then the repository layer that was loaded, else a new repository file.
ConfigEditPath(f, c, e) ==
  CASE c # None -> c
    [] c = None /\ e # None -> e
    [] c = None /\ e = None /\ RepositoryLayer(f) # <<>> -> RepositoryLayer(f)[1]
    [] OTHER -> "repository"

\* configured_edit_path: where `init` creates a file.
ConfiguredEditPath(c, e) == CASE c # None -> c [] c = None /\ e # None -> e [] OTHER -> "repository"

----------------------------------------------------------------------------
(* Documents                                                               *)

Insert(d, k, v) == [d EXCEPT !.set = (k :> v) @@ @]

\* set_profile_override, and the other single-value overrides
SetOverride(d, k, v) == Insert(d, k, v)

\* reset_profile_override removes the value, if the file has one.
HasOverride(d, k) == k \in DOMAIN d.set
ResetOverride(d, k) == [d EXCEPT !.set = [x \in DOMAIN d.set \ {k} |-> d.set[x]]]

\* Each migration step makes a default explicit that the version meant.
MigrateStep(d, k, v) ==
  [(IF k \in DOMAIN d.set THEN d ELSE Insert(d, k, v)) EXCEPT !.version = d.version + 1]
MigrateV1ToV2(d) == MigrateStep(d, "routing", "on")
MigrateV2ToV3(d) == [d EXCEPT !.version = 3]        \* an empty list of redaction patterns
MigrateV3ToV4(d) == MigrateStep(d, "state_dir", ".codex/orchestrator")

\* config_migration_plan and dry_run: the steps from the document's version on
Migrated(d) ==
  CASE d.version = 1 -> MigrateV3ToV4(MigrateV2ToV3(MigrateV1ToV2(d)))
    [] d.version = 2 -> MigrateV3ToV4(MigrateV2ToV3(d))
    [] d.version = 3 -> MigrateV3ToV4(d)
    [] OTHER -> d

\* validate_migratable_version
Migratable(d) == d.version \in 1 .. Current

\* What a file of an old version meant for the values it leaves out.
Meaning(d) ==
  IF d.version < 4 THEN d.set @@ [Defaults EXCEPT !.state_dir = ".codex/orchestrator"]
                   ELSE d.set @@ Defaults

----------------------------------------------------------------------------
(* Commands                                                                *)

Go(c, label) == pc' = [pc EXCEPT ![c] = label]

\* Somebody replaced a file: every other command's view of it is old.
Disturb(c) == quiet' = [x \in Commands |-> IF x = c THEN quiet[x] ELSE FALSE]

\* The value the command is asked to store, and its key.
KeyOf(c) == IF kind[c] = "dashboard" THEN "routing" ELSE "model"
ValueOf(c) ==
  CASE kind[c] = "dashboard" -> IF shown[c] = "on" THEN "off" ELSE "on"
    [] OTHER -> "m1"

RuntimeLoads(c) == kind[c] # "init" /\ Loads(file, cli[c], env)

\* load_config_runtime, the first step of every command but init
LoadRuntime(c) ==
  /\ pc[c] = "start"
  /\ RuntimeLoads(c)
  /\ target' = [target EXCEPT ![c] = ConfigEditPath(file, cli[c], env)]
  /\ shown' = [shown EXCEPT ![c] = Effective(file, cli[c], env)["routing"]]
  /\ quiet' = [quiet EXCEPT ![c] = TRUE]
  /\ Go(c, CASE kind[c] = "dashboard" -> "connect" [] kind[c] = "migrate" -> "preview" [] OTHER -> "read")
  /\ UNCHANGED <<file, outside, env, daemon, owner, kind, cli, doc, backup, visits, edits>>

\* migration_fallback_path: with a configuration that does not load, `migrate`
\* still finds the old file to upgrade if everything below it loads.
FallbackTarget(c) ==
  CASE cli[c] # None -> cli[c]
    [] cli[c] = None /\ env # None -> env
    [] cli[c] = None /\ env = None /\ Exists(file, "repository") -> "repository"
    [] cli[c] = None /\ env = None /\ ~Exists(file, "repository") /\ Exists(file, "legacy") -> "legacy"
    [] OTHER -> None

\* The files the preflight sees: none of the repository's when one is upgraded.
Preflight(t) ==
  IF t \in {"repository", "legacy"}
    THEN [file EXCEPT !["repository"] = Missing, !["legacy"] = Missing]
    ELSE file

FallbackFound(c) ==
  LET t == FallbackTarget(c) IN
  /\ kind[c] = "migrate"
  /\ ~Loads(file, cli[c], env)
  /\ ~Conflict(file, cli[c])
  /\ t # None
  /\ Exists(file, t)
  /\ Migratable(file[t])
  /\ file[t].version < Current
  /\ Loads(Preflight(t), None, IF t = env THEN None ELSE env)

LoadFallback(c) ==
  /\ pc[c] = "start"
  /\ FallbackFound(c)
  /\ target' = [target EXCEPT ![c] = FallbackTarget(c)]
  /\ quiet' = [quiet EXCEPT ![c] = TRUE]
  /\ Go(c, "preview")
  /\ UNCHANGED <<file, outside, env, daemon, owner, kind, cli, doc, shown, backup, visits, edits>>

\* load_initialization_config_runtime: selectors that do not exist yet are left out.
InitCli(c) == IF cli[c] # None /\ Exists(file, cli[c]) THEN cli[c] ELSE None
InitEnv == IF env # None /\ Exists(file, env) THEN env ELSE None

\* initialize up to its save: it refuses an existing file and a legacy layer.
MayInitialize(c) ==
  /\ ~Exists(file, ConfiguredEditPath(cli[c], env))
  /\ "legacy" \notin Range(RepositoryLayer(file))

InitLoads(c) == kind[c] = "init" /\ Loads(file, InitCli(c), InitEnv) /\ MayInitialize(c)

LoadInit(c) ==
  /\ pc[c] = "start"
  /\ InitLoads(c)
  /\ target' = [target EXCEPT ![c] = ConfiguredEditPath(cli[c], env)]
  /\ quiet' = [quiet EXCEPT ![c] = TRUE]
  /\ Go(c, "create")
  /\ UNCHANGED <<file, outside, env, daemon, owner, kind, cli, doc, shown, backup, visits, edits>>

\* save_override_atomic, by the init command itself
Create(c) ==
  /\ pc[c] = "create"
  /\ file' = [file EXCEPT ![target[c]] = Template]
  /\ Disturb(c)
  /\ Go(c, "done")
  /\ UNCHANGED <<outside, env, daemon, owner, kind, cli, target, doc, shown, backup, visits, edits>>

\* Every load that fails ends the command with the error.
LoadFails(c) ==
  /\ pc[c] = "start"
  /\ ~RuntimeLoads(c)
  /\ ~FallbackFound(c)
  /\ ~InitLoads(c)
  /\ Go(c, "failed")
  /\ UNCHANGED <<file, outside, env, daemon, owner, kind, cli, target, doc, shown, backup, visits, quiet, edits>>

\* tui: the chat connects to the daemon, and starts it if need be.
ConnectChat(c) ==
  /\ pc[c] = "connect"
  /\ IF owner = None THEN Go(c, "chat") /\ daemon' = TRUE ELSE Go(c, "failed") /\ UNCHANGED daemon
  /\ UNCHANGED <<file, outside, env, owner, kind, cli, target, doc, shown, backup, visits, quiet, edits>>

\* legacy_tui: the dashboard is opened from the chat and shows the values of
\* the runtime the chat was started with.
OpenDashboard(c) ==
  /\ pc[c] = "chat"
  /\ visits[c] < MaxVisits
  /\ visits' = [visits EXCEPT ![c] = @ + 1]
  /\ Go(c, "read")
  /\ UNCHANGED <<file, outside, env, daemon, owner, kind, cli, target, doc, shown, backup, quiet, edits>>

\* load_edit_document, and the change of the document in memory
EditDocument(c) ==
  LET current == IF Exists(file, target[c]) THEN file[target[c]] ELSE Template IN
  /\ pc[c] = "read"
  /\ \/ /\ current.version # 0
        /\ kind[c] = "reset" => HasOverride(current, KeyOf(c))
        /\ doc' = [doc EXCEPT ![c] = IF kind[c] = "reset" THEN ResetOverride(current, KeyOf(c))
                                     ELSE SetOverride(current, KeyOf(c), ValueOf(c))]
        /\ Go(c, "write")
     \/ /\ \/ current.version = 0
           \/ kind[c] = "reset" /\ ~HasOverride(current, KeyOf(c))
        /\ Go(c, "failed")
        /\ UNCHANGED doc
  /\ UNCHANGED <<file, outside, env, daemon, owner, kind, cli, target, shown, backup, visits, quiet, edits>>

\* workspace.config.write: the daemon, started if need be, replaces the whole
\* file; it writes inside the workspace and the global file only.
WriteWorkspaceConfig(c) ==
  /\ pc[c] = "write"
  /\ \/ /\ owner = None
        /\ target[c] \notin outside
        /\ daemon' = TRUE
        /\ file' = [file EXCEPT ![target[c]] = doc[c]]
        /\ Disturb(c)
        /\ Go(c, "reload")
     \/ /\ owner = None
        /\ target[c] \in outside
        /\ daemon' = TRUE
        /\ Go(c, "failed")
        /\ UNCHANGED <<file, quiet>>
     \/ /\ owner # None          \* no daemon can start during maintenance
        /\ Go(c, "failed")
        /\ UNCHANGED <<file, quiet, daemon>>
  /\ UNCHANGED <<outside, env, owner, kind, cli, target, doc, shown, backup, visits, edits>>

\* The effective value of the layers other than the edited one.
Below(c) ==
  Effective([file EXCEPT ![target[c]] = Template], cli[c], env)[KeyOf(c)]

\* What the reload of a command checks.
Survived(c) ==
  /\ Loads(file, cli[c], env)
  /\ kind[c] = "set" => Effective(file, cli[c], env)["model"] = "m1"

Reload(c) ==
  /\ pc[c] = "reload"
  /\ Go(c, IF ~Survived(c) THEN "failed" ELSE IF kind[c] = "dashboard" THEN "chat" ELSE "done")
  /\ UNCHANGED <<file, outside, env, daemon, owner, kind, cli, target, doc, shown, backup, visits, quiet, edits>>

----------------------------------------------------------------------------
(* migrate apply                                                           *)

\* migration_config_preview: the file is read and its migration validated in
\* memory; a current file needs none.
Preview(c) ==
  LET d == file[target[c]] IN
  /\ pc[c] = "preview"
  /\ \/ /\ d # Missing /\ Migratable(d) /\ d.version < Current
        /\ ValidValues(Migrated(d).set)
        /\ doc' = [doc EXCEPT ![c] = d]
        /\ Go(c, "maintain")
     \/ /\ \/ d = Missing
           \/ d.version = Current
        /\ Go(c, "done")
        /\ UNCHANGED doc
     \/ /\ d # Missing
        /\ d.version # Current
        /\ ~Migratable(d) \/ ~ValidValues(Migrated(d).set)
        /\ Go(c, "failed")
        /\ UNCHANGED doc
  /\ UNCHANGED <<file, outside, env, daemon, owner, kind, cli, target, shown, backup, visits, quiet, edits>>

\* acquire_maintenance: the owner lock, which a running daemon holds
AcquireMaintenance(c) ==
  /\ pc[c] = "maintain"
  /\ IF daemon \/ owner # None
       THEN Go(c, "failed") /\ UNCHANGED owner
       ELSE Go(c, "compare") /\ owner' = c
  /\ UNCHANGED <<file, outside, env, daemon, kind, cli, target, doc, shown, backup, visits, quiet, edits>>

\* A command that leaves its maintenance releases the lock.
Leave(c, label) == Go(c, label) /\ owner' = None

\* apply_to_file: the file must still be the one the plan was made from.
CompareSource(c) ==
  /\ pc[c] = "compare"
  /\ IF file[target[c]] = doc[c] THEN Go(c, "backup") /\ UNCHANGED owner ELSE Leave(c, "failed")
  /\ UNCHANGED <<file, outside, env, daemon, kind, cli, target, doc, shown, backup, visits, quiet, edits>>

\* backup_before_migration copies the file, and the copy must equal the source.
Backup(c) ==
  /\ pc[c] = "backup"
  /\ backup' = [backup EXCEPT ![c] = file[target[c]]]
  /\ IF file[target[c]] = doc[c] THEN Go(c, "save") /\ UNCHANGED owner ELSE Leave(c, "failed")
  /\ UNCHANGED <<file, outside, env, daemon, kind, cli, target, doc, shown, visits, quiet, edits>>

\* save_atomic of the migrated document, whatever the file holds by now
SaveMigrated(c) ==
  /\ pc[c] = "save"
  /\ file' = [file EXCEPT ![target[c]] = Migrated(doc[c])]
  /\ Disturb(c)
  /\ Leave(c, "done")
  /\ UNCHANGED <<outside, env, daemon, kind, cli, target, doc, shown, backup, visits, edits>>

----------------------------------------------------------------------------
(* Surroundings                                                            *)

\* The user saves an existing file from an editor.
UserSaves ==
  /\ edits < MaxEdits
  /\ edits' = edits + 1
  /\ \E p \in {x \in Paths : Exists(file, x)}, d \in UserDocs : file' = [file EXCEPT ![p] = d]
  /\ quiet' = [x \in Commands |-> FALSE]
  /\ UNCHANGED <<outside, env, daemon, owner, pc, kind, cli, target, doc, shown, backup, visits>>

\* The user stops the daemon.
StopDaemon ==
  /\ daemon
  /\ daemon' = FALSE
  /\ UNCHANGED <<file, outside, env, owner, pc, kind, cli, target, doc, shown, backup, visits, quiet, edits>>

Init ==
  /\ file \in Start
  /\ env \in {None, "env"}
  /\ outside \in {{}, {env} \ {None}}
  /\ daemon = FALSE
  /\ owner = None
  /\ pc = [c \in Commands |-> "start"]
  /\ kind \in {f \in [Commands -> Kinds] : \A c \in Commands : f[c] \in Kind[c]}
  /\ cli \in {f \in [Commands -> {None} \cup Paths] : \A c \in Commands : f[c] \in Selectors[c]}
  /\ target = [c \in Commands |-> None]
  /\ doc = [c \in Commands |-> Missing]
  /\ shown = [c \in Commands |-> "on"]
  /\ backup = [c \in Commands |-> Missing]
  /\ visits = [c \in Commands |-> 0]
  /\ quiet = [c \in Commands |-> FALSE]
  /\ edits = 0

Next ==
  \/ \E c \in Commands :
       \/ LoadRuntime(c)
       \/ LoadFallback(c)
       \/ LoadInit(c)
       \/ LoadFails(c)
       \/ Create(c)
       \/ ConnectChat(c)
       \/ OpenDashboard(c)
       \/ EditDocument(c)
       \/ WriteWorkspaceConfig(c)
       \/ Reload(c)
       \/ Preview(c)
       \/ AcquireMaintenance(c)
       \/ CompareSource(c)
       \/ Backup(c)
       \/ SaveMigrated(c)
  \/ UserSaves
  \/ StopDaemon

Spec == Init /\ [][Next]_vars

----------------------------------------------------------------------------
(* Properties                                                              *)

\* An edit that nobody disturbed takes effect: the file a command edits is the
\* last of the layers that are loaded, so the value it stored is the effective
\* one (set), and a removed value reveals the one of the layers below (reset).
EditTakesEffect ==
  \A c \in Commands :
    pc[c] = "reload" /\ quiet[c] =>
      /\ Loads(file, cli[c], env)
      /\ Effective(file, cli[c], env)[KeyOf(c)] =
           IF kind[c] = "reset" THEN Below(c) ELSE doc[c].set[KeyOf(c)]

\* No undisturbed command makes a configuration unreadable that could be read
\* before: `init` never adds the second of the two repository files (unless it
\* is told to by --config), and an edit never stores an invalid document.
StaysLoadable ==
  [][\A c \in Commands, s \in {None, "cli"} :
       pc[c] \in {"create", "write", "save"} /\ pc'[c] \in {"done", "reload"} /\ file' # file /\ quiet[c] =>
         (cli[c] = "legacy" /\ kind[c] = "init") \/ (Loads(file, s, env) => Loads(file', s, env))]_vars

\* A migration keeps what it replaces and means the same: the document it was
\* computed from is in the backup, and every value the old version implied
\* (above all the legacy state directory) is the value the new file gives.
MigrationPreserves ==
  \A c \in Commands :
    kind[c] = "migrate" /\ pc[c] = "done" /\ doc[c] # Missing =>
      /\ backup[c] = doc[c]
      /\ Meaning(Migrated(doc[c])) = Meaning(doc[c])

=============================================================================

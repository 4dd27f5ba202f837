------------------------------ MODULE LegacyImport ------------------------------
(***************************************************************************)
(* Import of a repository-local state store into the global database       *)
(* (orchestrator-state: legacy_import.rs, import_scratch.rs, artifacts.rs, *)
(* sqlite_snapshot.rs, source_guard.rs).                                   *)
(*                                                                         *)
(* An importer inspects the source (the database, then the files), seals a *)
(* plan, checks the ledger, captures database and files once more into a   *)
(* staging directory, rewrites the rows, and in one transaction copies     *)
(* them, records the ledger row and renames the staging directory to its   *)
(* published name, before the transaction commits.  The source may be      *)
(* written meanwhile by an older program; importers may die at any step.   *)
(*                                                                         *)
(* A hash is the value it is the hash of.  An image of the database names  *)
(* its bytes: two images may have the same logical content, because the    *)
(* fingerprint leaves out the daemon_instances of the source.              *)
(***************************************************************************)
EXTENDS Naturals, Sequences, SequencesExt, FiniteSets

CONSTANTS
    Importers,     \* processes, or activations of one daemon
    Roots,         \* places of a source
    Workspaces,
    Targets,       \* pairs: a root and the workspace it is registered for
    Images,        \* 1 .. n -> [logical, live, exported], what the source
                   \* database holds, in the order in which it changes
    Files,         \* 1 .. n -> [lines], the same for its files
    Contents,      \* logical content -> [rows, events]
    Start,         \* root -> the image it holds at first
    OwnIds,        \* ids that the program itself uses in a workspace
    MaxWrites,     \* how often the sources are written (a bound)
    MaxCrashes,    \* how many importers die (a bound)
    None

Fingerprints == DOMAIN Contents

VARIABLES
    source,     \* root -> [image, files]
    seen,       \* history: root -> the pairs of image and files it has held
    imp,        \* importer -> what it is doing, NoImport when nothing
    scratch,    \* attempt directories below import-scratch: <<lock key, importer>>
    staging,    \* <<workspace, fingerprint>> -> what <fingerprint>.staging holds
    published,  \* the same for imports/<fingerprint>
    rows,       \* workspace -> its rows
    events,     \* workspace -> its audit chain
    ledger,     \* fingerprint -> legacy_imports row, or None
    writes, crashes

vars == <<source, seen, imp, scratch, staging, published, rows, events, ledger, writes, crashes>>

dbVars == <<rows, events, ledger>>
fsVars == <<scratch, staging, published>>
sourceVars == <<source, seen, writes>>

-----------------------------------------------------------------------------
(* Locks are held by open files: a process that dies releases them. *)

NoImport == [pc |-> "idle"]

Running(p) == imp[p] # NoImport

Fingerprint(p) == imp[p].plan.logical

(* inspect_for_prepare names its scratch after the place of the source,    *)
(* prepare_inspection after the fingerprint of its content.                *)
ScratchKeys(p) ==
    IF ~ Running(p) THEN {}
    ELSE {imp[p].root} \cup (IF imp[p].staged THEN {Fingerprint(p)} ELSE {})

ScratchFree(key) == \A p \in Importers : key \notin ScratchKeys(p)

StagingOf(p) == <<imp[p].ws, Fingerprint(p)>>

StagingFree(d) == \A p \in Importers : Running(p) /\ imp[p].staged => StagingOf(p) # d

(* LegacyImportScratch::acquire: under the lock of the key, attempts whose *)
(* owner is gone are removed.                                              *)
Scavenged(key) == {a \in scratch : a[1] # key \/ key \in ScratchKeys(a[2])}

(* Drop of the scratch and of the staging: each removes what it owns, the  *)
(* published directory only if this importer renamed it and did not commit.*)
Dropped(p) == {a \in scratch : a[2] # p \/ a[1] \notin ScratchKeys(p)}

DropImport(p) ==
    /\ imp' = [imp EXCEPT ![p] = NoImport]
    /\ scratch' = Dropped(p)
    /\ IF ~ imp[p].staged
       THEN UNCHANGED <<staging, published>>
       ELSE IF imp[p].pc = "published"
       THEN published' = [published EXCEPT ![StagingOf(p)] = None] /\ UNCHANGED staging
       ELSE staging' = [staging EXCEPT ![StagingOf(p)] = None] /\ UNCHANGED published

Init ==
    /\ source = [r \in Roots |-> [image |-> Start[r], files |-> 1]]
    /\ seen = [r \in Roots |-> {<<Start[r], 1>>}]
    /\ imp = [p \in Importers |-> NoImport]
    /\ scratch = {}
    /\ staging = [d \in Workspaces \X Fingerprints |-> None]
    /\ published = staging
    /\ rows = [w \in Workspaces |-> {}]
    /\ events = [w \in Workspaces |-> <<>>]
    /\ ledger = [fp \in Fingerprints |-> None]
    /\ writes = 0 /\ crashes = 0

-----------------------------------------------------------------------------
(* The rows.  A row has its id, the ids its columns refer to, a document   *)
(* that repeats some of them and says where artifacts are, the seal (hash) *)
(* of the document, and a seal of another row that it cites.               *)

Seal(r) == <<r.kind, r.doc>>

(* The document of r, with its own id, the columns in fields, and paths    *)
(* below the directory `at`.                                               *)
Says(r, fields, at) ==
    [id |-> r.id, refs |-> [f \in fields |-> r.refs[f]], at |-> at]

Sealed(r) == [r EXCEPT !.seal = Seal(r)]

Of(kind, c) == {r \in c : r.kind = kind}

(* What the importer requires of each kind of document: it agrees with its *)
(* row and carries the seal of what it says.                               *)
ValidTasksAndAttempts(c) ==
    /\ \A r \in Of("task", c) : r.doc = Says(r, {}, None)
    /\ \A r \in Of("attempt", c) : r.doc = Says(r, {"task"}, None)

ValidCheckpoints(c) ==
    \A r \in Of("checkpoint", c) : r.doc = Says(r, {"task", "attempt"}, None) /\ r.seal = Seal(r)

ValidHandovers(c) ==
    \A r \in Of("handover", c) :
        r.doc = Says(r, {"task"}, None) /\ r.seal = Seal(r) /\ r.cites \in {None, r.seal}

ValidVerifications(c) == \A r \in Of("verification", c) : r.doc = Says(r, {"task"}, None)

ValidGraphs(c) ==
    \A r \in Of("graph", c) : r.doc = Says(r, {"session", "requirement"}, None) /\ r.seal = Seal(r)

ValidGraphApprovals(c) ==
    \A r \in Of("approval", c), g \in Of("graph", c) : r.refs.graph = g.id => r.cites = g.seal

ValidIntegrations(c) ==
    \A b \in Of("batch", c) :
        /\ b.doc.id = b.id /\ b.doc.refs.graph = b.refs.graph /\ b.seal = Seal(b)
        /\ \A r \in Of("source", c) : r.refs.batch = b.id =>
              /\ r.doc = Says(r, {"checkpoint", "verification"}, None)
              /\ \A f \in DOMAIN r.doc.refs : b.doc.refs[f] = r.doc.refs[f]
        /\ \A r \in Of("application", c) : r.refs.batch = b.id => r.cites = b.seal

ValidDocuments(c) ==
    /\ ValidTasksAndAttempts(c) /\ ValidCheckpoints(c) /\ ValidHandovers(c)
    /\ ValidVerifications(c) /\ ValidGraphs(c) /\ ValidGraphApprovals(c) /\ ValidIntegrations(c)

(* validate_event_chain: rows have an audit chain.                         *)
ValidEventChain(c) == c.rows # {} => c.events > 0

(* The exported log is exactly the exported prefix of the chain.           *)
ValidJsonlEvidence(i, f) ==
    /\ Images[i].exported <= Contents[Images[i].logical].events
    /\ Files[f].lines = Images[i].exported

IdsOf(w) == {x.row.id : x \in rows[w]}

(* The id of a row that the target has already is replaced, and always the *)
(* id of a daemon instance that a claim refers to.                         *)
Collisions(w, c) == {r.id : r \in {x \in c : x.kind # "daemon" /\ x.id \in IdsOf(w)}}

DaemonInstances(c) == {r.refs.daemon : r \in Of("claim", c)}

Replaced(w, fp) == Collisions(w, Contents[fp].rows) \cup DaemonInstances(Contents[fp].rows)

(* A replacement is derived from the fingerprint, the id and the first     *)
(* nonce that gives an id nobody has.                                      *)
Replacement(w, fp, id) ==
    LET free == {n \in 0 .. Cardinality(rows[w]) : <<fp, n>> \o id \notin IdsOf(w)}
    IN  <<fp, CHOOSE n \in free : \A k \in free : n <= k>> \o id

Mapped(w, fp, id) ==
    IF id \in Replaced(w, fp) THEN Replacement(w, fp, id) ELSE id

(* copy_workspace_table: ids and foreign keys are mapped in the columns.   *)
CopiedColumns(w, fp, r) ==
    [r EXCEPT !.id = Mapped(w, fp, @),
              !.refs = [f \in DOMAIN @ |-> Mapped(w, fp, @[f])]]

(* The same for a document, whose artifacts are below imports/<fp> now.    *)
MappedDocument(w, fp, doc, at) ==
    [id |-> Mapped(w, fp, doc.id),
     refs |-> [f \in DOMAIN doc.refs |-> Mapped(w, fp, doc.refs[f])], at |-> at]

RewriteDocument(w, fp, r, at) == [r EXCEPT !.doc = MappedDocument(w, fp, @, at)]

RewriteWorkerResult(w, fp, r) == RewriteDocument(w, fp, r, fp)

RewriteCheckpoint(w, fp, r) == Sealed(RewriteDocument(w, fp, r, fp))

(* An acknowledged handover cites its own bundle.                          *)
RewriteHandover(w, fp, r) ==
    LET new == Sealed(RewriteDocument(w, fp, r, fp))
    IN  IF r.cites = None THEN new ELSE [new EXCEPT !.cites = new.seal]

RewriteVerification(w, fp, r) == RewriteDocument(w, fp, r, fp)

RewriteGraph(w, fp, r) == Sealed(RewriteDocument(w, fp, r, None))

RewriteIntegration(w, fp, r) == Sealed(RewriteDocument(w, fp, r, None))

RewriteIntegrationSource(w, fp, r) == RewriteDocument(w, fp, r, None)

RewriteTask(w, fp, r) == RewriteDocument(w, fp, r, None)

(* The seal of a graph or an integration after it was rewritten.           *)
NewSeal(w, fp, seal) == <<seal[1], MappedDocument(w, fp, seal[2], None)>>

(* Commands, approvals and applications name what they are about by id and *)
(* by seal.                                                                *)
RewriteCiting(w, fp, r) ==
    LET doc == IF r.doc = None THEN r ELSE RewriteDocument(w, fp, r, None)
    IN  IF r.cites = None THEN doc ELSE [doc EXCEPT !.cites = NewSeal(w, fp, @)]

(* copy_required_daemon_instances: imported, an instance is over.          *)
ReleasedDaemon(r) == [r EXCEPT !.released = TRUE]

(* rewrite_sealed_documents, then the copy of the tables.                  *)
Rewrite(w, fp, r) ==
    LET documents ==
            CASE r.kind = "attempt" -> RewriteWorkerResult(w, fp, r)
              [] r.kind = "checkpoint" -> RewriteCheckpoint(w, fp, r)
              [] r.kind = "handover" -> RewriteHandover(w, fp, r)
              [] r.kind = "verification" -> RewriteVerification(w, fp, r)
              [] r.kind = "graph" -> RewriteGraph(w, fp, r)
              [] r.kind = "batch" -> RewriteIntegration(w, fp, r)
              [] r.kind = "source" -> RewriteIntegrationSource(w, fp, r)
              [] r.kind = "task" -> RewriteTask(w, fp, r)
              [] r.kind = "daemon" -> ReleasedDaemon(r)
              [] OTHER -> RewriteCiting(w, fp, r)
    IN  CopiedColumns(w, fp, documents)

ImportedRows(w, fp) ==
    {[row |-> Rewrite(w, fp, r), from |-> fp] : r \in Contents[fp].rows}

Owned(id) ==
    [kind |-> "session", id |-> id, refs |-> <<>>, doc |-> None, seal |-> None,
     cites |-> None, released |-> FALSE]

-----------------------------------------------------------------------------
(* The source is written by an older program: the database and the files   *)
(* in separate steps.                                                      *)

WriteSource(r, next) ==
    /\ writes < MaxWrites /\ writes' = writes + 1
    /\ source' = [source EXCEPT ![r] = next]
    /\ seen' = [seen EXCEPT ![r] = @ \cup {<<next.image, next.files>>}]
    /\ UNCHANGED <<imp, fsVars, dbVars, crashes>>

LegacyDatabaseWrite(r) ==
    /\ source[r].image < Len(Images)
    /\ WriteSource(r, [source[r] EXCEPT !.image = @ + 1])

LegacyFileWrite(r) ==
    /\ source[r].files < Len(Files)
    /\ WriteSource(r, [source[r] EXCEPT !.files = @ + 1])

(* The transaction of a commit excludes every other writer. *)
NoTransaction == \A p \in Importers : imp[p].pc # "published"

(* Work in a workspace: a row, and unless it is one of the tables without  *)
(* audit, an event.                                                        *)
OwnWork(w, id) ==
    /\ NoTransaction
    /\ id \notin IdsOf(w)
    /\ rows' = [rows EXCEPT ![w] = @ \cup {[row |-> Owned(id), from |-> None]}]
    /\ \/ events' = [events EXCEPT ![w] = Append(@, <<"own">>)]
       \/ UNCHANGED events
    /\ UNCHANGED <<sourceVars, imp, fsVars, ledger, crashes>>
-----------------------------------------------------------------------------
(* Inspection. *)

(* The scratch of the source is taken, its dead attempts are removed, and  *)
(* the database captured: read twice, with the same result.  A live daemon *)
(* of the older program refuses the import.                                *)
InspectDatabase(p, r, w) ==
    LET image == source[r].image
    IN  /\ ~ Running(p) /\ ScratchFree(r)
        /\ IF Images[image].live
           THEN scratch' = Scavenged(r) /\ UNCHANGED imp
           ELSE /\ scratch' = Scavenged(r) \cup {<<r, p>>}
                /\ imp' = [imp EXCEPT ![p] =
                      [pc |-> "files", root |-> r, ws |-> w, staged |-> FALSE,
                       plan |-> [image |-> image, logical |-> Images[image].logical,
                                 files |-> 0]]]
        /\ UNCHANGED <<sourceVars, staging, published, dbVars, crashes>>

(* The files are read later than the database; log and documents must fit. *)
InspectFiles(p) ==
    LET files == source[imp[p].root].files
    IN  /\ imp[p].pc = "files"
        /\ IF /\ ValidDocuments(Contents[Fingerprint(p)].rows)
              /\ ValidEventChain(Contents[Fingerprint(p)])
              /\ ValidJsonlEvidence(imp[p].plan.image, files)
           THEN /\ imp' = [imp EXCEPT ![p].pc = "inspected", ![p].plan.files = files]
                /\ UNCHANGED fsVars
           ELSE DropImport(p)
        /\ UNCHANGED <<sourceVars, dbVars, crashes>>

-----------------------------------------------------------------------------
(* prepare_inspection. *)

Manifest(p) == <<imp[p].plan.image, imp[p].plan.files>>

LegacyChain(fp) == [i \in 1 .. Contents[fp].events |-> <<"legacy", fp, i>>]

(* What a ledger row must find again, or the replay fails: the copied      *)
(* chain as a prefix, its one anchor where the row says, and the published *)
(* directory as it was sealed.                                             *)
ReplayedEvents(fp) ==
    LET L == ledger[fp]
    IN  IF L.copied THEN IsPrefix(LegacyChain(fp), events[L.ws]) ELSE L.anchor # 0

ReplayedAnchor(fp) ==
    LET L == ledger[fp]
        anchors == {i \in DOMAIN events[L.ws] : events[L.ws][i] = <<"anchor", fp>>}
    IN  IF L.anchor = 0 THEN anchors = {} /\ L.mappings = {} ELSE anchors = {L.anchor}

PublishedImport(fp) == published[<<ledger[fp].ws, fp>>] = ledger[fp].manifest

RecordedResult(fp, w) ==
    /\ ledger[fp].ws = w
    /\ ReplayedEvents(fp) /\ ReplayedAnchor(fp)

(* load_existing_result: the row must be the one this plan would write.    *)
ReplaySucceeds(p) ==
    LET L == ledger[Fingerprint(p)]
    IN  /\ RecordedResult(Fingerprint(p), imp[p].ws)
        /\ L.manifest = Manifest(p) /\ L.root = imp[p].root
        /\ PublishedImport(Fingerprint(p))

(* With a ledger row the import is over, as a replay or with an error.     *)
CheckLedger(p) ==
    /\ imp[p].pc = "inspected"
    /\ IF ledger[Fingerprint(p)] = None
       THEN imp' = [imp EXCEPT ![p].pc = "acquire"] /\ UNCHANGED fsVars
       ELSE DropImport(p)
    /\ UNCHANGED <<sourceVars, dbVars, crashes>>

(* What LegacyImportStaging::prepare does: orphans are removed and an      *)
(* empty directory created.                                                *)
PrepareStaging(p) ==
    LET d == <<imp[p].ws, Fingerprint(p)>>
    IN  /\ imp' = [imp EXCEPT ![p].pc = "staging", ![p].staged = TRUE]
        /\ scratch' = Scavenged(Fingerprint(p)) \cup {<<Fingerprint(p), p>>}
        /\ staging' = [staging EXCEPT ![d] = <<0, 0>>]
        /\ published' = [published EXCEPT ![d] = None]

Acquirable(p) == ScratchFree(Fingerprint(p)) /\ StagingFree(<<imp[p].ws, Fingerprint(p)>>)

(* The scratch of the fingerprint and the lock of the staging directory    *)
(* are taken, or the import fails; then the ledger is read again.  The     *)
(* drop of a staging that was not prepared removes an orphan.              *)
AcquireStaging(p) ==
    /\ imp[p].pc = "acquire"
    /\ \/ /\ Acquirable(p) /\ ledger[Fingerprint(p)] = None
          /\ PrepareStaging(p)
       \/ /\ Acquirable(p) /\ ledger[Fingerprint(p)] # None
          /\ imp' = [imp EXCEPT ![p] = NoImport]
          /\ scratch' = Scavenged(Fingerprint(p)) \ {<<imp[p].root, p>>}
          /\ staging' = [staging EXCEPT ![<<imp[p].ws, Fingerprint(p)>>] = None]
          /\ UNCHANGED published
       \/ ~ Acquirable(p) /\ DropImport(p)
    /\ UNCHANGED <<sourceVars, dbVars, crashes>>


(* capture_staged_database: a second capture must have the bytes of the    *)
(* first, and no live daemon.                                              *)
CaptureStaged(p) ==
    /\ imp[p].pc = "staging"
    /\ IF source[imp[p].root].image = imp[p].plan.image
       THEN /\ imp' = [imp EXCEPT ![p].pc = "captured"]
            /\ staging' = [staging EXCEPT ![StagingOf(p)] = <<imp[p].plan.image, 0>>]
            /\ UNCHANGED <<scratch, published>>
       ELSE DropImport(p)
    /\ UNCHANGED <<sourceVars, dbVars, crashes>>

(* stage_guarded_source_files: the files are what the plan says before and *)
(* after they are read.                                                    *)
StageFiles(p) ==
    /\ imp[p].pc = "captured"
    /\ IF source[imp[p].root].files = imp[p].plan.files
       THEN /\ imp' = [imp EXCEPT ![p].pc = "prepared"]
            /\ staging' = [staging EXCEPT ![StagingOf(p)] = Manifest(p)]
            /\ UNCHANGED <<scratch, published>>
       ELSE DropImport(p)
    /\ UNCHANGED <<sourceVars, dbVars, crashes>>

(* A prepared import that its owner does not commit. *)
Abandon(p) ==
    /\ imp[p].pc = "prepared"
    /\ DropImport(p)
    /\ UNCHANGED <<sourceVars, dbVars, crashes>>

-----------------------------------------------------------------------------
(* commit: one transaction, in which the staging directory is published. *)

Importable(p) ==
    /\ ledger[Fingerprint(p)] = None
    /\ events[imp[p].ws] = <<>> => rows[imp[p].ws] = {}

Publish(p) ==
    /\ imp[p].pc = "prepared" /\ NoTransaction
    /\ IF Importable(p)
       THEN /\ imp' = [imp EXCEPT ![p].pc = "published"]
            /\ published' = [published EXCEPT ![StagingOf(p)] = staging[StagingOf(p)]]
            /\ staging' = [staging EXCEPT ![StagingOf(p)] = None]
            /\ UNCHANGED scratch
       ELSE DropImport(p)
    /\ UNCHANGED <<sourceVars, dbVars, crashes>>

(* append_import_anchor: an empty target gets the chain of the source; an  *)
(* anchor is added when chains or ids were not simply copied.              *)
ImportedEvents(w, fp) ==
    IF events[w] # <<>> THEN Append(events[w], <<"anchor", fp>>)
    ELSE IF Replaced(w, fp) # {} THEN Append(LegacyChain(fp), <<"anchor", fp>>)
    ELSE LegacyChain(fp)

LedgerRow(p) ==
    LET w == imp[p].ws  fp == Fingerprint(p)
    IN  [ws |-> w, manifest |-> Manifest(p), copied |-> events[w] = <<>>,
         root |-> imp[p].root,
         mappings |-> Replaced(w, fp),
         anchor |-> IF events[w] # <<>> \/ Replaced(w, fp) # {}
                    THEN Len(ImportedEvents(w, fp)) ELSE 0]

CommitTransaction(p) ==
    LET w == imp[p].ws  fp == Fingerprint(p)
    IN  /\ imp[p].pc = "published"
        /\ rows' = [rows EXCEPT ![w] = @ \cup ImportedRows(w, fp)]
        /\ events' = [events EXCEPT ![w] = ImportedEvents(w, fp)]
        /\ ledger' = [ledger EXCEPT ![fp] = LedgerRow(p)]
        /\ imp' = [imp EXCEPT ![p] = NoImport]
        /\ scratch' = Dropped(p)
        /\ UNCHANGED <<sourceVars, staging, published, crashes>>

(* The commit fails: the published directory is removed with the staging.  *)
RollbackTransaction(p) ==
    /\ imp[p].pc = "published"
    /\ DropImport(p)
    /\ UNCHANGED <<sourceVars, dbVars, crashes>>

(* The process dies: directories stay, the transaction does not.           *)
Crash(p) ==
    /\ Running(p) /\ crashes < MaxCrashes
    /\ crashes' = crashes + 1
    /\ imp' = [imp EXCEPT ![p] = NoImport]
    /\ UNCHANGED <<sourceVars, fsVars, dbVars>>

Next ==
    \/ \E r \in Roots : LegacyDatabaseWrite(r) \/ LegacyFileWrite(r)
    \/ \E w \in Workspaces, id \in OwnIds : OwnWork(w, id)
    \/ \E p \in Importers :
          \/ \E t \in Targets : InspectDatabase(p, t[1], t[2])
          \/ InspectFiles(p) \/ CheckLedger(p) \/ AcquireStaging(p)
          \/ CaptureStaged(p) \/ StageFiles(p) \/ Abandon(p)
          \/ Publish(p) \/ CommitTransaction(p) \/ RollbackTransaction(p) \/ Crash(p)

Spec == Init /\ [][Next]_vars

-----------------------------------------------------------------------------
Recorded == {fp \in Fingerprints : ledger[fp] # None}

(* What the ledger says was imported stays on disk with the bytes it was   *)
(* sealed with: no later attempt, failure or clean-up of orphans removes   *)
(* or replaces it (artifacts.rs:231, legacy_import.rs:797).                *)
LedgerHasSnapshot ==
    \A fp \in Recorded : PublishedImport(fp)

(* Database and files of an import belong together: the source held both   *)
(* at one moment, although they are read one after the other while it may  *)
(* be written (legacy_import.rs:2889).                                     *)
ImportedFromOneState ==
    \A fp \in Recorded : \E r \in Roots : ledger[fp].manifest \in seen[r]

(* An imported row refers to rows of its own import under their new ids,   *)
(* its document says the same as its columns and carries the right seal,   *)
(* what it cites exists, its artifacts are in the published directory, no  *)
(* id is used twice in a workspace, and a daemon instance that is imported *)
(* holds no lease (legacy_import.rs:1425).                                 *)
ImportedConsistent ==
    \A w \in Workspaces :
        /\ \A x, y \in rows[w] : x.row.id = y.row.id => x = y
        /\ \A x \in rows[w] : x.from # None =>
              LET own == {y.row : y \in {z \in rows[w] : z.from = x.from}}
                  r == x.row
              IN  /\ \A f \in DOMAIN r.refs : \E y \in own : y.id = r.refs[f]
                  /\ r.doc # None =>
                        /\ r.doc.id = r.id
                        /\ \A f \in DOMAIN r.doc.refs \cap DOMAIN r.refs : r.doc.refs[f] = r.refs[f]
                        /\ \A f \in DOMAIN r.doc.refs : \E y \in own : y.id = r.doc.refs[f]
                        /\ r.doc.at \in {None, x.from}
                  /\ r.seal # None => r.seal = Seal(r)
                  /\ r.cites # None => \E y \in own : y.seal = r.cites
                  /\ r.kind = "daemon" => r.released

(* The audit chain accounts for every import, whatever is done in the      *)
(* workspace before and after it: the check that a replay makes of the     *)
(* copied chain and of the anchor never fails (legacy_import.rs:2669).     *)
ImportAudited == \A fp \in Recorded : RecordedResult(fp, ledger[fp].ws)

-----------------------------------------------------------------------------
(* The inductive invariant behind LedgerHasSnapshot, ImportedFromOneState  *)
(* and ImportAudited.                                                      *)

Places == Workspaces \X Fingerprints
Ids == UNION {{r.id : r \in Contents[fp].rows} \cup DaemonInstances(Contents[fp].rows) :
                 fp \in Fingerprints}
LedgerRecord == [ws : Workspaces, manifest : Nat \X Nat, copied : BOOLEAN, root : Roots,
                 mappings : SUBSET Ids, anchor : Nat]
Marks == {<<"own">>} \cup {<<"anchor", fp>> : fp \in Fingerprints}
            \cup {<<"legacy", fp, i>> : fp \in Fingerprints, i \in Nat}
Job == [pc : {"files", "inspected", "acquire", "staging", "captured", "prepared", "published"},
        root : Roots, ws : Workspaces, staged : BOOLEAN,
        plan : [image : Nat, logical : Fingerprints, files : Nat]]

(* What the theorems assume: a source holds one of the images, an image    *)
(* has a content, and None is no ledger row.                               *)
ImportConstants ==
    /\ Targets \subseteq Roots \X Workspaces
    /\ Len(Images) \in Nat
    /\ \A i \in 1 .. Len(Images) : Images[i].logical \in Fingerprints
    /\ \A fp \in Fingerprints : Contents[fp].events \in Nat
    /\ Start \in [Roots -> 1 .. Len(Images)]
    /\ None \notin LedgerRecord

TypeOK ==
    /\ source \in [Roots -> [image : 1 .. Len(Images), files : Nat]]
    /\ seen \in [Roots -> SUBSET (Nat \X Nat)]
    /\ imp \in [Importers -> Job \cup {NoImport}]
    /\ staging \in [Places -> (Nat \X Nat) \cup {None}]
    /\ published \in [Places -> (Nat \X Nat) \cup {None}]
    /\ events \in [Workspaces -> Seq(Marks)]
    /\ ledger \in [Fingerprints -> LedgerRecord \cup {None}]

SourceHeld == \A r \in Roots : <<source[r].image, source[r].files>> \in seen[r]

(* The plan of a job is not newer than the source.  The files were read    *)
(* after the database, so that plan and files belong together as long as   *)
(* the database is still the one of the plan, and for good once it was     *)
(* captured again.                                                         *)
ManifestOf(j) == <<j.plan.image, j.plan.files>>

ReadHeld(j, src, sn) ==
    /\ j.staged <=> j.pc \in {"staging", "captured", "prepared", "published"}
    /\ j.plan.image <= src[j.root].image
    /\ j.pc # "files" /\ src[j.root].image = j.plan.image => ManifestOf(j) \in sn[j.root]
    /\ j.pc \in {"captured", "prepared", "published"} => ManifestOf(j) \in sn[j.root]

(* A job that has the lock of its staging directory has no ledger row yet, *)
(* and its directory is the one it staged and published.                   *)
PlaceHeld(j, stg, pub, led) ==
    j.staged =>
        /\ led[j.plan.logical] = None
        /\ j.pc = "prepared" => stg[<<j.ws, j.plan.logical>>] = ManifestOf(j)
        /\ j.pc = "published" => pub[<<j.ws, j.plan.logical>>] = ManifestOf(j)

Staged(j) == j # NoImport /\ j.staged

JobsHeld(im, src, sn, stg, pub, led) ==
    \A p \in Importers : im[p] # NoImport =>
        ReadHeld(im[p], src, sn) /\ PlaceHeld(im[p], stg, pub, led)

(* The scratch of a fingerprint has one owner.                             *)
AloneHeld(im) ==
    \A p, q \in Importers :
        Staged(im[p]) /\ Staged(im[q]) /\ im[p].plan.logical = im[q].plan.logical => p = q

SnapshotHeld(led, pub, sn) ==
    \A fp \in Fingerprints : led[fp] # None =>
        /\ pub[<<led[fp].ws, fp>>] = led[fp].manifest
        /\ led[fp].manifest \in sn[led[fp].root]

(* The chain of a workspace has the anchor of an import where its row says,*)
(* and none of one that is not recorded.                                   *)
AuditHeld(row, fp, ev) ==
    /\ row.copied => IsPrefix(LegacyChain(fp), ev[row.ws])
    /\ ~row.copied => row.anchor # 0
    /\ row.anchor = 0 => row.mappings = {}
    /\ row.anchor # 0 => row.anchor \in 1 .. Len(ev[row.ws])
    /\ \A i \in 1 .. Len(ev[row.ws]) : ev[row.ws][i] = <<"anchor", fp>> <=> i = row.anchor

Unanchored(fp, chain) == \A i \in 1 .. Len(chain) : chain[i] # <<"anchor", fp>>

EventsHeld(led, ev) ==
    \A fp \in Fingerprints :
        /\ led[fp] # None => AuditHeld(led[fp], fp, ev)
        /\ led[fp] = None => \A w \in Workspaces : Unanchored(fp, ev[w])

IInv ==
    /\ TypeOK /\ SourceHeld
    /\ JobsHeld(imp, source, seen, staging, published, ledger)
    /\ AloneHeld(imp)
    /\ SnapshotHeld(ledger, published, seen)
    /\ EventsHeld(ledger, events)

====

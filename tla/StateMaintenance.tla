-------------------------- MODULE StateMaintenance --------------------------
(***************************************************************************)
(* The user-global database as an object that is migrated, backed up and   *)
(* rolled back, and the audit chains it carries: database.rs,              *)
(* migrations.rs, event_log.rs and the `migrate` commands of app.rs.       *)
(*                                                                         *)
(* One owner at a time (the OS singleton lock: the daemon or one           *)
(* maintenance command) changes the schema and the rows; flushers copy the *)
(* outbox of a workspace to its append-only file under the file's own      *)
(* lock, at any moment and in processes of their own.  A process may die   *)
(* between any two steps, and the machine may lose power, which also loses *)
(* the bytes of a file that were not synced.                               *)
(*                                                                         *)
(* Schema versions are abstracted to 0 (empty), 1 (events in one chain,    *)
(* schemas 3-12), PartitionVersion (one chain per workspace, schema 13)    *)
(* and what follows up to Target (17).  An event is [id, prev]: its hash   *)
(* is its id, its previous_hash the id of its predecessor (0 for none).    *)
(***************************************************************************)
EXTENDS Naturals, Sequences, FiniteSets, SequencesExt, FiniteSetsExt

CONSTANTS Workspaces, Legacy, Flushers, PartitionVersion, Target, Batch,
          MaxEvents, MaxImages, MaxFaults

VARIABLES
  db,       \* the live database
  images,   \* the backups directory, in order of creation
  plans,    \* sealed rollback plans
  results,  \* plans whose result artifact is stored
  log,      \* [Workspaces -> the events.jsonl of the workspace]
  owner,    \* holder of the daemon owner lock
  pc,       \* the next step of the owner
  current,  \* the rollback plan being applied, and its recovery image
  flush,    \* [Flushers -> the reconciliation it is in]
  refused,  \* a reconciliation refused the file
  nextId,   \* the next event hash
  faults    \* crashes, power losses and damaged files so far

vars == <<db, images, plans, results, log, owner, pc, current, flush, refused,
          nextId, faults>>

NoPlan == [plan |-> {}, recovery |-> 0, before |-> {}]
Resting == [at |-> "idle", ws |-> Legacy, cursor |-> 0, pending |-> <<>>]

-----------------------------------------------------------------------------
(* Rows and guards *)

\* The rows a connection bound to workspace w sees through its scoped views.
Rows(d, w) == d.events[w]

LastHash(chain) == IF chain = <<>> THEN 0 ELSE Last(chain).id

\* append_workspace_event_in_transaction: sequence and previous_hash come from
\* the last row of the same workspace.
AppendEvent(d, w, id) ==
  [d EXCEPT !.events[w] = Append(@, [id |-> id, prev |-> LastHash(@)])]

\* legacy_migration_workspace_if_present
LegacyPresent(d) == d.version >= PartitionVersion /\ d.legacy

MaxSequence(d) == Max({Len(d.events[w]) : w \in Workspaces})

\* Faulty variant: the newest sequence of any workspace stands for the outbox.
LastEventSequenceNewest(d) == MaxSequence(d)

\* The rows of task_events, whichever workspace they belong to.
AllRows(d) == UNION {{<<w, n>> : n \in 1 .. Len(d.events[w])} : w \in Workspaces}

\* last_event_sequence: rows are counted once every workspace has a chain.
LastEventSequence(d) ==
  IF d.version >= PartitionVersion THEN Cardinality(AllRows(d)) ELSE MaxSequence(d)

\* MigrationManager::status: the applied versions are a checked prefix of the
\* catalog this binary knows, or the database is refused.
Status(d) == d.ok /\ d.version <= Target

\* Database::preflight_schema: a future schema is refused before it is opened.
Opens == Status(db)

\* WorkspaceDatabase::event_at and outbox_after
EventAt(d, w, n) == IF n \in 1 .. Len(Rows(d, w)) THEN {Rows(d, w)[n]} ELSE {}
OutboxAfter(d, w, n) ==
  SubSeq(Rows(d, w), n + 1, Min({Len(Rows(d, w)), n + Batch}))

\* A backup or recovery image is intact: integrity, foreign keys and the
\* catalog hold, and its bytes are the ones that were sealed.
ImageSound(i) == images[i].ok /\ Status(images[i].db)

\* trusted_migration_backup: a file below the backup root, the newest by default.
TrustedBackups == 1 .. Len(images)

\* validate_live_rollback_guards
LiveGuards(seq) == LastEventSequence(db) = seq /\ ~db.active

\* Faulty variant: the plan is validated against what it sealed, not the live rows.
ValidateRollbackSealed(p) == ImageSound(p.image)

\* MigrationManager::validate_rollback
ValidateRollback(p) ==
  /\ ImageSound(p.image)
  /\ db.version = p.expected
  /\ LiveGuards(p.sequence)
  /\ images[p.image].db.version = p.version
  /\ LastEventSequence(images[p.image].db) = p.sequence

\* RollbackPlan: what a plan seals.
SealedPlan(i) == [image |-> i, expected |-> db.version,
                  version |-> images[i].db.version,
                  sequence |-> LastEventSequence(db)]

\* MigrationManager::backup
Image(kind) == [db |-> db, kind |-> kind, ok |-> TRUE]

-----------------------------------------------------------------------------
(* The owner lock and the daemon *)

\* acquire_maintenance, GlobalDaemonBootstrap::prepare: the lock comes first,
\* then Database::open.
Acquire(who) ==
  /\ owner = "none"
  /\ Opens
  /\ owner' = who
  /\ pc' = IF who = "daemon" THEN "migrate" ELSE "command"
  /\ UNCHANGED <<db, images, plans, results, log, current, flush, refused,
                 nextId, faults>>

Release ==
  /\ owner' = "none" /\ pc' = "idle" /\ current' = NoPlan

\* A handler of the daemon appends an event of workspace w.
DaemonAppend(w) ==
  /\ owner = "daemon" /\ pc = "serve"
  /\ nextId <= MaxEvents
  /\ db' = AppendEvent(db, w, nextId)
  /\ nextId' = nextId + 1
  /\ UNCHANGED <<images, plans, results, log, owner, pc, current, flush,
                 refused, faults>>

\* Tasks start and end, leases are taken and released.
DaemonWork ==
  /\ owner = "daemon" /\ pc = "serve"
  /\ db' = [db EXCEPT !.active = ~@]
  /\ UNCHANGED <<images, plans, results, log, owner, pc, current, flush,
                 refused, nextId, faults>>

DaemonEnds ==
  /\ owner = "daemon" /\ pc = "serve"
  /\ Release
  /\ UNCHANGED <<db, images, plans, results, log, flush, refused, nextId, faults>>

-----------------------------------------------------------------------------
(* migrate apply, and the migration every daemon start performs *)

Audited(next) ==
  /\ IF LegacyPresent(db)
     THEN db' = AppendEvent(db, Legacy, nextId) /\ nextId' = nextId + 1
     ELSE UNCHANGED <<db, nextId>>
  /\ pc' = next

\* MigrationAction::Apply: the dry run on a copy, then MigrationStarted.
MigrateStarts ==
  /\ owner = "maint" /\ pc = "command"
  /\ nextId <= MaxEvents
  /\ Audited("migrate")
  /\ UNCHANGED <<images, plans, results, log, owner, current, flush, refused, faults>>

\* Database::migrate_with_backup: a nonempty database is backed up before the
\* first pending version, and nothing happens without pending versions.
MigrateWithBackup ==
  /\ pc = "migrate"
  /\ IF db.version = Target
     THEN pc' = "migrated" /\ UNCHANGED images
     ELSE /\ db.version > 0 => Len(images) < MaxImages
          /\ images' = IF db.version > 0 THEN Append(images, Image("backup"))
                                         ELSE images
          /\ pc' = "apply"
  /\ UNCHANGED <<db, plans, results, log, owner, current, flush, refused,
                 nextId, faults>>

\* MigrationManager::apply: one transaction per version; the partition of the
\* old rows is created only when there are some.
ApplyVersion ==
  /\ pc = "apply"
  /\ IF db.version = Target
     THEN pc' = "migrated" /\ UNCHANGED db
     ELSE /\ db' = [db EXCEPT !.version = @ + 1,
                              !.legacy = @ \/ /\ db.version + 1 = PartitionVersion
                                              /\ db.events[Legacy] # <<>> \/ db.active]
          /\ UNCHANGED pc
  /\ UNCHANGED <<images, plans, results, log, owner, current, flush, refused,
                 nextId, faults>>

\* A daemon goes on to serve; the command appends MigrationCompleted and ends.
Migrated ==
  /\ pc = "migrated"
  /\ \/ /\ owner = "daemon" /\ pc' = "serve"
        /\ UNCHANGED <<db, nextId, owner, current>>
     \/ /\ owner = "maint" /\ nextId <= MaxEvents
        /\ Audited("idle") /\ owner' = "none" /\ UNCHANGED current
  /\ UNCHANGED <<images, plans, results, log, flush, refused, faults>>

-----------------------------------------------------------------------------
(* migrate rollback plan and apply *)

\* MigrationManager::create_rollback_plan and the immutable plan artifact.
PlanRollback(i) ==
  /\ owner = "maint" /\ pc = "command"
  /\ LET snap == images[i].db IN
     /\ ImageSound(i) /\ LiveGuards(LastEventSequence(db))
     /\ snap.version # 0 /\ snap.version <= db.version
     /\ LastEventSequence(snap) = LastEventSequence(db)
     /\ plans' = plans \cup {SealedPlan(i)}
  /\ Release
  /\ UNCHANGED <<db, images, results, log, flush, refused, nextId, faults>>

\* A command that is refused changes nothing.
CommandRefused ==
  /\ owner = "maint" /\ pc \in {"command", "restore"}
  /\ pc = "restore" => ~ValidateRollback(CHOOSE p \in current.plan : TRUE)
  /\ Release
  /\ UNCHANGED <<db, images, plans, results, log, flush, refused, nextId, faults>>

\* apply_rollback up to the recovery backup, the approval artifact included.
RollbackBackup(p) ==
  /\ owner = "maint" /\ pc = "command"
  /\ ValidateRollback(p)
  /\ Len(images) < MaxImages
  /\ images' = Append(images, Image("recovery"))
  /\ current' = [plan |-> {p}, recovery |-> Len(images) + 1, before |-> {db}]
  /\ pc' = "restore"
  /\ UNCHANGED <<db, plans, results, log, owner, flush, refused, nextId, faults>>

\* verify_restored_database
RestoredOk(d, version, sequence) ==
  Status(d) /\ d.version = version /\ LastEventSequence(d) = sequence

\* The revalidation at the last safe boundary, the restore and the checks after
\* it; an I/O failure leaves the live file as it was or damaged.
Restore ==
  /\ owner = "maint" /\ pc = "restore"
  /\ \E p \in current.plan :
       /\ ValidateRollback(p)
       /\ \/ /\ RestoredOk(images[p.image].db, p.version, p.sequence)
             /\ db' = images[p.image].db /\ pc' = "result" /\ UNCHANGED faults
          \/ /\ faults < MaxFaults /\ faults' = faults + 1
             /\ db' \in {db, [db EXCEPT !.ok = FALSE]}
             /\ pc' = "recover"
  /\ UNCHANGED <<images, plans, results, log, owner, current, flush, refused, nextId>>

\* The automatic restore of the recovery image, which itself may fail.
Recover ==
  /\ owner = "maint" /\ pc = "recover"
  /\ IF ImageSound(current.recovery)
     THEN db' = images[current.recovery].db
     ELSE UNCHANGED db
  /\ Release
  /\ UNCHANGED <<images, plans, results, log, flush, refused, nextId, faults>>

\* ArtifactStore::put: an existing artifact with other contents is a conflict; a
\* result records its own approval, so the second result of a plan is one.
PutResult(p) == p \notin results /\ results' = results \cup {p}

\* The result artifact is named by the plan alone: a second application of one
\* plan finds it there and ends before the audit events.
RollbackResult ==
  /\ owner = "maint" /\ pc = "result"
  /\ \E p \in current.plan :
       \/ PutResult(p) /\ pc' = "planned" /\ UNCHANGED <<owner, current>>
       \/ p \in results /\ Release /\ UNCHANGED results
  /\ UNCHANGED <<db, images, plans, log, flush, refused, nextId, faults>>

\* The deferred RollbackPlanned and MigrationCompleted events.
RollbackPlanned ==
  /\ owner = "maint" /\ pc = "planned" /\ nextId <= MaxEvents
  /\ Audited("completed")
  /\ UNCHANGED <<images, plans, results, log, owner, current, flush, refused, faults>>

RollbackCompleted ==
  /\ owner = "maint" /\ pc = "completed" /\ nextId <= MaxEvents
  /\ Audited("idle")
  /\ owner' = "none" /\ current' = NoPlan
  /\ UNCHANGED <<images, plans, results, log, flush, refused, faults>>

-----------------------------------------------------------------------------
(* EventLog::reconcile_workspace *)

FlushStep(f) == UNCHANGED <<images, plans, results, owner, pc, current, nextId, faults>>

\* mark_exported: the hash must be the row's; the cursor never moves back.
MarkExported(d, w, n) ==
  [d EXCEPT !.exported[w] = IF @ <= n THEN n ELSE @]

\* A line continues the chain of the file and is the row of its sequence.
LineMatches(w, n) ==
  LET line == log[w].lines[n] IN
  /\ line.prev = LastHash(SubSeq(log[w].lines, 1, n - 1))
  /\ line \in EventAt(db, w, n)

\* The exclusive lock of the file, then the whole file is checked line by line
\* against its own chain and the rows; a torn tail or a difference is refused.
FlushVerify(f, w) ==
  /\ flush[f].at = "idle" /\ db.ok
  /\ \A g \in Flushers : flush[g].at # "idle" => flush[g].ws # w
  /\ w = Legacy \/ db.version >= PartitionVersion
  /\ IF ~log[w].torn /\ \A n \in 1 .. Len(log[w].lines) : LineMatches(w, n)
     THEN /\ flush' = [flush EXCEPT ![f] = [at |-> "verified", ws |-> w,
                                            cursor |-> Len(log[w].lines),
                                            pending |-> <<>>]]
          /\ UNCHANGED refused
     ELSE refused' = TRUE /\ UNCHANGED flush
  /\ UNCHANGED <<db, log>> /\ FlushStep(f)

\* Reaffirming the verified prefix, and every exported marker after a sync.
FlushMark(f) ==
  /\ flush[f].at \in {"verified", "synced"}
  /\ LET w == flush[f].ws
         n == flush[f].cursor IN
     db' = IF EventAt(db, w, n) # {} THEN MarkExported(db, w, n) ELSE db
  /\ flush' = [flush EXCEPT ![f].at = "marked"]
  /\ UNCHANGED <<log, refused>> /\ FlushStep(f)

\* outbox_after(cursor, Batch); an empty page ends the reconciliation.
FlushFetch(f) ==
  /\ flush[f].at = "marked"
  /\ LET page == OutboxAfter(db, flush[f].ws, flush[f].cursor) IN
     flush' = [flush EXCEPT ![f] = IF page = <<>> THEN Resting
                                   ELSE [@ EXCEPT !.at = "writing", !.pending = page]]
  /\ UNCHANGED <<db, log, refused>> /\ FlushStep(f)

\* One line; the page must continue the last line written.
FlushWrite(f) ==
  /\ flush[f].at = "writing" /\ flush[f].pending # <<>>
  /\ LET w == flush[f].ws
         e == Head(flush[f].pending) IN
     IF e.prev = LastHash(log[w].lines)
     THEN /\ log' = [log EXCEPT ![w].lines = Append(@, e)]
          /\ flush' = [flush EXCEPT ![f].pending = Tail(@), ![f].cursor = @ + 1]
          /\ UNCHANGED refused
     ELSE flush' = [flush EXCEPT ![f] = Resting] /\ refused' = TRUE /\ UNCHANGED log
  /\ UNCHANGED db /\ FlushStep(f)

FlushSync(f) ==
  /\ flush[f].at = "writing" /\ flush[f].pending = <<>>
  /\ log' = [log EXCEPT ![flush[f].ws].synced = Len(log[flush[f].ws].lines)]
  /\ flush' = [flush EXCEPT ![f].at = "synced"]
  /\ UNCHANGED <<db, refused>> /\ FlushStep(f)

-----------------------------------------------------------------------------
(* Faults *)

\* The owner dies; the lock goes with the process.
OwnerCrash ==
  /\ owner # "none" /\ faults < MaxFaults
  /\ faults' = faults + 1 /\ Release
  /\ UNCHANGED <<db, images, plans, results, log, flush, refused, nextId>>

\* A flusher dies; in the middle of a line its file has a torn tail.
FlusherCrash(f) ==
  /\ flush[f].at # "idle" /\ faults < MaxFaults
  /\ faults' = faults + 1
  /\ flush' = [flush EXCEPT ![f] = Resting]
  /\ \/ UNCHANGED log
     \/ flush[f].pending # <<>> /\ log' = [log EXCEPT ![flush[f].ws].torn = TRUE]
  /\ UNCHANGED <<db, images, plans, results, owner, pc, current, refused, nextId>>

\* Power is lost: committed rows survive (synchronous = FULL), the part of a
\* file that was not synced may not.
PowerLoss ==
  /\ faults < MaxFaults
  /\ faults' = faults + 1 /\ Release
  /\ flush' = [f \in Flushers |-> Resting]
  /\ \E keep \in [Workspaces -> 0 .. MaxEvents] :
       /\ \A w \in Workspaces : keep[w] \in log[w].synced .. Len(log[w].lines)
       /\ log' = [w \in Workspaces |->
                    [log[w] EXCEPT !.lines = SubSeq(@, 1, keep[w])]]
  /\ UNCHANGED <<db, images, plans, results, refused, nextId>>

\* The bytes of a backup change after it was sealed.
DamageImage(i) ==
  /\ images[i].ok /\ faults < MaxFaults
  /\ faults' = faults + 1
  /\ images' = [images EXCEPT ![i].ok = FALSE]
  /\ UNCHANGED <<db, plans, results, log, owner, pc, current, flush, refused, nextId>>

-----------------------------------------------------------------------------
EmptyDb(v) ==
  [version |-> v, events |-> [w \in Workspaces |-> <<>>],
   exported |-> [w \in Workspaces |-> 0], legacy |-> FALSE, active |-> FALSE,
   ok |-> TRUE]

\* A fresh database, one of an older binary with one event, or a future one.
Init ==
  /\ db \in {EmptyDb(0), EmptyDb(Target + 1),
             [EmptyDb(1) EXCEPT !.events[Legacy] = <<[id |-> 1, prev |-> 0]>>]}
  /\ images = <<>> /\ plans = {} /\ results = {}
  /\ log = [w \in Workspaces |-> [lines |-> <<>>, torn |-> FALSE, synced |-> 0]]
  /\ owner = "none" /\ pc = "idle" /\ current = NoPlan
  /\ flush = [f \in Flushers |-> Resting]
  /\ refused = FALSE /\ nextId = 2 /\ faults = 0

Next ==
  \/ \E who \in {"daemon", "maint"} : Acquire(who)
  \/ \E w \in Workspaces \ {Legacy} : DaemonAppend(w)
  \/ DaemonWork \/ DaemonEnds
  \/ MigrateStarts \/ MigrateWithBackup \/ ApplyVersion \/ Migrated
  \/ \E i \in TrustedBackups : PlanRollback(i) \/ DamageImage(i)
  \/ CommandRefused
  \/ \E p \in plans : RollbackBackup(p)
  \/ Restore \/ Recover \/ RollbackResult \/ RollbackPlanned \/ RollbackCompleted
  \/ \E f \in Flushers, w \in Workspaces : FlushVerify(f, w)
  \/ \E f \in Flushers : \/ FlushMark(f) \/ FlushFetch(f) \/ FlushWrite(f)
                         \/ FlushSync(f) \/ FlusherCrash(f)
  \/ OwnerCrash \/ PowerLoss

Spec == Init /\ [][Next]_vars

-----------------------------------------------------------------------------
(* Properties *)

\* Every complete line of an event log is the row of its sequence in SQLite:
\* whatever is migrated, restored, crashed or flushed, a rollback never orphans
\* an event the append-only file already holds (rollback.md:25).
LogIsPrefix ==
  db.ok => \A w \in Workspaces : IsPrefix(log[w].lines, db.events[w])

\* No rollback loses an event: while one is applied the live database holds every
\* event it had when the rollback began, or it is damaged and the recovery image,
\* which apply_rollback retains in every outcome, holds them.
RollbackKeepsEvents ==
  \A d \in current.before :
    LET kept == IF db.ok THEN db ELSE images[current.recovery].db
    IN  \A w \in Workspaces : IsPrefix(d.events[w], kept.events[w])

\* The chains of the outbox are linked: every row names the hash of the row
\* before it in its own workspace, so a flusher never refuses the outbox.
ChainLinked ==
  \A w \in Workspaces : \A i \in 1 .. Len(db.events[w]) :
    db.events[w][i].prev = IF i = 1 THEN 0 ELSE db.events[w][i - 1].id

-----------------------------------------------------------------------------
(* The inductive invariant *)

\* What the theorems assume: the partition belongs to the catalog, and there
\* are finitely many workspaces.
UpkeepConstants ==
  /\ IsFiniteSet(Workspaces) /\ Legacy \in Workspaces
  /\ PartitionVersion \in Nat /\ Target \in Nat /\ PartitionVersion <= Target
  /\ Batch \in Nat

Event == [id : Nat, prev : Nat]
Chains == [Workspaces -> Seq(Event)]
Database == [version : Nat, events : Chains, exported : [Workspaces -> Nat],
             legacy : BOOLEAN, active : BOOLEAN, ok : BOOLEAN]
ImageRecord == [db : Database, kind : {"backup", "recovery"}, ok : BOOLEAN]
LogFile == [lines : Seq(Event), torn : BOOLEAN, synced : Nat]
FlushRecord == [at : {"idle", "verified", "marked", "writing", "synced"}, ws : Workspaces,
                cursor : Nat, pending : Seq(Event)]
Steps == {"idle", "migrate", "command", "serve", "apply", "migrated", "restore", "recover",
          "result", "planned", "completed"}

\* e holds no event that is not at the same place in f.
Prefixed(e, f) == \A w \in Workspaces : IsPrefix(e[w], f[w])

Linked(e) ==
  \A w \in Workspaces : \A i \in 1 .. Len(e[w]) :
    e[w][i].prev = IF i = 1 THEN 0 ELSE e[w][i - 1].id

\* A database, live or in an image: linked chains, one of them before the
\* partition.
DbHeld(d) ==
  /\ d \in Database
  /\ Linked(d.events)
  /\ d.version < PartitionVersion => \A w \in Workspaces \ {Legacy} : d.events[w] = <<>>

\* An image is never ahead of the live database: events are only appended.
ImagesHeld(im, e) ==
  /\ im \in Seq(ImageRecord)
  /\ \A i \in 1 .. Len(im) : DbHeld(im[i].db) /\ Prefixed(im[i].db.events, e)

LogHeld(l, e) ==
  /\ l \in [Workspaces -> LogFile]
  /\ \A w \in Workspaces : IsPrefix(l[w].lines, e[w])

\* A flusher has the lock of its file, stands at its end, and what it has
\* fetched are the rows that follow.
Continues(page, n, chain) ==
  \A j \in 1 .. Len(page) : n + j <= Len(chain) /\ page[j] = chain[n + j]

FlushHeld(fl, l, e) ==
  /\ fl \in [Flushers -> FlushRecord]
  /\ \A f \in Flushers : fl[f].at # "idle" =>
        /\ fl[f].cursor = Len(l[fl[f].ws].lines)
        /\ fl[f].at = "writing" => Continues(fl[f].pending, fl[f].cursor, e[fl[f].ws])
  /\ \A f, g \in Flushers :
        fl[f].at # "idle" /\ fl[g].at # "idle" /\ fl[f].ws = fl[g].ws => f = g

\* The plans name images, and an applied rollback has its recovery image,
\* which equals the live rows until the audit events follow.
PlansHeld(pl, cur, im) ==
  /\ \A p \in pl : p.image \in 1 .. Len(im)
  /\ cur.plan \subseteq pl
  /\ \A d \in cur.before :
        cur.recovery \in 1 .. Len(im) /\ im[cur.recovery].db.events = d.events

StepHeld(step, cur, d) ==
  /\ step \in {"serve", "migrated"} => d.version = Target
  /\ step \in {"restore", "recover"} => cur.before # {}
  /\ step \in {"restore", "recover"} => \A b \in cur.before : b.events = d.events
  /\ \A b \in cur.before : b.events \in Chains /\ Prefixed(b.events, d.events)

TypeOK ==
  /\ nextId \in Nat /\ faults \in Nat /\ refused \in BOOLEAN
  /\ owner \in {"none", "daemon", "maint"} /\ pc \in Steps

IInv ==
  /\ TypeOK /\ DbHeld(db)
  /\ ImagesHeld(images, db.events)
  /\ LogHeld(log, db.events)
  /\ FlushHeld(flush, log, db.events)
  /\ PlansHeld(plans, current, images)
  /\ StepHeld(pc, current, db)

=============================================================================

--------------------------- MODULE MCControlPlane ---------------------------
(***************************************************************************)
(* The control plane of the program for TLC: the daemon's lease, the       *)
(* commands that find or start a daemon, the writer of its endpoint, the   *)
(* import, upkeep and rollback of its state, the configuration, and the    *)
(* screens.  They meet only through rows and files that each of them       *)
(* already models, so a behaviour runs one of them and one run checks all. *)
(*                                                                         *)
(* DaemonLease keeps its own variables; the other components, of which a   *)
(* behaviour has at most one, take theirs from the pool s1, s2, ...        *)
(***************************************************************************)
EXTENDS DaemonLease, MCLegacyRows, Integers

VARIABLES part,    \* what this behaviour is about
          s1, s2, s3, s4, s5, s6, s7, s8, s9, s10, s11, s12, s13, s14, s15, s16

(* A `colay` and a `daemon restart` in one repository; a daemon of an older *)
(* or of this release may be online in another one.                        *)
BootKind == [c1 |-> "start", c2 |-> "restart"]
BootRepo == [c1 |-> "w1", c2 |-> "w1", old |-> "w0", cur |-> "w0"]

Boot == INSTANCE DaemonBootstrap WITH
    Commands <- DOMAIN BootKind, Kind <- BootKind, Repo <- BootRepo, Incumbents <-
    {"old", "cur"}, Legacy <- {"old"}, MaxFaults <- 1,
    proc <- s1, lock <- s2, path <- s3, client <- s4, faults <- s5

(* Two importers, two copies of a source registered for one workspace.     *)
Import == INSTANCE LegacyImport WITH
    Importers <- {"p1", "p2"}, Roots <- {"r1", "r2"}, Workspaces <- {"w1"}, Targets <-
    {<<"r1", "w1">>, <<"r2", "w1">>}, Images <- SourceImages, Files <- SourceFiles,
    Contents <- SourceContents, Start <- [r1 |-> 1, r2 |-> 3], OwnIds <-
    {<<"session">>}, MaxWrites <- 3, MaxCrashes <- 1,
    source <- s1, seen <- s2, imp <- s3, scratch <- s4, staging <- s5, published <- s6,
    rows <- s7, events <- s8, ledger <- s9, writes <- s10, crashes <- s11

Upkeep == INSTANCE StateMaintenance WITH
    Workspaces <- {"legacy", "w1"}, Legacy <- "legacy", Flushers <- {"f1"},
    PartitionVersion <- 2, Target <- 3, Batch <- 2, MaxEvents <- 4, MaxImages <- 2,
    MaxFaults <- 1,
    db <- s1, images <- s2, plans <- s3, results <- s4, log <- s5, owner <- s6, pc <-
    s7, current <- s8, flush <- s9, refused <- s10, nextId <- s11, faults <- s12

Release == INSTANCE ReleaseRollback WITH
    Plans <- {"p1", "p2"}, Workspaces <- {"w1", "w2"}, Own <- "w1", MaxFaults <- 1,
    dest <- s1, backup <- s2, side <- s3, journal <- s4, plan <- s5, evidence <- s6,
    active <- s7, run <- s8, last <- s9, faults <- s10

(* One command of each administrative kind beside one that edits or shows  *)
(* a dashboard; files that hold an own value, an old version or nothing.   *)
ConfigKind == [c1 |-> {"set", "reset", "init", "migrate"}, c2 |-> {"set", "dashboard"}]
ConfigSelectors == [c1 |-> {None, "legacy", "cli"}, c2 |-> {None}]
Document(version, values) == [version |-> version, set |-> values]
Own == Document(4, [model |-> "own"])
Old == Document(1, [model |-> "own"])
NoFile == Document(-1, <<>>)
ConfigStart ==
    [global : {NoFile, Own}, repository : {NoFile, Own, Old}, legacy : {NoFile, Own},
     env : {NoFile, Own}, cli : {NoFile, Own}]

Config == INSTANCE ConfigAdministration WITH
    Commands <- DOMAIN ConfigKind, Kind <- ConfigKind, Selectors <- ConfigSelectors,
    Start <- ConfigStart, UserDocs <- {Document(4, [routing |-> "bad"]), Document(0,
    <<>>)}, MaxEdits <- 1, MaxVisits <- 1,
    file <- s1, outside <- s2, env <- s3, daemon <- s4, owner <- s5, pc <- s6, kind <-
    s7, cli <- s8, target <- s9, doc <- s10, shown <- s11, backup <- s12, visits <- s13,
    quiet <- s14, edits <- s15

(* Two chats and a `colay run` race for the default session.               *)
ChatKind == [c1 |-> "chat", c2 |-> "chat", r |-> "run"]

Chat == INSTANCE ChatClient WITH
    Clients <- DOMAIN ChatKind, Kind <- ChatKind, Screens <- {"c1"}, Tasks <- {"t1",
    "t2"}, TaskLimit <- 1, MaxPlans <- 1, MaxMessages <- 1, MaxBatches <- 2, MaxKeys <-
    3, MaxFaults <- 1, MaxChanges <- 4,
    store <- s1, command <- s2, client <- s3, faults <- s4

Stream == INSTANCE TaskStream WITH
    ScanLimit <- 2, MaxEvents <- 4,
    log <- s1, row <- s2, client <- s3, request <- s4, server <- s5, cursor <- s6,
    status <- s7, records <- s8, sent <- s9, idle <- s10, frames <- s11

(* Three providers, one of them disabled and one with recorded usage; a    *)
(* preset profile and a customised one.                                    *)
Option(p, enabled) == [provider |-> p, enabled |-> enabled]
AdminSnapshots ==
    {[task |-> t, providers |-> <<Option("p1", FALSE), Option("p2", TRUE), Option("p3", TRUE)>>,
      drafts |-> [p2 |-> [used |-> 1, limit |-> None, remaining |-> None]],
      profiles |-> <<[model |-> "preset", effort |-> "low", customized |-> FALSE],
                     [model |-> "own", effort |-> "", customized |-> TRUE]>>,
      auto |-> TRUE] : t \in {None, "t1"}}

Admin == INSTANCE Dashboard WITH
    Snapshots <- AdminSnapshots, Numbers <- {None, 0, 1, 2, -1}, MaxKeys <- 10,
    pc <- s1, raw <- s2, alt <- s3, snapshot <- s4, picker <- s5, list <- s6, editor <-
    s7, reset <- s8, usage <- s9, action <- s10, moved <- s11, keys <- s12

(* Two registrations of one workspace that can be joined, a lookup of it,  *)
(* a registration of another workspace, and a stop.                        *)
WriteAction == [reg1 |-> "register", reg2 |-> "register", look |-> "lookup",
                other |-> "register", stop |-> "stop"]
WriteWorkspace == [r \in DOMAIN WriteAction |-> IF r = "other" THEN "w2" ELSE "w1"]
WriteSemantics == [r \in DOMAIN WriteAction |-> "s1"]

Ipc == INSTANCE IpcWriter WITH
    Requests <- DOMAIN WriteAction, Action <- WriteAction, Workspace <- WriteWorkspace,
    Semantics <- WriteSemantics, IngressCap <- 1, MaxPending <- 2, MaxJobs <- 2,
    conn <- s1, data <- s2, control <- s3, claimed <- s4, loop <- s5, admissions <- s6,
    lanes <- s7, gens <- s8, nextGen <- s9, ready <- s10, jobs <- s11, serving <- s12,
    nextSeq <- s13, drained <- s14, stopSeq <- s15, commits <- s16

-----------------------------------------------------------------------------
(* What a component with n variables leaves alone.                         *)
rest15 == <<s16>>
rest12 == <<s13, s14, s15, rest15>>
rest11 == <<s12, rest12>>
rest10 == <<s11, rest11>>
rest5 == <<s6, s7, s8, s9, s10, rest10>>
rest4 == <<s5, rest5>>
rest0 == <<s1, s2, s3, s4, rest4>>

Unused15 == s16 = None
Unused12 == s13 = None /\ s14 = None /\ s15 = None /\ Unused15
Unused11 == s12 = None /\ Unused12
Unused10 == s11 = None /\ Unused11
Unused5 == s6 = None /\ s7 = None /\ s8 = None /\ s9 = None /\ s10 = None /\ Unused10
Unused4 == s5 = None /\ Unused5
Unused0 == s1 = None /\ s2 = None /\ s3 = None /\ s4 = None /\ Unused4

AllInit ==
    \/ part = "daemon" /\ Init /\ Unused0
    \/ part = "boot" /\ Init /\ Boot!Init /\ Unused5
    \/ part = "import" /\ Init /\ Import!Init /\ Unused11
    \/ part = "upkeep" /\ Init /\ Upkeep!Init /\ Unused12
    \/ part = "release" /\ Init /\ Release!Init /\ Unused10
    \/ part = "config" /\ Init /\ Config!Init /\ Unused15
    \/ part = "chat" /\ Init /\ Chat!Init /\ Unused4
    \/ part = "stream" /\ Init /\ Stream!Init /\ Unused11
    \/ part = "admin" /\ Init /\ Admin!Init /\ Unused12
    \/ part = "ipc" /\ Init /\ Ipc!Init

AllNext ==
    /\ UNCHANGED part
    /\ \/ part = "daemon" /\ Next /\ UNCHANGED rest0
       \/ part = "boot" /\ Boot!Next /\ UNCHANGED <<vars, rest5>>
       \/ part = "import" /\ Import!Next /\ UNCHANGED <<vars, rest11>>
       \/ part = "upkeep" /\ Upkeep!Next /\ UNCHANGED <<vars, rest12>>
       \/ part = "release" /\ Release!Next /\ UNCHANGED <<vars, rest10>>
       \/ part = "config" /\ Config!Next /\ UNCHANGED <<vars, rest15>>
       \/ part = "chat" /\ Chat!Next /\ UNCHANGED <<vars, rest4>>
       \/ part = "stream" /\ Stream!Next /\ UNCHANGED <<vars, rest11>>
       \/ part = "admin" /\ Admin!Next /\ UNCHANGED <<vars, rest12>>
       \/ part = "ipc" /\ Ipc!Next /\ UNCHANGED vars

AllSpec == AllInit /\ [][AllNext]_<<part, vars, rest0>>

-----------------------------------------------------------------------------
(* The properties of the instanced components, as they are stated and      *)
(* explained there.                                                        *)

(* DaemonBootstrap: a workspace has one runtime, over all processes.       *)
OneRuntime == part = "boot" => Boot!OneRuntime

(* DaemonBootstrap: a command that connected is served by the daemon it    *)
(* reached, and the process it spawned is that daemon or has ended.        *)
ClientsReachOwner == part = "boot" => Boot!ConnectedIsActive /\ Boot!NoStrayContender


(* StateMaintenance: the lines of an event log are the rows of a linked    *)
(* chain, whatever is migrated, restored, crashed or flushed.              *)
EventsKept == part = "upkeep" => Upkeep!LogIsPrefix /\ Upkeep!ChainLinked

(* StateMaintenance: no outcome of a rollback loses an event.              *)
RollbackKeepsEvents == part = "upkeep" => Upkeep!RollbackKeepsEvents

(* ReleaseRollback: an apply installs all of its plan or nothing, and what *)
(* was installed before is never destroyed.                                *)
RollbackRecoverable == part = "release" => Release!AllOrNothing /\ Release!OriginalKept

(* ConfigAdministration: an undisturbed edit takes effect, and a migration *)
(* keeps what it replaces and means the same.                              *)
EditsHold == part = "config" => Config!EditTakesEffect /\ Config!MigrationPreserves


(* TaskStream: the frames are the events of the task in order, none is     *)
(* missing, and none comes with a status older than itself.                *)
StreamFaithful == part = "stream" => Stream!StreamFaithful


(* IpcWriter: requests are applied in the order of their admission and a   *)
(* preparation is committed once, one at a time for each workspace.        *)
AppliedOnceInOrder ==
    part = "ipc" => Ipc!AppliedInOrder /\ Ipc!OneJobPerWorkspace /\ Ipc!CommittedOnce
=============================================================================

-------------------------- MODULE DaemonBootstrap --------------------------
(***************************************************************************)
(* How commands find, start and stop the one daemon of a user.             *)
(*                                                                         *)
(* Every command that needs the daemon pings the endpoint (a socket file), *)
(* and when nobody answers spawns one contender and polls until somebody   *)
(* does.  The contenders race for the owner lock; the winner registers the *)
(* workspace it was started in, binds the endpoint and serves.  A command  *)
(* whose own contender won may take its workspace identifier from the      *)
(* ping; every other one registers its workspace.  The daemon is a main    *)
(* task and an IPC task: the IPC task removes the socket file when it is   *)
(* cancelled; the main task runs one runtime per workspace (the startup    *)
(* workspace's, and one for every workspace whose activation it took from  *)
(* the IPC task's queue) and drops the owner lock when it returns.         *)
(*                                                                         *)
(* A command spawns at most one process, so a contender bears the name of  *)
(* its command.  The Unix endpoint is modelled, not the Windows pipes.     *)
(***************************************************************************)
EXTENDS Naturals, Sequences, SequencesExt

CONSTANTS
    Commands,   \* the running CLI commands
    Kind,       \* Kind[c]: "start" (connect_or_start), "stop" or "restart"
    Repo,       \* Repo[p]: the workspace command or process p runs in
    Incumbents, \* daemons that may be online when the commands begin
    Legacy,     \* processes of a release whose ping names no owner
    MaxFaults,  \* bound on crashes, signals and internal failures
    None

VARIABLES
    proc,   \* proc[p]: main task, IPC task, cancellation, the workspaces taken
            \* as active, the queued activations, the runtimes per workspace
    lock,   \* who holds daemon.lock
    path,   \* the process whose listener the socket file names, or None
    client, \* client[c]: the command's progress
    faults  \* faults so far

vars == <<proc, lock, path, client, faults>>

Processes == Commands \union Incumbents
Workspaces == {Repo[p] : p \in Processes}

Daemon(p) == <<"daemon", p>>
Probe(c) == <<"probe", c>>

Alive(p) == proc[p].pc \notin {"unborn", "gone"}
Reachable == path # None /\ proc[path].ipc = "serving"

Holders ==
    {None} \union {Daemon(p) : p \in Processes} \union {Probe(c) : c \in Commands}

ProcRecord ==
    [pc : {"unborn", "starting", "owned", "probing", "online", "leaving", "gone"},
     ipc : {"none", "serving", "closed"},
     cancelled : BOOLEAN,
     active : SUBSET Workspaces,
     queue : Seq(Workspaces),
     runtimes : [Workspaces -> Nat]]

ClientRecord ==
    [pc : {"stop", "probe", "return", "discover", "ping", "poll", "spawn",
           "deadline", "legacy", "reap", "register", "connected", "stopped", "failed"},
     child : BOOLEAN, spawned : BOOLEAN, late : BOOLEAN,
     via : Processes \union {None}, target : Holders]

TypeOK ==
    /\ proc \in [Processes -> ProcRecord]
    /\ lock \in Holders
    /\ path \in Processes \union {None}
    /\ client \in [Commands -> ClientRecord]
    /\ faults \in 0..MaxFaults

NoRuntimes == [w \in Workspaces |-> 0]

Unborn == [pc |-> "unborn", ipc |-> "none", cancelled |-> FALSE, active |-> {},
           queue |-> <<>>, runtimes |-> NoRuntimes]

Online(p) == [pc |-> "online", ipc |-> "serving", cancelled |-> FALSE,
              active |-> {Repo[p]}, queue |-> <<>>,
              runtimes |-> [NoRuntimes EXCEPT ![Repo[p]] = 1]]

Init ==
    /\ \/ /\ proc = [p \in Processes |-> Unborn]
          /\ lock = None
          /\ path = None
       \/ \E up \in Incumbents :
             /\ proc = [p \in Processes |-> IF p = up THEN Online(p) ELSE Unborn]
             /\ lock = Daemon(up)
             /\ path = up
    /\ client = [c \in Commands |->
          [pc |-> IF Kind[c] = "start" THEN "discover" ELSE "stop",
           child |-> FALSE, spawned |-> FALSE, late |-> FALSE,
           via |-> None, target |-> None]]
    /\ faults = 0

Goto(c, pc) == client' = [client EXCEPT ![c].pc = pc]

-----------------------------------------------------------------------------
\* connect_or_start.

\* ping_readiness: a ping of a current release names the owner's pid and the
\* workspace it was started in.
NamesOwner(p) == p \notin Legacy

(* Faulty variant: the workspace a ping names is taken whoever started the daemon. *)
ReceiptOfAnyOwner(c, p) == NamesOwner(p)

\* startup_workspace_receipt: only the command's own live child vouches for
\* the command's workspace.
Receipt(c, p) == client[c].child /\ p = c

\* The endpoint is chosen: without a receipt the workspace is registered.
Selected(c, p) ==
    client' = [client EXCEPT
        ![c].via = p,
        ![c].pc = IF Receipt(c, p) THEN "connected" ELSE "register"]

\* discover_live_endpoint: an endpoint that is missing or refuses is not an
\* error, any other failure of the ping is.
Discover(c) ==
    /\ client[c].pc = "discover"
    /\ \/ Reachable /\ Selected(c, path)
       \/ Reachable /\ Goto(c, "failed")
       \/ ~Reachable /\ Goto(c, "ping")
    /\ UNCHANGED <<proc, lock, path, faults>>

\* classify_ready_child: the owner's pid against the child's.
Classify(c, p) ==
    IF client[c].child /\ p # c
    THEN client' = [client EXCEPT ![c].via = p, ![c].pc = "reap"]
    ELSE Selected(c, p)

\* One turn of wait_until_ready, the ping.  A daemon of an older release is
\* asked for its status before the child is classified.  On an unhealthy
\* endpoint the command ends and leaves its child alone.
Ping(c) ==
    /\ client[c].pc = "ping"
    /\ \/ ~Reachable /\ Goto(c, "poll")
       \/ Reachable /\ Goto(c, "failed")
       \/ /\ Reachable
          /\ IF client[c].child /\ ~NamesOwner(path)
             THEN Goto(c, "legacy")
             ELSE Classify(c, path)
    /\ UNCHANGED <<proc, lock, path, faults>>

\* poll_non_owner_contender without a deadline, then spawn_contender_once.
Poll(c) ==
    /\ client[c].pc = "poll"
    /\ client' = [client EXCEPT
          ![c].child = client[c].child /\ Alive(c),
          ![c].pc = "spawn"]
    /\ UNCHANGED <<proc, lock, path, faults>>

Spawn(c) ==
    /\ client[c].pc = "spawn"
    /\ LET spawns == ~client[c].child /\ ~client[c].spawned IN
          \/ /\ client' = [client EXCEPT
                   ![c].child = client[c].child \/ spawns,
                   ![c].spawned = TRUE,
                   ![c].pc = "deadline"]
             /\ proc' = IF spawns THEN [proc EXCEPT ![c].pc = "starting"]
                                  ELSE proc
             /\ UNCHANGED faults
          \/ /\ spawns
             /\ faults < MaxFaults
             /\ faults' = faults + 1
             /\ Goto(c, "failed")
             /\ UNCHANGED proc
    /\ UNCHANGED <<lock, path>>

\* terminate_and_reap: the kernel closes the listener and drops the lock of a
\* killed process; the socket file stays.
End(p) ==
    /\ proc' = [proc EXCEPT ![p].pc = "gone", ![p].ipc = "closed",
                            ![p].runtimes = NoRuntimes]
    /\ lock' = IF lock = Daemon(p) THEN None ELSE lock

Abandon(c) ==
    /\ client' = [client EXCEPT ![c].pc = "failed", ![c].child = FALSE]
    /\ IF client[c].child /\ Alive(c) THEN End(c) ELSE UNCHANGED <<proc, lock>>

\* The end of a turn: at the deadline the child is reaped, by force if need be.
Deadline(c) ==
    /\ client[c].pc = "deadline"
    /\ IF client[c].late
       THEN Abandon(c)
       ELSE Goto(c, "ping") /\ UNCHANGED <<proc, lock>>
    /\ UNCHANGED <<path, faults>>

\* resolve_ready_child for a ping that names no owner.
LegacyStatus(c) ==
    /\ client[c].pc = "legacy"
    /\ \/ Reachable /\ Classify(c, path) /\ UNCHANGED <<proc, lock>>
       \/ Abandon(c)
    /\ UNCHANGED <<path, faults>>

\* The loop of ReapContender: the contender lost, so it exits by itself.
Reap(c) ==
    /\ client[c].pc = "reap"
    /\ IF ~Alive(c)
       THEN /\ client' = [client EXCEPT ![c].child = FALSE,
                                        ![c].pc = "register"]
            /\ UNCHANGED <<proc, lock>>
       ELSE client[c].late /\ Abandon(c)
    /\ UNCHANGED <<path, faults>>

\* register_workspace, answered by whoever serves the endpoint by then: the
\* workspace is registered and its activation queued before the reply, and the
\* reply may be lost.
Register(c) ==
    /\ client[c].pc = "register"
    /\ \/ /\ Reachable
          /\ proc' = [proc EXCEPT ![path].queue = Append(@, Repo[c])]
          /\ \/ client' = [client EXCEPT ![c].pc = "connected",
                                         ![c].via = path]
             \/ Goto(c, "failed")
       \/ Goto(c, "failed") /\ UNCHANGED proc
    /\ UNCHANGED <<lock, path, faults>>

\* CONNECT_TIMEOUT or STOP_TIMEOUT passes.
TimePasses(c) ==
    /\ client[c].pc \notin {"connected", "stopped", "failed"}
    /\ ~client[c].late
    /\ client' = [client EXCEPT ![c].late = TRUE]
    /\ UNCHANGED <<proc, lock, path, faults>>

-----------------------------------------------------------------------------
\* stop_global, the whole of `stop` and the first half of `restart`.

Stopped(c) ==
    IF Kind[c] = "restart"
    THEN client' = [client EXCEPT ![c].pc = "discover", ![c].late = FALSE,
                                  ![c].target = IF client[c].pc = "stop"
                                                THEN lock ELSE @]
    ELSE client' = [client EXCEPT ![c].pc = "stopped",
                                  ![c].target = IF client[c].pc = "stop"
                                                THEN lock ELSE @]

\* daemon.stop: an endpoint nobody answers counts as stopped.
Stop(c) ==
    /\ client[c].pc = "stop"
    /\ \/ /\ Reachable
          /\ proc' = [proc EXCEPT ![path].cancelled = TRUE]
          /\ client' = [client EXCEPT ![c].pc = "probe", ![c].target = lock]
       \/ ~Reachable /\ Stopped(c) /\ UNCHANGED proc
       \/ Reachable /\ Goto(c, "failed") /\ UNCHANGED proc
    /\ UNCHANGED <<lock, path, faults>>

\* The command waits until it holds the owner lock for a moment itself.
ProbeLock(c) ==
    /\ client[c].pc = "probe"
    /\ \/ /\ lock = None
          /\ lock' = Probe(c)
          /\ Goto(c, "return")
       \/ lock # None /\ client[c].late /\ Goto(c, "failed") /\ UNCHANGED lock
    /\ UNCHANGED <<proc, path, faults>>

ProbeReturns(c) ==
    /\ client[c].pc = "return"
    /\ lock' = None
    /\ Stopped(c)
    /\ UNCHANGED <<proc, path, faults>>

-----------------------------------------------------------------------------
\* The daemon process: serve_global and serve_foreground.

\* DaemonOwnerLock::acquire: a contender that loses exits.
AcquireLock(p) ==
    /\ proc[p].pc = "starting"
    /\ IF lock = None
       THEN /\ lock' = Daemon(p)
            /\ proc' = [proc EXCEPT ![p].pc = "owned"]
       ELSE End(p)
    /\ UNCHANGED <<path, client, faults>>

\* The database cannot be opened, migrated or imported into, or the daemon
\* lease is not free: the process exits before it has bound the endpoint.
BootFails(p) ==
    /\ proc[p].pc = "owned"
    /\ faults < MaxFaults
    /\ faults' = faults + 1
    /\ End(p)
    /\ UNCHANGED <<path, client>>

\* The startup workspace is registered, then IpcServer::bind replaces whatever
\* socket file there is.
Bind(p) ==
    /\ proc[p].pc = "owned"
    /\ proc' = [proc EXCEPT ![p].pc = "probing", ![p].ipc = "serving",
                            ![p].active = {Repo[p]}]
    /\ path' = p
    /\ UNCHANGED <<lock, client, faults>>

\* The early returns of serve_foreground: the IPC task is not waited for.
StartupReturns(p) ==
    /\ proc[p].pc = "probing"
    /\ \/ proc[p].cancelled /\ UNCHANGED faults
       \/ faults < MaxFaults /\ faults' = faults + 1
    /\ proc' = [proc EXCEPT ![p].pc = "leaving"]
    /\ lock' = None
    /\ UNCHANGED <<path, client>>

\* The runtime of the startup workspace begins.
GoOnline(p) ==
    /\ proc[p].pc = "probing"
    /\ ~proc[p].cancelled
    /\ proc' = [proc EXCEPT ![p].pc = "online",
                            ![p].runtimes[Repo[p]] = 1]
    /\ UNCHANGED <<lock, path, client, faults>>

(* Faulty variant: the activation queue is served without the set of active ones. *)
ActivateAgain(p) ==
    /\ proc[p].pc = "online"
    /\ ~proc[p].cancelled
    /\ proc[p].queue # <<>>
    /\ LET w == Head(proc[p].queue) IN
          proc' = [proc EXCEPT ![p].queue = Tail(@),
                               ![p].active = @ \union {w},
                               ![p].runtimes[w] = @ + 1]
    /\ UNCHANGED <<lock, path, client, faults>>

\* serve_workspace_activations: a workspace that is active already is skipped;
\* a runtime that cannot be built cancels the daemon.
Activate(p) ==
    /\ proc[p].pc = "online"
    /\ ~proc[p].cancelled
    /\ proc[p].queue # <<>>
    /\ LET w == Head(proc[p].queue)
           taken == [proc EXCEPT ![p].queue = Tail(@),
                                 ![p].active = @ \union {w}]
       IN  IF w \in proc[p].active
           THEN proc' = taken /\ UNCHANGED faults
           ELSE \/ /\ proc' = [taken EXCEPT ![p].runtimes[w] = @ + 1]
                   /\ UNCHANGED faults
                \/ /\ faults < MaxFaults
                   /\ faults' = faults + 1
                   /\ proc' = [taken EXCEPT ![p].cancelled = TRUE]
    /\ UNCHANGED <<lock, path, client>>

\* A runtime has drained its jobs and ends because the daemon was cancelled, or
\* it fails; either way every other task of the daemon is cancelled.
RuntimeEnds(p) ==
    /\ proc[p].pc = "online"
    /\ \/ proc[p].cancelled /\ UNCHANGED faults
       \/ faults < MaxFaults /\ faults' = faults + 1
    /\ \E w \in Workspaces :
          /\ proc[p].runtimes[w] > 0
          /\ proc' = [proc EXCEPT ![p].cancelled = TRUE,
                                  ![p].active = @ \ {w},
                                  ![p].runtimes[w] = @ - 1]
    /\ UNCHANGED <<lock, path, client>>

\* accept_loop after a cancellation: connections are aborted, the file removed.
IpcCloses(p) ==
    /\ Alive(p)
    /\ proc[p].ipc = "serving"
    /\ proc[p].cancelled
    /\ proc' = [proc EXCEPT ![p].ipc = "closed"]
    /\ path' = None
    /\ UNCHANGED <<lock, client, faults>>

\* accept fails: the IPC task ends without removing the file.
IpcFails(p) ==
    /\ Alive(p)
    /\ proc[p].ipc = "serving"
    /\ faults < MaxFaults
    /\ faults' = faults + 1
    /\ proc' = [proc EXCEPT ![p].ipc = "closed"]
    /\ UNCHANGED <<lock, path, client>>

\* supervise_daemon_runtime sees the IPC task end first: without a
\* cancellation the daemon fails at once and its runtimes are dropped.
IpcStopped(p) ==
    /\ proc[p].pc = "online"
    /\ proc[p].ipc = "closed"
    /\ ~proc[p].cancelled
    /\ proc' = [proc EXCEPT ![p].pc = "leaving", ![p].cancelled = TRUE,
                            ![p].runtimes = NoRuntimes]
    /\ lock' = None
    /\ UNCHANGED <<path, client, faults>>

\* serve_foreground returns and drops the owner lock once every runtime and
\* the IPC task have ended.
Leave(p) ==
    /\ proc[p].pc = "online"
    /\ proc[p].ipc = "closed"
    /\ proc[p].cancelled
    /\ proc[p].runtimes = NoRuntimes
    /\ proc' = [proc EXCEPT ![p].pc = "leaving"]
    /\ lock' = None
    /\ UNCHANGED <<path, client, faults>>

Exit(p) ==
    /\ proc[p].pc = "leaving"
    /\ End(p)
    /\ UNCHANGED <<path, client, faults>>

Crash(p) ==
    /\ Alive(p)
    /\ faults < MaxFaults
    /\ faults' = faults + 1
    /\ End(p)
    /\ UNCHANGED <<path, client>>

\* ctrl_c, or the heartbeat has lost the lease.
Signal(p) ==
    /\ proc[p].pc \in {"probing", "online"}
    /\ ~proc[p].cancelled
    /\ faults < MaxFaults
    /\ faults' = faults + 1
    /\ proc' = [proc EXCEPT ![p].cancelled = TRUE]
    /\ UNCHANGED <<lock, path, client>>

-----------------------------------------------------------------------------
ClientNext(c) ==
    \/ Discover(c) \/ Ping(c) \/ Poll(c) \/ Spawn(c) \/ Deadline(c)
    \/ LegacyStatus(c) \/ Reap(c) \/ Register(c) \/ TimePasses(c)
    \/ Stop(c) \/ ProbeLock(c) \/ ProbeReturns(c)

ProcNext(p) ==
    \/ AcquireLock(p) \/ BootFails(p) \/ Bind(p) \/ StartupReturns(p)
    \/ GoOnline(p) \/ Activate(p) \/ RuntimeEnds(p) \/ IpcCloses(p) \/ IpcFails(p)
    \/ IpcStopped(p) \/ Leave(p) \/ Exit(p) \/ Crash(p) \/ Signal(p)

Next ==
    \/ \E c \in Commands : ClientNext(c)
    \/ \E p \in Processes : ProcNext(p)

Spec == Init /\ [][Next]_vars

-----------------------------------------------------------------------------
(* The daemon, unless it ends, has taken the workspace or its activation   *)
(* is queued.                                                              *)
Serves(p, w) ==
    \/ proc[p].pc \in {"leaving", "gone"} \/ proc[p].cancelled
    \/ w \in proc[p].active \union ToSet(proc[p].queue)

(* A command that connected has its workspace served by the daemon it      *)
(* reached: the workspace of this command, not only the one the daemon was *)
(* started in.                                                             *)
ConnectedIsActive ==
    \A c \in Commands :
        client[c].pc = "connected" => Serves(client[c].via, Repo[c])

(* One runtime per workspace, over all processes: two commands registering *)
(* one workspace do not start it twice, and a daemon that is draining the  *)
(* jobs of one workspace after its own lease is released still keeps the   *)
(* next daemon out.                                                        *)
OneRuntime ==
    \A w \in Workspaces, p, q \in Processes :
        /\ proc[p].runtimes[w] <= 1
        /\ proc[p].runtimes[w] > 0 /\ proc[q].runtimes[w] > 0 => p = q

(* No stray contender: when a command has connected, the process it        *)
(* spawned is either the daemon it is connected to or has ended.           *)
NoStrayContender ==
    \A c \in Commands :
        client[c].pc = "connected" /\ client[c].child => client[c].via = c

-----------------------------------------------------------------------------
(* None names nothing, and a daemon that was there before is nobody's      *)
(* contender.                                                              *)
BootConstants ==
    /\ None \notin Processes
    /\ \A p \in Processes : None # Daemon(p) /\ None # Probe(p)
    /\ Commands \intersect Incumbents = {}
    /\ MaxFaults \in Nat

(* The inductive invariant behind the three properties.                    *)

(* The owner lock is held from its acquisition until the main task returns *)
(* or the process ends, or by a command that probes it.                    *)
LockHeld ==
    /\ \A p \in Processes :
        lock = Daemon(p) <=> proc[p].pc \in {"owned", "probing", "online"}
    /\ \A c \in Commands : client[c].pc = "return" => lock = Probe(c)

(* Only a main task that is online runs runtimes, of active workspaces.    *)
RuntimesHeld(p) ==
    /\ proc[p].pc = "probing" => Repo[p] \in proc[p].active
    /\ \A w \in Workspaces :
        /\ proc[p].runtimes[w] <= 1
        /\ proc[p].runtimes[w] > 0 =>
               proc[p].pc = "online" /\ w \in proc[p].active

(* An endpoint that was bound belongs to a process that has registered the *)
(* workspace it was started in.                                            *)
EndpointHeld(p) ==
    /\ proc[p].pc \in {"unborn", "starting", "owned"} => proc[p].ipc = "none"
    /\ proc[p].ipc = "serving" => Serves(p, Repo[p])

(* A command spawns once, has its child only after that, and is connected  *)
(* to a process that has bound the endpoint and serves it, its own if that *)
(* is still its child.                                                     *)
CommandHeld(c) ==
    /\ ~client[c].spawned => proc[c].pc = "unborn" /\ ~client[c].child
    /\ client[c].pc \in {"stop", "probe", "return", "discover", "register"} =>
           ~client[c].child
    /\ client[c].pc = "connected" =>
           /\ client[c].via \in Processes
           /\ proc[client[c].via].ipc # "none"
           /\ Serves(client[c].via, Repo[c])
           /\ client[c].child => client[c].via = c

IInv ==
    /\ TypeOK /\ LockHeld
    /\ \A p \in Processes : RuntimesHeld(p) /\ EndpointHeld(p)
    /\ \A c \in Commands : CommandHeld(c)
=============================================================================

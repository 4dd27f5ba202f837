----------------------------- MODULE ChatClient -----------------------------
(***************************************************************************)
(* The clients of the daemon: the chat workspace (`colay tui`) and the run *)
(* command.                                                                *)
(*                                                                         *)
(* A client first makes sure that it has a session: the chat takes the     *)
(* oldest listed one or creates the default session under a fixed          *)
(* idempotency key, the run command creates its own under another key.     *)
(* The chat then alternates between refreshing its snapshot of the         *)
(* workspace and acting on keys; what a key does is decided by the         *)
(* snapshot on the screen, which may be older than the store.              *)
(*                                                                         *)
(* The daemon behind the requests is the environment here: how it carries  *)
(* out commands, plans and integrations is SessionWorkflow's subject.      *)
(* Message text, layout and rendering are left out; in a terminal that is  *)
(* too narrow every key but quit is ignored.                               *)
(***************************************************************************)
EXTENDS Naturals, FiniteSets, Sequences, SequencesExt

CONSTANTS
    Clients,    \* the client processes
    Kind,       \* Kind[c]: "chat" or "run"
    Screens,    \* the chats whose screen is followed once they have a session
    Tasks,      \* the tasks that may come to exist
    TaskLimit,  \* tasks of one projection (task_limit)
    MaxPlans, MaxMessages, MaxBatches, MaxKeys, MaxFaults, \* bounds
    MaxChanges, \* bound on the changes others make to the store
    None

VARIABLES
    store,   \* what the daemon's database holds (see TypeOK)
    command, \* command[key]: a client command, or None
    client,  \* client[c]: the progress and the screen of a client
    faults   \* failed requests, keys and changes so far

vars == <<store, command, client, faults>>

SessionKey(c) == <<"session", Kind[c]>>
AppendKey(c) == <<"append", c>>
TurnKey(c) == <<"turn", c>>
Keys == {SessionKey(c) : c \in Clients} \union {AppendKey(c) : c \in Clients}
                                        \union {TurnKey(c) : c \in Clients}

NoOverlay == [kind |-> "none"]
NoSnapshot == [tasks |-> <<>>, plan |-> None, card |-> None,
               goal |-> 0, readOnly |-> TRUE, inspector |-> None]

Batch == [n : 1..MaxBatches,
          status : {"preview", "blocked", "approved", "applying", "applied",
                    "needs_attention"},
          blockers : BOOLEAN,
          application : {"none", "applying", "applied", "failed", "interrupted"}]

TypeOK ==
    /\ store \in [sessions : BoundedSeq(Clients, Cardinality(Clients)),
                  tasks : BoundedSeq(Tasks, Cardinality(Tasks)),
                  state : [Tasks -> {"running", "completed"}],
                  plan : 0..MaxPlans,     \* revision awaiting approval
                  plans : 0..MaxPlans,    \* revisions so far
                  goal : 0..MaxMessages,  \* the revision's goal message
                  messages : 0..MaxMessages,
                  batch : Batch \union {None},
                  selection : Tasks \union {None},
                  online : BOOLEAN]
    /\ command \in [Keys ->
          {None} \union [session : Clients,
                         state : {"pending", "completed", "failed"}]]
    /\ DOMAIN client = Clients
    /\ \A c \in Clients :
          /\ client[c].pc \in {"list", "lookup", "submit", "reload", "wait",
                               "enter", "open", "send", "append", "turn",
                               "done", "failed"}
          /\ client[c].session \in Clients \union {None}
          /\ client[c].selected \in Tasks \union {None}
          /\ client[c].driver \in Tasks \union {None}
    /\ faults \in [requests : 0..MaxFaults, keys : 0..MaxKeys,
                   changes : 0..MaxChanges]

------------------------------------------------------------------------------
(* Making sure of a session. *)

To(c, next) == client' = [client EXCEPT ![c].pc = next]

\* A request fails before it reaches the daemon, or its answer is lost.
Fault == faults.requests < MaxFaults
             /\ faults' = [faults EXCEPT !.requests = @ + 1]

\* workspace.sessions lists the newest first; the last of them is taken.
ListSessions(c) ==
    /\ client[c].pc = "list"
    /\ client' = [client EXCEPT
          ![c].pc = IF store.sessions = <<>> THEN "lookup" ELSE "enter",
          ![c].session = IF store.sessions = <<>> THEN None
                         ELSE Head(store.sessions)]
    /\ UNCHANGED <<store, command, faults>>

\* The identifier of the session a client creates is its own name.
LookupSession(c) ==
    /\ client[c].pc = "lookup"
    /\ LET stored == command[SessionKey(c)] IN
       client' = [client EXCEPT
          ![c].pc = IF stored = None THEN "submit" ELSE "wait",
          ![c].session = IF stored = None THEN c ELSE stored.session]
    /\ UNCHANGED <<store, command, faults>>

\* submit_client_command: a stored command with the same key must have the
\* same payload.
Accepts(key, session) ==
    IF command[key] = None THEN TRUE ELSE command[key].session = session

Stored(key, session) ==
    IF command[key] = None
    THEN [command EXCEPT ![key] = [session |-> session, state |-> "pending"]]
    ELSE command

\* The chat gives up when its submission is refused or the answer is lost;
\* the run command then looks the stored command up.
Refused(c) == IF Kind[c] = "chat" THEN "failed" ELSE "reload"

SubmitSession(c) ==
    /\ client[c].pc = "submit"
    /\ \/ /\ Accepts(SessionKey(c), client[c].session)
          /\ command' = Stored(SessionKey(c), client[c].session)
          /\ To(c, "wait")
          /\ UNCHANGED faults
       \/ /\ ~Accepts(SessionKey(c), client[c].session)
          /\ To(c, Refused(c))
          /\ UNCHANGED <<command, faults>>
       \/ /\ Fault
          /\ command' \in {command}
                \union IF Accepts(SessionKey(c), client[c].session)
                       THEN {Stored(SessionKey(c), client[c].session)} ELSE {}
          /\ To(c, Refused(c))
    /\ UNCHANGED <<store>>

ReloadSession(c) ==
    /\ client[c].pc = "reload"
    /\ LET stored == command[SessionKey(c)] IN
       client' = [client EXCEPT
          ![c].pc = IF stored = None THEN "failed" ELSE "wait",
          ![c].session = IF stored = None THEN @ ELSE stored.session]
    /\ UNCHANGED <<store, command, faults>>

\* Polls the command until it is settled or the deadline passes.
WaitFor(c, key, next) ==
    /\ IF command[key] = None THEN To(c, "failed")
       ELSE \/ /\ command[key].state = "completed"
               /\ To(c, next)
            \/ /\ command[key].state # "completed"
               /\ To(c, "failed")
    /\ UNCHANGED <<store, command, faults>>

WaitSession(c) ==
    /\ client[c].pc = "wait"
    /\ WaitFor(c, SessionKey(c), IF Kind[c] = "chat" THEN "enter" ELSE "send")

\* workspace.run.submit, then the append and the derived conversation turn.
RunSubmit(c) ==
    /\ client[c].pc = "send"
    /\ command' = Stored(AppendKey(c), client[c].session)
    /\ To(c, "append")
    /\ UNCHANGED <<store, faults>>

WaitAppend(c) == client[c].pc = "append" /\ WaitFor(c, AppendKey(c), "turn")
WaitTurn(c) == client[c].pc = "turn" /\ WaitFor(c, TurnKey(c), "done")

------------------------------------------------------------------------------
(* The snapshot the chat draws. *)

\* read_workspace_projection: the most recent tasks, and the selected one.
RecentTasks == SubSeq(store.tasks, 1,
                      IF Len(store.tasks) < TaskLimit THEN Len(store.tasks)
                      ELSE TaskLimit)
HasGraph == store.plans > 0
Inspected(selected) ==
    LET wanted == IF selected = None THEN store.selection ELSE selected
    IN  IF wanted \in Range(RecentTasks) THEN wanted
        ELSE IF HasGraph \/ wanted \notin Range(store.tasks) THEN None
        ELSE wanted

\* The inspected task is shown even when it is not among the recent ones.
SnapshotTasks(inspector) ==
    IF inspector = None \/ inspector \in Range(RecentTasks) THEN RecentTasks
    ELSE Append(RecentTasks, inspector)

\* A plan is shown while its goal is still the latest message of the user.
PlanCard == IF store.plan > 0 /\ store.goal = store.messages
            THEN store.plan ELSE None

\* integration_to_card; the blockers are ones a resolution task can resolve.
Resolvable(b) == b.status = "needs_attention" \/ b.blockers
CardBlockers(b) == b.blockers \/ b.application \in {"failed", "interrupted"}
IntegrationCard ==
    LET b == store.batch IN
    IF b = None THEN None
    ELSE IF b.status \notin {"preview", "blocked", "needs_attention"} THEN None
    ELSE [n |-> b.n, approvable |-> b.status = "preview" /\ ~b.blockers,
          resolvable |-> Resolvable(b), blockers |-> CardBlockers(b)]

Projection(c) ==
    LET inspector == Inspected(client[c].driver) IN
    [tasks |-> SnapshotTasks(inspector), plan |-> PlanCard,
     card |-> IntegrationCard, goal |-> store.messages,
     readOnly |-> ~store.online, inspector |-> inspector]

\* WorkspaceSnapshot::validate
Valid(snapshot) ==
    /\ snapshot.card # None =>
          /\ snapshot.card.approvable => ~snapshot.card.blockers
          /\ snapshot.card.resolvable => snapshot.card.blockers
    /\ snapshot.inspector # None => snapshot.inspector \in Range(snapshot.tasks)


\* reconcile_snapshot: a confirmation closes when the card it names is no
\* longer the one shown, and a selection that is no longer listed is dropped.
OverlayStands(overlay, snapshot) ==
    CASE overlay.kind = "plan" -> snapshot.plan = overlay.n
      [] overlay.kind = "integration" ->
            IF snapshot.card = None THEN FALSE
            ELSE snapshot.card.approvable /\ snapshot.card.n = overlay.n
      [] OTHER -> TRUE

SelectionAfter(selected, snapshot) ==
    LET s == IF selected = None THEN snapshot.inspector ELSE selected
    IN  IF s \in Range(snapshot.tasks) THEN s ELSE None

Reconciled(ui, snapshot) ==
    [ui EXCEPT !.snapshot = snapshot,
               !.overlay = IF OverlayStands(@, snapshot) THEN @ ELSE NoOverlay,
               !.selected = SelectionAfter(@, snapshot)]

\* The screen after a refresh that may fail or return an invalid snapshot.
AfterRefresh(c, ui) ==
    IF Valid(Projection(c)) THEN Reconciled(ui, Projection(c)) ELSE ui

\* run_loop_with_state: the first refresh must succeed.
Enter(c) ==
    /\ client[c].pc = "enter"
    /\ \/ /\ UNCHANGED faults
          /\ client' = [client EXCEPT ![c] =
                IF Valid(Projection(c))
                THEN [Reconciled(@, Projection(c)) EXCEPT !.pc = "open"]
                ELSE [@ EXCEPT !.pc = "failed"]]
       \/ /\ Fault
          /\ To(c, "failed")
    /\ UNCHANGED <<store, command>>

Refresh(c) ==
    /\ client[c].pc = "open"
    /\ client' = [client EXCEPT ![c] =
          AfterRefresh(c, [@ EXCEPT !.sent = <<"nothing">>])]
    /\ UNCHANGED <<store, command, faults>>

------------------------------------------------------------------------------
(* Keys. *)

Key(c) ==
    /\ client[c].pc = "open"
    /\ faults.keys < MaxKeys

Pressed == faults' = [faults EXCEPT !.keys = @ + 1]
PressedAndFailed ==
    /\ faults.requests < MaxFaults
    /\ faults' = [faults EXCEPT !.keys = @ + 1, !.requests = @ + 1]

\* move_task_selection, then selection_changed; a failed request leaves the
\* driver at the old task.
Moved(ui, forward) ==
    LET tasks == ui.snapshot.tasks
        n == Len(tasks)
        at == {i \in 1..n : tasks[i] = ui.selected}
        i == IF at # {} THEN CHOOSE k \in at : TRUE
             ELSE IF forward THEN n ELSE 1
    IN  IF n = 0 THEN None
        ELSE IF forward THEN tasks[(i % n) + 1]
        ELSE IF i = 1 THEN tasks[n] ELSE tasks[i - 1]

MoveSelection(c) ==
    /\ Key(c)
    /\ client[c].overlay.kind \in {"none", "switcher"}
    /\ \E forward \in BOOLEAN :
          LET to == Moved(client[c], forward) IN
          IF to = client[c].selected
          THEN Pressed /\ UNCHANGED <<client, store>>
          ELSE \/ /\ Pressed
                  /\ client' = [client EXCEPT ![c].selected = to,
                                              ![c].driver = to]
                  /\ store' = [store EXCEPT !.selection = to]
               \/ /\ PressedAndFailed
                  /\ client' = [client EXCEPT ![c].selected = to]
                  /\ UNCHANGED store
    /\ UNCHANGED <<command>>

OpenOverlay(c, kind) ==
    /\ Key(c)
    /\ client[c].overlay.kind = "none"
    /\ kind \in {"switcher", "target"}
    /\ client' = [client EXCEPT ![c].overlay = [kind |-> kind]]
    /\ Pressed
    /\ UNCHANGED <<store, command>>

CloseOverlay(c) ==
    /\ Key(c)
    /\ client[c].overlay.kind # "none"
    /\ client' = [client EXCEPT ![c].overlay = NoOverlay]
    /\ Pressed
    /\ UNCHANGED <<store, command>>

PickTarget(c) ==
    /\ Key(c)
    /\ client[c].overlay.kind = "target"
    /\ \E target \in {"orchestrator", "all"} \union Range(client[c].snapshot.tasks) :
          client' = [client EXCEPT ![c].overlay = NoOverlay,
                                   ![c].target = target]
    /\ Pressed
    /\ UNCHANGED <<store, command>>

Acts(c) == Key(c) /\ client[c].overlay.kind = "none"
               /\ ~client[c].snapshot.readOnly

\* /approve: the plan first, then the integration preview.
RequestApproval(c) ==
    /\ Acts(c)
    /\ LET shown == client[c].snapshot
           overlay == IF shown.plan # None THEN [kind |-> "plan", n |-> shown.plan]
                      ELSE IF shown.card = None THEN NoOverlay
                      ELSE IF shown.card.approvable
                           THEN [kind |-> "integration", n |-> shown.card.n]
                           ELSE NoOverlay
       IN client' = [client EXCEPT ![c].overlay = overlay]
    /\ Pressed
    /\ UNCHANGED <<store, command>>

\* What the driver sends; a dispatch that succeeded is followed by a refresh,
\* and there an invalid snapshot ends the chat.
Dispatch(c, action) ==
    \/ /\ Pressed
       /\ client' = [client EXCEPT ![c] =
             LET ui == [@ EXCEPT !.overlay = NoOverlay, !.sent = action]
             IN  IF Valid(Projection(c)) THEN Reconciled(ui, Projection(c))
                 ELSE [ui EXCEPT !.pc = "failed"]]
    \/ /\ PressedAndFailed
       /\ client' = [client EXCEPT ![c].overlay = NoOverlay]

Confirm(c) ==
    /\ Key(c)
    /\ client[c].overlay.kind \in {"plan", "integration"}
    /\ Dispatch(c, <<client[c].overlay.kind, client[c].overlay.n>>)
    /\ UNCHANGED <<store, command>>

RequestPlan(c) ==
    /\ Acts(c)
    /\ client[c].snapshot.goal > 0
    /\ Dispatch(c, <<"request_plan", client[c].snapshot.goal>>)
    /\ UNCHANGED <<store, command>>

RequestIntegration(c) ==
    /\ Acts(c)
    /\ Dispatch(c, <<"request_integration">>)
    /\ UNCHANGED <<store, command>>

RequestResolution(c) ==
    /\ Acts(c)
    /\ client[c].snapshot.card # None
    /\ client[c].snapshot.card.resolvable
    /\ Dispatch(c, <<"resolve", client[c].snapshot.card.n>>)
    /\ UNCHANGED <<store, command>>

TaskControl(c) ==
    /\ Acts(c)
    /\ client[c].selected # None
    /\ Dispatch(c, <<"control", client[c].selected>>)
    /\ UNCHANGED <<store, command>>

\* A message to all running tasks reads the projection again.
Recipients(c) ==
    IF client[c].target # "all" THEN {client[c].target}
    ELSE {t \in Range(RecentTasks) : store.state[t] = "running"}

SubmitMessage(c) ==
    /\ Acts(c)
    /\ Dispatch(c, <<"message", Recipients(c)>>)
    /\ UNCHANGED <<store, command>>

\* The administration dashboard is left as the chat was entered.
Leave(c) ==
    /\ Key(c)
    /\ \E next \in {"done", "enter"} : To(c, next)
    /\ Pressed
    /\ UNCHANGED <<store, command>>

------------------------------------------------------------------------------
(* The daemon, seen from its clients. *)

Succeed(key) ==
    /\ command' = [command EXCEPT ![key].state = "completed"]
    /\ UNCHANGED <<client, faults>>

DaemonCreatesSession(c) ==
    /\ command[SessionKey(c)] # None
    /\ command[SessionKey(c)].state = "pending"
    /\ Succeed(SessionKey(c))
    /\ store' = [store EXCEPT !.sessions =
                   Append(@, command[SessionKey(c)].session)]

DaemonAppends(c) ==
    /\ command[AppendKey(c)] # None
    /\ command[AppendKey(c)].state = "pending"
    /\ store.messages < MaxMessages
    /\ command' = [command EXCEPT ![AppendKey(c)].state = "completed",
                     ![TurnKey(c)] = [session |-> command[AppendKey(c)].session,
                                      state |-> "pending"]]
    /\ store' = [store EXCEPT !.messages = @ + 1]
    /\ UNCHANGED <<client, faults>>

DaemonAnswers(c) ==
    /\ command[TurnKey(c)] # None
    /\ command[TurnKey(c)].state = "pending"
    /\ store.plans < MaxPlans
    /\ Succeed(TurnKey(c))
    /\ store' = [store EXCEPT !.plan = store.plans + 1, !.plans = @ + 1,
                              !.goal = store.messages]

DaemonRejects(key) ==
    /\ Fault
    /\ command[key] # None
    /\ command[key].state = "pending"
    /\ command' = [command EXCEPT ![key].state = "failed"]
    /\ UNCHANGED <<store, client>>

OnScreen == \E c \in Screens : client[c].pc \in {"enter", "open"}

\* No client reads what changes here before it has a session.
Changes ==
    /\ faults.changes < MaxChanges
    /\ OnScreen
    /\ faults' = [faults EXCEPT !.changes = @ + 1]
    /\ UNCHANGED <<command, client>>

\* A message of another client; an approval or a newer proposal.
StoreMoves ==
    /\ Changes
    /\ \/ /\ store.messages < MaxMessages
          /\ store' = [store EXCEPT !.messages = @ + 1]
       \/ /\ store.plan > 0
          /\ store' = [store EXCEPT !.plan = 0]
       \/ store' = [store EXCEPT !.online = ~@]

\* request_integration, approve_integration, start, finish, and the restart
\* that reconciles what was interrupted.
BatchMoves ==
    /\ Changes
    /\ LET b == store.batch
           Becomes(status, application) ==
              store' = [store EXCEPT !.batch.status = status,
                                     !.batch.application = application]
       IN \/ /\ IF b = None THEN TRUE
                ELSE b.status \notin {"approved", "applying"} /\ b.n < MaxBatches
             /\ \E blockers \in BOOLEAN :
                   store' = [store EXCEPT !.batch =
                      [n |-> IF b = None THEN 1 ELSE b.n + 1,
                       status |-> IF blockers THEN "blocked" ELSE "preview",
                       blockers |-> blockers, application |-> "none"]]
          \/ /\ b # None
             /\ \/ b.status = "preview" /\ Becomes("approved", "none")
                \/ b.status = "approved" /\ Becomes("applying", "applying")
                \/ b.status = "approved" /\ Becomes("needs_attention", "none")
                \/ /\ b.status = "applying"
                   /\ \/ Becomes("applied", "applied")
                      \/ Becomes("needs_attention", "failed")
                      \/ Becomes("needs_attention", "interrupted")

\* A task is created, or is updated and becomes the most recent one.
TaskMoves(t) ==
    /\ Changes
    /\ \/ /\ t \notin Range(store.tasks)
          /\ store' = [store EXCEPT !.tasks = <<t>> \o @]
       \/ /\ t \in Range(store.tasks)
          /\ store.state[t] = "running"
          /\ store' = [store EXCEPT
                !.tasks = <<t>> \o SelectSeq(@, LAMBDA u : u # t),
                !.state[t] = "completed"]

------------------------------------------------------------------------------
\* A new workspace, where all clients race for the session and no key is
\* pressed, or one in which a chat created the session earlier and an
\* integration is being applied; there the other chats are already gone.
Init ==
    /\ \E owner \in {None} \union Screens :
          /\ store = [sessions |-> IF owner = None THEN <<>> ELSE <<owner>>,
                      tasks |-> <<>>, state |-> [t \in Tasks |-> "running"],
                      plan |-> 0, plans |-> 0, goal |-> 0, messages |-> 0,
                      batch |-> IF owner = None THEN None
                                ELSE [n |-> 1, status |-> "applying",
                                      blockers |-> FALSE,
                                      application |-> "applying"],
                      selection |-> None, online |-> TRUE]
          /\ command = [key \in Keys |->
                IF owner = None THEN None
                ELSE IF key = SessionKey(owner)
                     THEN [session |-> owner, state |-> "completed"] ELSE None]
    /\ client = [c \in Clients |->
          [pc |-> IF store.sessions # <<>> /\ c \notin Screens THEN "done"
                  ELSE IF Kind[c] = "run" THEN "lookup" ELSE "list",
           session |-> None, snapshot |-> NoSnapshot, overlay |-> NoOverlay,
           selected |-> None, driver |-> None, target |-> "orchestrator",
           sent |-> <<"nothing">>]]
    /\ faults = [requests |-> 0,
                 keys |-> IF store.sessions = <<>> THEN MaxKeys ELSE 0,
                 changes |-> IF store.sessions = <<>> THEN MaxChanges ELSE 0]

Connect(c) ==
    \/ ListSessions(c) \/ LookupSession(c) \/ SubmitSession(c)
    \/ ReloadSession(c) \/ WaitSession(c)
    \/ RunSubmit(c) \/ WaitAppend(c) \/ WaitTurn(c)

Interact(c) ==
    \/ Enter(c) \/ Refresh(c) \/ MoveSelection(c) \/ CloseOverlay(c)
    \/ \E kind \in {"switcher", "target"} : OpenOverlay(c, kind)
    \/ PickTarget(c) \/ RequestApproval(c) \/ Confirm(c) \/ RequestPlan(c)
    \/ RequestIntegration(c) \/ RequestResolution(c) \/ TaskControl(c)
    \/ SubmitMessage(c) \/ Leave(c)

Daemon ==
    \/ \E c \in Clients : DaemonCreatesSession(c) \/ DaemonAppends(c)
                                                   \/ DaemonAnswers(c)
    \/ \E key \in Keys : DaemonRejects(key)
    \/ StoreMoves \/ BatchMoves \/ \E t \in Tasks : TaskMoves(t)

Next == \/ \E c \in Clients : Connect(c)
        \/ \E c \in Screens : Interact(c)
        \/ Daemon

Spec == Init /\ [][Next]_vars

------------------------------------------------------------------------------
\* An approval or a control that a key sends names the plan, the approvable
\* preview or a task that the screen shows at that moment, whatever the daemon
\* and the refreshes did since the confirmation was opened (state.rs,
\* reconcile_snapshot and handle_overlay_key).
KeyActsOnShown ==
    \A c \in Clients :
        LET action == client'[c].sent
            shown == client[c].snapshot
        IN  action # client[c].sent =>
              CASE action[1] = "plan" -> action[2] = shown.plan
                [] action[1] = "integration" ->
                      shown.card # None /\ shown.card.approvable
                                        /\ shown.card.n = action[2]
                [] action[1] = "control" -> action[2] \in Range(shown.tasks)
                [] OTHER -> TRUE

\* Every state the daemon can leave a session in can be shown: the snapshot
\* the chat builds from it passes its own validation, so that the chat can be
\* opened (chat_tui.rs, integration_to_card; model.rs, validate).
SnapshotIsValid == \A c \in Clients : Valid(Projection(c))
==============================================================================

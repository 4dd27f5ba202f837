----------------------------- MODULE TaskStream -----------------------------
(***************************************************************************)
(* `colay resume` of a task that this daemon already executes: the daemon  *)
(* answers `attached` with the newest event sequence of the workspace      *)
(* (resume_workspace_task, ipc.rs), the client opens workspace.task.stream *)
(* at that cursor (resume_task, app.rs), and stream_task_status pairs the  *)
(* events of the task with a status row that it reads separately.          *)
(*                                                                         *)
(* Every read of the stream is a step of its own, because the executor     *)
(* commits transitions of the task, other tasks append to the same         *)
(* workspace log, and users append controls, between any two of them.      *)
(* A transition and its event are one transaction.                         *)
(***************************************************************************)
EXTENDS Naturals, Sequences

CONSTANTS
    None,           \* no cursor in the request
    ScanLimit,      \* 256 records in one scan of the outbox
    MaxEvents       \* bound: events of the workspace log

Terminal == {"completed", "failed"}
Cursors == {None} \cup 0..MaxEvents

VARIABLES
    log,        \* task_events of the workspace, oldest first
    row,        \* the task's row: state and revision
    client,     \* resume_task: idle, attached, reading, returned, failed
    request,    \* the cursor that the client sends
    server,     \* the step of stream_task_status
    cursor,     \* scan_cursor
    status,     \* the status that the stream has read last
    records,    \* the scanned records that are not handled yet
    sent,       \* sent_status
    idle,       \* no frame since the last sleep, so idle_deadline may pass
    frames      \* the frames written to the client

vars == <<log, row, client, request, server, cursor, status, records, sent, idle, frames>>
stream == <<server, cursor, status, records, sent, idle, frames>>

----------------------------------------------------------------------------
(* The workspace log                                                        *)

\* An event of the streamed task carries the state it enters, None for a
\* control; revision is that of the row which the same transaction writes.
Event(of, to, revision) == [of |-> of, to |-> to, revision |-> revision]

LatestOutboxSequence == Len(log)

OutboxAfter(sequence) ==
    [i \in 1..(IF Len(log) - sequence <= ScanLimit
               THEN (IF Len(log) > sequence THEN Len(log) - sequence ELSE 0)
               ELSE ScanLimit) |-> [sequence |-> sequence + i, event |-> log[sequence + i]]]

\* The executor moves the task to another state.
Transition(to) ==
    /\ Len(log) < MaxEvents
    /\ row.state \notin Terminal
    /\ to # row.state
    /\ row' = [state |-> to, revision |-> row.revision + 1]
    /\ log' = Append(log, Event("task", to, row.revision + 1))
    /\ UNCHANGED <<client, request, stream>>

\* Another task of the workspace appends an event.
OtherEvent ==
    /\ Len(log) < MaxEvents
    /\ log' = Append(log, Event("other", None, 0))
    /\ UNCHANGED <<row, client, request, stream>>

\* pause, cancel or handover of the task: a control row and its event, which
\* leave the task's row alone.
SubmitControl ==
    /\ Len(log) < MaxEvents
    /\ row.state \notin Terminal
    /\ log' = Append(log, Event("task", None, row.revision))
    /\ UNCHANGED <<row, client, request, stream>>

----------------------------------------------------------------------------
(* The client                                                               *)

\* workspace.resume of a task whose schedule claim this daemon holds.
ResumeAttached ==
    /\ client = "idle"
    /\ row.state \notin Terminal
    /\ client' = "attached"
    /\ request' = LatestOutboxSequence
    /\ UNCHANGED <<log, row, stream>>

\* A client that asks for the stream itself: with a cursor it kept from an
\* earlier stream, or with none.
Ask(c) ==
    /\ client = "idle"
    /\ c # None => c <= Len(log)
    /\ client' = "attached"
    /\ request' = c
    /\ UNCHANGED <<log, row, stream>>

\* handle_connection gives the connection to the stream.
OpenStream ==
    /\ client = "attached"
    /\ client' = "reading"
    /\ server' = "load"
    /\ cursor' = IF request = None THEN LatestOutboxSequence ELSE request
    /\ UNCHANGED <<log, row, request, status, records, sent, idle, frames>>

\* The end of the stream: the last frame is the answer, none is an error.
Return ==
    /\ client = "reading"
    /\ server \in {"finished", "quiet", "broken"}
    /\ client' = IF frames = <<>> THEN "failed" ELSE "returned"
    /\ UNCHANGED <<log, row, request, stream>>

\* Ten seconds without a frame. The server's next write then fails.
TimeOut ==
    /\ client = "reading"
    /\ client' = "failed"
    /\ server' = "broken"
    /\ UNCHANGED <<log, row, request, cursor, status, records, sent, idle, frames>>

\* The daemon dies: the client sees the end of the stream.
Crash ==
    /\ server \in {"load", "scan", "refresh", "deliver", "sleep"}
    /\ server' = "broken"
    /\ UNCHANGED <<log, row, client, request, cursor, status, records, sent, idle, frames>>

----------------------------------------------------------------------------
(* stream_task_status                                                       *)

ActiveTaskStatus == row

LoadStatus ==
    /\ server = "load"
    /\ status' = ActiveTaskStatus
    /\ server' = "scan"
    /\ UNCHANGED <<log, row, client, request, cursor, records, sent, idle, frames>>

Scan ==
    /\ server = "scan"
    /\ records' = OutboxAfter(cursor)
    /\ server' = "refresh"
    /\ UNCHANGED <<log, row, client, request, cursor, status, sent, idle, frames>>

\* Faulty variant: the status read before the scan is kept.
RefreshedStatusKept == status

\* The scan may hold events that are newer than the status read before it, so
\* the status is read again when it holds any of the task.
RefreshedStatus ==
    IF \E i \in DOMAIN records : records[i].event.of = "task" THEN ActiveTaskStatus ELSE status

Refresh ==
    /\ server = "refresh"
    /\ status' = RefreshedStatus
    /\ server' = "deliver"
    /\ UNCHANGED <<log, row, client, request, cursor, records, sent, idle, frames>>

Write(event) ==
    /\ frames' = Append(frames, [status |-> status, event |-> event, cursor |-> cursor'])
    /\ sent' = TRUE
    /\ idle' = FALSE

\* One record: an event of another task only moves the cursor; an event of
\* the task is written, and the stream ends with one that is terminal.
Deliver ==
    /\ server = "deliver"
    /\ records # <<>>
    /\ LET record == Head(records)
           own == record.event.of = "task" IN
       /\ cursor' = record.sequence
       /\ records' = Tail(records)
       /\ IF own THEN Write(record.sequence) ELSE UNCHANGED <<sent, idle, frames>>
       /\ server' = IF own /\ record.event.to \in Terminal THEN "finished" ELSE "deliver"
    /\ UNCHANGED <<log, row, client, request, status>>

\* The first round without an event of the task sends the status alone.
SendStatus ==
    /\ server = "deliver"
    /\ records = <<>>
    /\ ~sent
    /\ UNCHANGED cursor
    /\ Write(0)
    /\ server' = IF status.state \in Terminal THEN "finished" ELSE "sleep"
    /\ UNCHANGED <<log, row, client, request, status, records>>

EndRound ==
    /\ server = "deliver"
    /\ records = <<>>
    /\ sent
    /\ server' = "sleep"
    /\ UNCHANGED <<log, row, client, request, cursor, status, records, sent, idle, frames>>

\* idle_deadline has not passed: the next round starts after the sleep.
NextRound ==
    /\ server = "sleep"
    /\ server' = "load"
    /\ idle' = TRUE
    /\ UNCHANGED <<log, row, client, request, cursor, status, records, sent, frames>>

\* Two seconds without a frame.
IdleOut ==
    /\ server = "sleep"
    /\ idle
    /\ server' = "quiet"
    /\ UNCHANGED <<log, row, client, request, cursor, status, records, sent, idle, frames>>

----------------------------------------------------------------------------

Init ==
    /\ log = <<>>
    /\ row = [state |-> "running", revision |-> 1]
    /\ client = "idle"
    /\ request = None
    /\ server = "closed"
    /\ cursor = 0
    /\ status = [state |-> "running", revision |-> 0]
    /\ records = <<>>
    /\ sent = FALSE
    /\ idle = FALSE
    /\ frames = <<>>

Next ==
    \/ \E to \in {"verifying", "completed", "failed"} : Transition(to)
    \/ OtherEvent
    \/ SubmitControl
    \/ ResumeAttached
    \/ \E c \in Cursors : Ask(c)
    \/ OpenStream
    \/ Return
    \/ TimeOut
    \/ Crash
    \/ LoadStatus
    \/ Scan
    \/ Refresh
    \/ Deliver
    \/ SendStatus
    \/ EndRound
    \/ NextRound
    \/ IdleOut

Spec == Init /\ [][Next]_vars

----------------------------------------------------------------------------

\* The events that the client has been sent are those of the task after the
\* requested cursor and up to the server's, none missing, in order and once.
DeliveredInOrder ==
    /\ \A i \in DOMAIN frames : frames[i].event # 0 => log[frames[i].event].of = "task"
    /\ \A i, j \in DOMAIN frames :
         frames[i].event # 0 /\ frames[j].event # 0 /\ i < j => frames[i].event < frames[j].event
    /\ request # None =>
         /\ \A i \in DOMAIN frames :
              frames[i].event # 0 => request < frames[i].event /\ frames[i].event <= cursor
         /\ \A s \in (request + 1)..cursor :
              log[s].of = "task" => \E i \in DOMAIN frames : frames[i].event = s

\* No event is paired with a status older than itself, and statuses are not
\* sent in another order than they were read.
StatusCurrent ==
    \A i \in DOMAIN frames :
        /\ frames[i].event # 0 => frames[i].status.revision >= log[frames[i].event].revision
        /\ frames[i].event # 0 => frames[i].cursor = frames[i].event
        /\ i > 1 => frames[i].status.revision >= frames[i - 1].status.revision

\* What a client of the stream may conclude from its frames, whatever commits
\* between the reads of stream_task_status (ipc.rs 865-1015): the events are
\* those of the task after the requested cursor, in order, none missing and
\* none twice; no event is paired with a status older than the event itself,
\* so that a terminal event never comes with a running status; the cursor of
\* the last frame, if the client reconnects with it, skips no event of the task
\* that was not delivered; and a stream that ends as finished, rather than
\* quiet or broken, has told the client the terminal state.
StreamFaithful ==
    /\ DeliveredInOrder
    /\ StatusCurrent
    /\ server = "finished" =>
         frames # <<>> /\ frames[Len(frames)].status.state \in Terminal

----------------------------------------------------------------------------
(* The inductive invariant behind StreamFaithful                            *)

States == {"running", "verifying"} \cup Terminal
Rows == [state : States, revision : Nat]
Events == [of : {"task", "other"}, to : States \cup {None}, revision : Nat]
Servers == {"closed", "load", "scan", "refresh", "deliver", "sleep", "finished", "quiet", "broken"}

\* What the proofs assume of the constants.
StreamConstants == ScanLimit \in Nat /\ MaxEvents \in Nat /\ None \notin Nat \cup States

\* Rows, events, records and frames are well formed.
TypeOK ==
    /\ log \in Seq(Events) /\ row \in Rows
    /\ client \in {"idle", "attached", "reading", "returned", "failed"}
    /\ request \in Nat \cup {None} /\ server \in Servers
    /\ cursor \in Nat /\ status \in Rows
    /\ records \in Seq([sequence : Nat, event : Events])
    /\ sent \in BOOLEAN /\ idle \in BOOLEAN
    /\ frames \in Seq([status : Rows, event : Nat, cursor : Nat])

\* The log never runs ahead of the row, and a terminal row is the last.
LogHeld ==
    \A i \in DOMAIN log : log[i].of = "task" =>
        /\ log[i].revision <= row.revision
        /\ log[i].to \in Terminal => row.state \in Terminal /\ log[i].revision = row.revision

\* A status that was read is the row of its revision.
StatusHeld ==
    /\ status.revision <= row.revision
    /\ status.revision = row.revision => status = row
    /\ \A i \in DOMAIN frames : frames[i].status.revision <= status.revision

\* Before the stream opens nothing is read; the cursor stays within the log.
CursorHeld ==
    /\ client \in {"idle", "attached"} =>
         server = "closed" /\ records = <<>> /\ frames = <<>> /\ cursor = 0
    /\ request # None => request <= Len(log)
    /\ request # None /\ client \notin {"idle", "attached"} => request <= cursor
    /\ cursor <= Len(log)
    /\ \A i \in DOMAIN frames : frames[i].event <= cursor

\* The records continue the log behind the cursor, and once the status was
\* refreshed none is newer than it.
RecordsHeld ==
    /\ cursor + Len(records) <= Len(log)
    /\ \A k \in DOMAIN records :
         records[k].sequence = cursor + k /\ records[k].event = log[cursor + k]
    /\ server = "deliver" => \A k \in DOMAIN records :
         records[k].event.of = "task" => records[k].event.revision <= status.revision

IInv == TypeOK /\ LogHeld /\ StatusHeld /\ CursorHeld /\ RecordsHeld /\ StreamFaithful

=============================================================================

---------------------------- MODULE ProviderTurn ----------------------------
(***************************************************************************)
(* One read-only turn of a provider: the planner that proposes a task      *)
(* graph (task_planner.rs) and the conversation (conversation_             *)
(* orchestrator.rs) start a worker, collect what it says (worker_          *)
(* messages.rs), wait for it to end and accept its output only as exactly  *)
(* one JSON object (engine planner.rs and conversation.rs).                *)
(*                                                                         *)
(* Text is a sequence of pieces: "p" is prose, "o1" and "o2" are the two   *)
(* halves of the object that is asked for, "f" is a fence or an array and  *)
(* "v" a JSON scalar.  Only <<o1, o2>> parses as an object, and "o2" alone *)
(* reads as prose.  The process behind the worker is WorkerRun's subject.  *)
(***************************************************************************)
EXTENDS Naturals, Sequences, SequencesExt, FiniteSetsExt

CONSTANTS
    Providers,   \* the configured providers
    Priority,    \* Priority[p]: a number; ties are broken by the order of ids
    Enabled,     \* the providers that are enabled in the configuration
    ReadOnly,    \* ReadOnly[p]: "verified", "advertised" or "unknown"
    Eligible,    \* the providers the policy of the request admits
    EventLimit,  \* MAX_PROVIDER_EVENTS
    ByteLimit,   \* max_output_bytes, counted in pieces
    None

VARIABLES
    turn,   \* the invocation: kind, phase, provider, flags and result
    text,   \* what was collected: messages, pending delta, counters
    worker, \* the provider process: "none", "running", "cancelling", "ended"
    said    \* history: every piece the provider sent, in order

vars == <<turn, text, worker, said>>

Pieces == {"p", "o1", "o2", "f", "v"}
Object == <<"o1", "o2">>

Init ==
    /\ turn \in [kind : {"plan", "conversation"}, phase : {"select"},
                 provider : {None}, guarded : {FALSE}, completed : {FALSE},
                 quota : {FALSE}, error : {FALSE}, result : {None}]
    /\ text = [messages |-> <<>>, pending |-> <<>>, bytes |-> 0, events |-> 0]
    /\ worker = "none"
    /\ said = <<>>

End(result) == turn' = [turn EXCEPT !.phase = "done", !.result = result]

------------------------------------------------------------------------------
(* Selection and start. *)

\* capability_is_safe, and only providers that are configured and enabled.
Usable(p) == ReadOnly[p] \in {"verified", "advertised"}
Capabilities == {p \in Providers : p \in Enabled /\ Usable(p)}

\* The highest priority, and of those the greatest provider.
Best(candidates) ==
    CHOOSE p \in candidates : \A q \in candidates : Priority[p] >= Priority[q]

\* The planner chooses; a conversation names its provider.
SelectProvider ==
    /\ turn.phase = "select"
    /\ IF turn.kind = "plan"
       THEN LET candidates == Capabilities \intersect Eligible
            IN  IF candidates = {} THEN End("invocation")
                ELSE turn' = [turn EXCEPT !.phase = "start",
                                          !.provider = Best(candidates)]
       ELSE \E p \in Providers :
               IF p \in Capabilities
               THEN turn' = [turn EXCEPT !.phase = "start", !.provider = p]
               ELSE End("invocation")
    /\ UNCHANGED <<text, worker, said>>

\* From here on the guard cancels the worker if the turn is dropped.
StartWorker ==
    /\ turn.phase = "start"
    /\ \/ /\ worker' = "running"
          /\ turn' = [turn EXCEPT !.phase = "stream", !.guarded = TRUE]
       \/ /\ End("invocation")
          /\ UNCHANGED worker
    /\ UNCHANGED <<text, said>>

------------------------------------------------------------------------------
(* WorkerMessageCollector. *)

FlushDelta(t) ==
    IF t.pending = <<>> THEN t
    ELSE [t EXCEPT !.messages = Append(@, [text |-> t.pending, streamed |-> TRUE]),
                   !.pending = <<>>]

DiscardPending(t) == [t EXCEPT !.pending = <<>>]

DiscardStreamed(t) ==
    [t EXCEPT !.pending = <<>>,
              !.messages = SelectSeq(@, LAMBDA m : ~m.streamed)]

Seen(t) == [t EXCEPT !.events = @ + 1]
Fits(t, chunk) == t.bytes + Len(chunk) <= ByteLimit
Reserved(t, chunk) == [t EXCEPT !.bytes = @ + Len(chunk)]


\* What an event that is within the limits leaves behind.
Observed(t, event) ==
    CASE event.type = "message" ->
            [FlushDelta(Reserved(t, event.text)) EXCEPT
                !.messages = Append(@, [text |-> event.text, streamed |-> FALSE])]
      [] event.type = "delta" ->
            [Reserved(t, event.text) EXCEPT !.pending = @ \o event.text]
      [] event.type \in {"error", "quota"} -> DiscardPending(t)
      [] event.type = "neutral" -> t
      [] OTHER -> FlushDelta(t)

WithinLimits(t, event) == t.events < EventLimit /\ Fits(t, event.text)

------------------------------------------------------------------------------
(* The stream. *)

\* "neutral" stands for started, usage and unknown events that do not affect
\* the lifecycle, "error" also for the unknown ones that do, "boundary" for
\* the rest.  Nothing is said after the completion.
Events ==
    [type : {"message"}, text : {<<"p">>, Object, <<"f">>}]
        \union [type : {"delta"}, text : {<<piece>> : piece \in Pieces}]
        \union [type : {"neutral", "error", "quota", "completed",
                        "file_changed", "command", "boundary"}, text : {<<>>}]

CommandAllowed == ReadOnly[turn.provider] \in {"verified", "advertised"}

\* The first failure of the protocol is kept; the stream goes on.
Failing(event) ==
    \/ event.type \in {"error", "file_changed"}
    \/ event.type = "command" /\ ~CommandAllowed

ReadEvent(event) ==
    /\ turn.phase = "stream"
    /\ worker = "running"
    /\ turn.completed => event.text = <<>>
    /\ IF WithinLimits(text, event)
       THEN /\ text' = Observed(Seen(text), event)
            /\ turn' = [turn EXCEPT
                  !.completed = @ \/ event.type = "completed",
                  !.quota = @ \/ event.type = "quota",
                  !.error = @ \/ Failing(event)]
            /\ UNCHANGED worker
       ELSE /\ text' = DiscardPending(Seen(text))
            /\ turn' = [turn EXCEPT !.error = TRUE, !.phase = "wait"]
            /\ worker' = "cancelling"
    /\ said' = said \o event.text

\* A frame the adapter cannot parse: what was streamed is dropped.
ReadGarbage ==
    /\ turn.phase = "stream"
    /\ worker = "running"
    /\ text' = DiscardStreamed(text)
    /\ turn' = [turn EXCEPT !.error = TRUE, !.phase = "wait"]
    /\ worker' = "cancelling"
    /\ said' = Append(said, "f")

StreamEnds ==
    /\ turn.phase = "stream"
    /\ turn' = [turn EXCEPT !.phase = "wait"]
    /\ UNCHANGED <<text, worker, said>>

\* Drop of the guard: unless it is disarmed, the worker is cancelled.
Dropped == IF turn.guarded /\ worker = "running" THEN "cancelling" ELSE worker

\* next_event or wait fails, or the daemon drops the turn.
Interrupted ==
    /\ turn.phase \in {"stream", "wait"}
    /\ End("invocation")
    /\ worker' = Dropped
    /\ UNCHANGED <<text, said>>

------------------------------------------------------------------------------
(* The end of the worker and the response. *)

Endings == [termination : {"exited", "timed_out", "cancelled"}, success : BOOLEAN,
            truncated : BOOLEAN, treeError : BOOLEAN]

PlannerExit(t, o) ==
    IF t.quota THEN "quota"
    ELSE IF o.termination # "exited" THEN o.termination
    ELSE IF o.success /\ t.completed /\ ~t.error THEN "succeeded" ELSE "crashed"

ConversationExit(t, o) ==
    IF t.quota THEN "quota"
    ELSE IF o.termination = "timed_out" THEN "timed_out"
    ELSE IF o.termination = "cancelled"
         THEN IF t.error THEN "crashed" ELSE "cancelled"
    ELSE IF o.success /\ t.completed /\ ~t.error THEN "succeeded" ELSE "crashed"

Joined(messages) == FoldLeft(LAMBDA all, m : all \o m.text, <<>>, messages)

\* terminal_conversation_output: the last message from which the output is an
\* object to its end, unless what precedes it looks structured as well.
StartsObject(messages, i) ==
    /\ Head(messages[i].text) = "o1"
    /\ Joined(SubSeq(messages, i, Len(messages))) = Object
ContainsContainer(prefix) == \E i \in 1..Len(prefix) : prefix[i] \in {"o1", "f"}
ContainsScalar(prefix) == \E i \in 1..Len(prefix) : prefix[i] = "v"
IsStructuredAttempt(prefix) == ContainsContainer(prefix) \/ ContainsScalar(prefix)

TerminalOutput(messages) ==
    LET starts == {i \in 1..Len(messages) : StartsObject(messages, i)} IN
    IF starts = {} THEN Joined(messages)
    ELSE LET prefix == Joined(SubSeq(messages, 1, Max(starts) - 1))
         IN  IF IsStructuredAttempt(prefix) THEN Joined(messages) ELSE Object

OutputOf(messages) ==
    IF turn.kind = "plan" THEN Joined(messages) ELSE TerminalOutput(messages)

\* collect_conversation_response: the identity of the response is the
\* request's by construction; the object may still be one that fails
\* validation.
CollectConversation(exit, output) ==
    IF exit = "quota" THEN {"quota"}
    ELSE IF exit # "succeeded" THEN {"lifecycle"}
    ELSE IF output # Object THEN {"malformed"}
    ELSE {"accepted", "invalid"}

\* collect_planner_response: the proposal carries its identity as well, and
\* must be the one that was asked for.
CollectPlan(exit, output) ==
    IF exit = "succeeded" /\ output = Object
    THEN {"accepted", "identity", "invalid"}
    ELSE CollectConversation(exit, output)

Collected(exit, output) ==
    IF turn.kind = "plan" THEN CollectPlan(exit, output)
    ELSE CollectConversation(exit, output)

WaitWorker(o) ==
    /\ turn.phase = "wait"
    /\ worker = "cancelling" => o.termination # "timed_out"
    /\ worker = "running" => o.termination # "cancelled"
    /\ LET t == [turn EXCEPT !.guarded = FALSE,
                             !.error = @ \/ o.truncated \/ o.treeError]
           kept == IF o.truncated THEN DiscardStreamed(text) ELSE text
           exit == IF turn.kind = "plan" THEN PlannerExit(t, o)
                   ELSE ConversationExit(t, o)
       IN /\ text' = kept
          /\ \E result \in Collected(exit, OutputOf(kept.messages)) :
                turn' = [t EXCEPT !.phase = "done", !.result = result]
    /\ worker' = "ended"
    /\ UNCHANGED said

\* The cancelled process tree ends.
WorkerEnds ==
    /\ worker = "cancelling"
    /\ turn.phase = "done"
    /\ worker' = "ended"
    /\ UNCHANGED <<turn, text, said>>

Next ==
    \/ SelectProvider \/ StartWorker
    \/ \E event \in Events : ReadEvent(event)
    \/ ReadGarbage \/ StreamEnds \/ Interrupted
    \/ \E o \in Endings : WaitWorker(o)
    \/ WorkerEnds

Spec == Init /\ [][Next]_vars

------------------------------------------------------------------------------
\* An accepted turn is all that the provider said: exactly one object, which
\* for a conversation may follow prose and nothing else; no chunk, garbled
\* frame or truncated output between them was lost on the way
\* (worker_messages.rs, observe; conversation_orchestrator.rs,
\* terminal_conversation_output).
AcceptedIsWhole ==
    turn.result = "accepted" =>
        /\ turn.completed /\ ~turn.error /\ ~turn.quota
        /\ Len(said) >= 2
        /\ SubSeq(said, Len(said) - 1, Len(said)) = Object
        /\ \A i \in 1..(Len(said) - 2) :
              turn.kind = "conversation" /\ said[i] \in {"p", "o2"}

\* A turn that is over leaves no provider process behind that nobody waits for
\* or has cancelled, on whichever path it ended (task_planner.rs,
\* ActivePlannerGuard; conversation_orchestrator.rs, ActiveConversationGuard).
WorkerNotAbandoned == turn.phase = "done" => worker # "running"
=============================================================================

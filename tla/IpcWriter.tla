---------------------------- MODULE IpcWriter ----------------------------
(* The state writer of the daemon's IPC server.  Connections hand their     *)
(* write requests to one writer thread through a bounded data channel; a    *)
(* stop has a control channel of its own.  The writer admits requests in    *)
(* the order it receives them and applies them in that order, but a         *)
(* registration or an evidence lookup first needs a preparation, which runs *)
(* on a blocking thread: one per workspace at a time, at most MaxJobs in    *)
(* all, shared by registrations that mean the same.                         *)
EXTENDS Integers, Sequences, FiniteSetsExt, SequencesExt

CONSTANTS
    Requests,       \* the write requests of the clients
    Action,         \* [Requests -> {"register", "lookup", "ordinary", "stop"}]
    Workspace,      \* [Requests -> the repository a request names]
    Semantics,      \* [Requests -> source and explicit configuration]
    IngressCap,     \* WRITER_INGRESS_CAPACITY (64)
    MaxPending,     \* MAX_PENDING_WRITER_ADMISSIONS (64)
    MaxJobs         \* MAX_BLOCKING_LEGACY_PREPARATIONS (4)

Empty == "none"
NoGen == 0         \* the generations are numbered from one

VARIABLES
    conn,       \* the connection of a request: idle, sending, waiting, or
                \* closed: it was answered, or it is gone
    data,       \* the data channel
    control,    \* the control channel, of capacity one
    claimed,    \* stop_claimed
    loop,       \* the writer loop: its stage, what is open, the pending stop
    admissions, \* SequencedWriterAdmission, first admitted first
    lanes,      \* the preparation lane of each workspace that has one
    gens,       \* the generations that are not forgotten
    nextGen,
    ready,      \* ready_generations: active in their lane, waiting for a job
    jobs,       \* the JoinSet: generation -> running or its result
    serving,    \* the accept loop runs
    nextSeq,    \* next_admission_sequence
    drained,    \* last_drained_sequence, and whether it was the next one
    stopSeq,    \* history: the sequence of the stop, 0 before it is admitted
    commits     \* history: how often each generation was committed

vars == <<conn, data, control, claimed, loop, admissions, lanes, gens, nextGen,
          ready, jobs, serving, nextSeq, drained, stopSeq, commits>>

clientVars == <<conn, data, control, claimed, serving>>
schedVars == <<admissions, lanes, gens, nextGen, ready, jobs>>
histVars == <<nextSeq, drained, stopSeq, commits>>

Workspaces == {Workspace[r] : r \in Requests}

Init ==
    /\ conn = [r \in Requests |-> "idle"]
    /\ data = <<>> /\ control = <<>> /\ claimed = FALSE
    /\ loop = [stage |-> "poll", open |-> TRUE, controlOpen |-> TRUE,
               stopping |-> FALSE, pendingStop |-> Empty]
    /\ admissions = <<>> /\ lanes = <<>> /\ gens = <<>> /\ nextGen = 1
    /\ ready = <<>> /\ jobs = <<>>
    /\ serving = TRUE
    /\ nextSeq = 1 /\ drained = [last |-> 0, inOrder |-> TRUE] /\ stopSeq = 0
    /\ commits = <<>>

(* Functions that lose or gain an element.                                  *)
Without(f, x) == [y \in DOMAIN f \ {x} |-> f[y]]
With(f, x, v) == [y \in DOMAIN f \cup {x} |-> IF y = x THEN v ELSE f[y]]
Counted(f, x) == With(f, x, IF x \in DOMAIN f THEN f[x] + 1 ELSE 1)

----------------------------------------------------------------------------
(* Connections: dispatch_request and WriterIngress::send.                   *)

(* A request is sent; a second stop is refused at once.                     *)
Submit(r) ==
    /\ serving /\ conn[r] = "idle"
    /\ conn' = [conn EXCEPT ![r] = IF Action[r] = "stop" /\ claimed
                                  THEN "closed" ELSE "sending"]
    /\ claimed' = (claimed \/ Action[r] = "stop")
    /\ UNCHANGED <<data, control, loop, schedVars, serving, histVars>>

(* The send waits for room in the channel and fails once it is closed.      *)
Enqueue(r) ==
    /\ conn[r] = "sending"
    /\ LET stop == Action[r] = "stop"
           open == IF stop THEN loop.controlOpen ELSE loop.open
       IN  /\ open => IF stop THEN control = <<>> ELSE Len(data) < IngressCap
           /\ control' = IF open /\ stop THEN <<r>> ELSE control
           /\ data' = IF open /\ ~stop THEN Append(data, r) ELSE data
           /\ conn' = [conn EXCEPT ![r] = IF open THEN "waiting" ELSE "closed"]
    /\ UNCHANGED <<claimed, loop, schedVars, serving, histVars>>

(* serve: the accept loop ends and aborts its connections, which drops      *)
(* every sender; what is already in the channels stays there.               *)
EndServing ==
    /\ serving
    /\ serving' = FALSE
    /\ conn' = [r \in Requests |-> IF conn[r] = "idle" THEN "idle" ELSE "closed"]
    /\ UNCHANGED <<data, control, claimed, loop, schedVars, histVars>>

----------------------------------------------------------------------------
(* WriterScheduler.  Its operators take and return the scheduler's state,   *)
(* so that one step of the writer can chain them.                           *)
Sched == [admissions |-> admissions, lanes |-> lanes, gens |-> gens,
          nextGen |-> nextGen, ready |-> ready, jobs |-> jobs]

SetSched(s) ==
    /\ admissions' = s.admissions /\ lanes' = s.lanes /\ gens' = s.gens
    /\ nextGen' = s.nextGen /\ ready' = s.ready /\ jobs' = s.jobs

HasCapacity(s) == Len(s.admissions) < MaxPending

PushAdmission(s, r, kind, gen) ==
    [s EXCEPT !.admissions = Append(@, [req |-> r, kind |-> kind, gen |-> gen,
                                        seq |-> nextSeq])]

IsActive(s, g) ==
    /\ g \in DOMAIN s.gens
    /\ s.gens[g].ws \in DOMAIN s.lanes
    /\ s.lanes[s.gens[g].ws].active = g

(* start_available_generations: while there is room for a job the first     *)
(* generation is taken from the queue, and started if it is still active in *)
(* its lane.                                                                *)
Room(s) == IF Cardinality(DOMAIN s.jobs) < MaxJobs
           THEN MaxJobs - Cardinality(DOMAIN s.jobs) ELSE 0

ActiveAmong(s, n) == {s.ready[i] : i \in {j \in 1 .. n : IsActive(s, s.ready[j])}}

TakenReady(s) ==
    Min({n \in 0 .. Len(s.ready) :
            n = Len(s.ready) \/ Cardinality(ActiveAmong(s, n)) >= Room(s)})

StartAvailable(s) ==
    LET n == TakenReady(s)
        started == ActiveAmong(s, n)
    IN  [s EXCEPT
           !.ready = SubSeq(@, n + 1, Len(@)),
           !.gens = [g \in DOMAIN @ |->
                       IF g \in started THEN [@[g] EXCEPT !.state = "running"] ELSE @[g]],
           !.jobs = [g \in DOMAIN @ \cup started |->
                       IF g \in started THEN "running" ELSE @[g]]]

(* create_generation: the first of a lane is active, the others wait.       *)
CreateGeneration(s, ws, sem) ==
    LET g == s.nextGen
        made == [s EXCEPT
           !.nextGen = g + 1,
           !.gens = With(@, g, [ws |-> ws, sem |-> sem, remaining |-> 0,
                                state |-> "queued"])]
    IN  IF ws \notin DOMAIN s.lanes
        THEN StartAvailable([made EXCEPT
                !.lanes = With(@, ws, [active |-> g, queued |-> <<>>]),
                !.ready = Append(@, g)])
        ELSE [made EXCEPT !.lanes[ws].queued = Append(@, g)]

(* join_or_create_generation: only the newest generation of the lane can be *)
(* joined, and only by a registration with the same semantics.              *)
Newest(lane) == IF lane.queued = <<>> THEN lane.active ELSE Last(lane.queued)

Joinable(s, ws, sem) ==
    /\ ws \in DOMAIN s.lanes
    /\ Newest(s.lanes[ws]) \in DOMAIN s.gens
    /\ s.gens[Newest(s.lanes[ws])].sem = sem

AdmitRegistration(s, r) ==
    LET ws == Workspace[r]
        joined == Joinable(s, ws, Semantics[r])
        g == IF joined THEN Newest(s.lanes[ws]) ELSE s.nextGen
        t == IF joined THEN s ELSE CreateGeneration(s, ws, Semantics[r])
    IN  PushAdmission([t EXCEPT !.gens[g].remaining = @ + 1], r, "registration", g)

AdmitEvidence(s, r) ==
    LET g == s.nextGen
        t == CreateGeneration(s, Workspace[r], Empty)
    IN  PushAdmission([t EXCEPT !.gens[g].remaining = 1], r, "evidence", g)

(* admit: how the request resolves is the database's answer: it is refused, *)
(* or a lookup of an unregistered repository needs no preparation.          *)
Admitted(s, r) ==
    CASE Action[r] = "register" ->
           {PushAdmission(s, r, "immediate", NoGen), AdmitRegistration(s, r)}
      [] Action[r] = "lookup" ->
           {PushAdmission(s, r, "immediate", NoGen), PushAdmission(s, r, "ordinary", NoGen),
            AdmitEvidence(s, r)}
      [] OTHER -> {PushAdmission(s, r, "ordinary", NoGen)}

\* A lane handed on without making its next generation ready.
AdvanceLaneUnready(s, g) ==
    LET ws == s.gens[g].ws
        lane == s.lanes[ws]
    IN  IF ~IsActive(s, g) THEN s
        ELSE IF lane.queued = <<>> THEN [s EXCEPT !.lanes = Without(@, ws)]
        ELSE StartAvailable([s EXCEPT
                !.lanes[ws] = [active |-> Head(lane.queued), queued |-> Tail(lane.queued)]])

(* advance_lane: the next generation of the lane becomes active.            *)
AdvanceLane(s, g) ==
    LET ws == s.gens[g].ws
        lane == s.lanes[ws]
    IN  IF ~IsActive(s, g) THEN s
        ELSE IF lane.queued = <<>> THEN [s EXCEPT !.lanes = Without(@, ws)]
        ELSE StartAvailable([s EXCEPT
                !.lanes[ws] = [active |-> Head(lane.queued), queued |-> Tail(lane.queued)],
                !.ready = Append(@, Head(lane.queued))])

(* complete_generation: the job leaves the set and another may start.       *)
CompleteGeneration(s, g) ==
    StartAvailable([s EXCEPT !.gens[g].state = s.jobs[g], !.jobs = Without(@, g)])

Settled == {"prepared", "refused", "committed", "failed"}

HeadReady(s) ==
    /\ s.admissions # <<>>
    /\ LET a == Head(s.admissions)
       IN  a.gen = NoGen \/ (a.gen # NoGen /\ s.gens[a.gen].state \in Settled)

IsIdle(s) == s.admissions = <<>> /\ s.ready = <<>> /\ DOMAIN s.jobs = {}

(* The outcome of a generation is decided by the first request that finds   *)
(* it prepared and is kept for those that joined it.                        *)
FinalState(state, result) ==
    CASE state = "prepared" -> result
      [] state = "refused" -> "failed"
      [] OTHER -> state

(* finish_registration and finish_evidence: commit, advance the lane,       *)
(* publish the activation, answer, and forget a generation nobody waits for.*)
Finished(s, a, result) ==
    LET g == a.gen
        final == [s EXCEPT !.gens[g].state = FinalState(@, result)]
        next == AdvanceLane(final, g)
        left == next.gens[g].remaining - 1
    IN  IF left = 0 THEN [next EXCEPT !.gens = Without(@, g)]
        ELSE [next EXCEPT !.gens[g].remaining = left]

----------------------------------------------------------------------------
(* writer_loop_with_channels.  An iteration polls the control channel, then *)
(* admits a pending stop, then drains the head or waits in a biased select. *)

\* A stop that leaves the channels open.
BeginWriterStopOpen(r) ==
    /\ loop' = [loop EXCEPT !.stage = "act", !.pendingStop = r]
    /\ control' = <<>>
    /\ UNCHANGED <<data, conn>>

(* begin_writer_stop: both channels are closed and what they hold is        *)
(* refused.                                                                 *)
BeginWriterStop(r) ==
    /\ loop' = [stage |-> "act", open |-> FALSE, controlOpen |-> FALSE,
                stopping |-> TRUE, pendingStop |-> r]
    /\ data' = <<>> /\ control' = <<>>
    /\ conn' = [q \in Requests |-> IF q \in ToSet(data) THEN "closed" ELSE conn[q]]

WriterUnchanged == UNCHANGED <<claimed, serving>>

(* try_recv at the top of an iteration.                                     *)
PollControl ==
    /\ loop.stage = "poll"
    /\ WriterUnchanged /\ UNCHANGED <<schedVars, histVars>>
    /\ IF ~loop.stopping /\ control # <<>>
       THEN BeginWriterStop(Head(control))
       ELSE /\ loop' = [loop EXCEPT !.stage = "act",
                          !.controlOpen = @ /\ serving]
            /\ UNCHANGED <<data, control, conn>>

AdmitStop ==
    /\ loop.stage = "act"
    /\ loop.pendingStop # Empty
    /\ HasCapacity(Sched)
    /\ \E s \in Admitted(Sched, loop.pendingStop) : SetSched(s)
    /\ nextSeq' = nextSeq + 1 /\ stopSeq' = nextSeq
    /\ loop' = [loop EXCEPT !.pendingStop = Empty]
    /\ UNCHANGED <<clientVars, drained, commits>>

NoStopToAdmit == loop.pendingStop = Empty \/ ~HasCapacity(Sched)

(* drain_one: the head takes effect and is answered.  Committing a          *)
(* preparation may fail; what the answer says is not told apart here.       *)
DrainOne(commitOk) ==
    /\ loop.stage = "act" /\ NoStopToAdmit
    /\ HeadReady(Sched)
    /\ LET a == Head(admissions)
           rest == [Sched EXCEPT !.admissions = Tail(@)]
       IN  /\ commitOk \/ (a.kind = "registration" /\ gens[a.gen].state = "prepared")
           /\ SetSched(IF a.gen = NoGen THEN rest
                       ELSE Finished(rest, a, IF commitOk THEN "committed" ELSE "failed"))
           /\ commits' = IF a.kind = "registration" /\ commitOk /\ gens[a.gen].state = "prepared"
                         THEN Counted(commits, a.gen) ELSE commits
           /\ drained' = [last |-> a.seq, inOrder |-> drained.inOrder
                                                     /\ a.seq = drained.last + 1]
           /\ conn' = [conn EXCEPT ![a.req] = "closed"]
    /\ loop' = [loop EXCEPT !.stage = "poll"]
    /\ UNCHANGED <<data, control, claimed, serving, nextSeq, stopSeq>>

Waits == loop.stage = "act" /\ NoStopToAdmit /\ ~HeadReady(Sched)

LoopEnds ==
    /\ Waits
    /\ ~loop.open /\ ~loop.controlOpen /\ loop.pendingStop = Empty /\ IsIdle(Sched)
    /\ loop' = [loop EXCEPT !.stage = "ended"]
    /\ UNCHANGED <<clientVars, schedVars, histVars>>

(* The branches of the select, in its order.                                *)
SelectControl ==
    /\ Waits
    /\ loop.controlOpen /\ ~loop.stopping
    /\ WriterUnchanged /\ UNCHANGED <<schedVars, histVars>>
    /\ \/ /\ control # <<>>
          /\ BeginWriterStop(Head(control))
       \/ /\ control = <<>> /\ ~serving
          /\ loop' = [loop EXCEPT !.controlOpen = FALSE, !.stage = "poll"]
          /\ UNCHANGED <<data, control, conn>>

ControlPending == ~(loop.controlOpen /\ ~loop.stopping /\ (control # <<>> \/ ~serving))

DataEnabled == loop.open /\ HasCapacity(Sched) /\ ~loop.stopping

SelectData ==
    /\ Waits /\ ControlPending
    /\ DataEnabled
    /\ WriterUnchanged /\ UNCHANGED <<control, conn, drained, stopSeq, commits>>
    /\ \/ /\ data # <<>>
          /\ \E s \in Admitted(Sched, Head(data)) : SetSched(s)
          /\ nextSeq' = nextSeq + 1
          /\ data' = Tail(data)
          /\ loop' = [loop EXCEPT !.stage = "poll"]
       \/ /\ data = <<>> /\ ~serving
          /\ loop' = [loop EXCEPT !.open = FALSE, !.stage = "poll"]
          /\ UNCHANGED <<data, schedVars, nextSeq>>

DataPending == ~(DataEnabled /\ (data # <<>> \/ ~serving))

SelectJob(g) ==
    /\ Waits /\ ControlPending /\ DataPending
    /\ g \in DOMAIN jobs /\ jobs[g] # "running"
    /\ SetSched(CompleteGeneration(Sched, g))
    /\ loop' = [loop EXCEPT !.stage = "poll"]
    /\ UNCHANGED <<clientVars, histVars>>

(* A preparation ends on its blocking thread.                               *)
JobEnds(g, result) ==
    /\ g \in DOMAIN jobs /\ jobs[g] = "running"
    /\ jobs' = [jobs EXCEPT ![g] = result]
    /\ UNCHANGED <<clientVars, loop, admissions, lanes, gens, nextGen, ready,
                   histVars>>

Ended == loop.stage = "ended" /\ UNCHANGED vars

Connections == (\E r \in Requests : Submit(r) \/ Enqueue(r)) \/ EndServing

Writer ==
    \/ PollControl \/ AdmitStop \/ LoopEnds
    \/ \E commitOk \in BOOLEAN : DrainOne(commitOk)
    \/ SelectControl \/ SelectData
    \/ \E g \in DOMAIN jobs : SelectJob(g)

Jobs == \E g \in DOMAIN jobs, result \in {"prepared", "refused"} : JobEnds(g, result)

Next == Connections \/ Writer \/ Jobs \/ Ended

Spec == Init /\ [][Next]_vars

(* The writer thread and the connections are scheduled, and a preparation,  *)
(* which only reads files and a database copy, ends.                        *)
Fairness ==
    /\ WF_vars(Writer) /\ WF_vars(Jobs)
    /\ \A r \in Requests : WF_vars(Enqueue(r))

FairSpec == Spec /\ Fairness

----------------------------------------------------------------------------
(* Requests take effect in the order the writer received them, although     *)
(* preparations end in any order, and a stop takes effect last: everything  *)
(* received before it is applied and nothing is received after it.          *)
AppliedInOrder ==
    /\ drained.inOrder
    /\ stopSeq # 0 => nextSeq = stopSeq + 1

(* Two preparations of one workspace never run at the same time, and no     *)
(* more than MaxJobs at all: a lane is handed on only once its generation   *)
(* is settled, whatever joins, refusals and lane removals happen meanwhile. *)
OneJobPerWorkspace ==
    /\ Cardinality(DOMAIN jobs) <= MaxJobs
    /\ \A g, h \in DOMAIN jobs : g # h => gens[g].ws # gens[h].ws

(* A preparation is committed once however many registrations joined it,    *)
(* and none of them is told of a success without that commit.               *)
CommittedOnce ==
    /\ \A g \in DOMAIN commits : commits[g] <= 1
    /\ \A i \in DOMAIN admissions :
           (admissions[i].kind = "registration" /\ gens[admissions[i].gen].state = "committed")
               => admissions[i].gen \in DOMAIN commits

(* Every request a connection sends is answered or its connection is gone:  *)
(* no admission waits behind a preparation that waits for its lane, a full  *)
(* channel does not hold a stop back, and a stop leaves nobody waiting.     *)
EveryRequestAnswered ==
    <>[](\A r \in Requests : conn[r] \in {"idle", "closed"})

----------------------------------------------------------------------------
(* What a registration asks for is never what a lookup is recorded with,    *)
(* and the channels and the set of jobs have a capacity.                    *)
WriterConstants ==
    /\ \A r \in Requests : Semantics[r] # Empty
    /\ MaxJobs \in Nat

(* The scheduler of a state: what it holds, and how its parts depend on     *)
(* each other.                                                              *)
Kinds == {"immediate", "ordinary", "registration", "evidence"}
AdmissionRecord == [req : Requests, kind : Kinds, gen : Nat, seq : Nat]
GenStates == {"queued", "running"} \cup Settled

SchedTyped(s) ==
    /\ s = [admissions |-> s.admissions, lanes |-> s.lanes, gens |-> s.gens,
             nextGen |-> s.nextGen, ready |-> s.ready, jobs |-> s.jobs]
    /\ s.admissions \in Seq(AdmissionRecord)
    /\ s.nextGen \in Nat \ {0}
    /\ s.gens = [g \in DOMAIN s.gens |-> s.gens[g]]
    /\ \A g \in DOMAIN s.gens :
          /\ g \in 1 .. s.nextGen - 1
          /\ s.gens[g] = [ws |-> s.gens[g].ws, sem |-> s.gens[g].sem,
                          remaining |-> s.gens[g].remaining, state |-> s.gens[g].state]
          /\ s.gens[g].remaining \in Nat /\ s.gens[g].state \in GenStates
    /\ s.ready \in Seq(Nat)
    /\ s.lanes = [w \in DOMAIN s.lanes |-> s.lanes[w]]
    /\ s.jobs = [g \in DOMAIN s.jobs |-> s.jobs[g]]
    /\ \A g \in DOMAIN s.jobs : s.jobs[g] \in {"running", "prepared", "refused"}

(* A lane is active with one generation, and those behind it are queued,    *)
(* each once.                                                               *)
LanesHeld(s) ==
    \A w \in DOMAIN s.lanes :
        LET q == s.lanes[w].queued
        IN  /\ s.lanes[w] = [active |-> s.lanes[w].active, queued |-> q]
            /\ s.lanes[w].active \in 1 .. s.nextGen - 1
            /\ q \in Seq(Nat)
            /\ \A i \in 1 .. Len(q) :
                  /\ q[i] \in DOMAIN s.gens
                  /\ s.gens[q[i]].ws = w /\ s.gens[q[i]].state = "queued"
                  /\ q[i] # s.lanes[w].active
            /\ \A i, j \in 1 .. Len(q) : q[i] = q[j] => i = j

(* What is ready has not started and is active in its lane; so is what runs.*)
ReadyHeld(s) ==
    /\ \A i \in 1 .. Len(s.ready) : IsActive(s, s.ready[i]) /\ s.gens[s.ready[i]].state = "queued"
    /\ \A i, j \in 1 .. Len(s.ready) : s.ready[i] = s.ready[j] => i = j

JobsHeld(s) ==
    /\ \A g \in DOMAIN s.jobs : IsActive(s, g) /\ s.gens[g].state = "running"
    /\ IsFiniteSet(DOMAIN s.jobs) /\ Cardinality(DOMAIN s.jobs) <= MaxJobs

(* The admissions of a generation, which counts them: it is forgotten with  *)
(* the last of them.                                                        *)
Awaiting(s, g) == {s.admissions[i].seq : i \in {j \in 1 .. Len(s.admissions) :
                                                  s.admissions[j].gen = g}}

AdmissionsHeld(s) ==
    /\ \A i \in 1 .. Len(s.admissions) :
          LET a == s.admissions[i]
          IN  /\ a.kind \in {"immediate", "ordinary"} => a.gen = NoGen
              /\ a.kind \in {"registration", "evidence"} => a.gen \in DOMAIN s.gens
              /\ a.kind = "registration" => s.gens[a.gen].sem # Empty
              /\ a.kind = "evidence" => s.gens[a.gen].sem = Empty
    /\ \A g \in DOMAIN s.gens :
          /\ IsFiniteSet(Awaiting(s, g))
          /\ s.gens[g].remaining = Cardinality(Awaiting(s, g))

SchedHeld(s) ==
    SchedTyped(s) /\ LanesHeld(s) /\ ReadyHeld(s) /\ JobsHeld(s) /\ AdmissionsHeld(s)

(* A generation is committed when its commit was made.                      *)
CommitsHeld(s, c) ==
    /\ \A g \in DOMAIN c :
          /\ c[g] = 1 /\ g \in 1 .. s.nextGen - 1
          /\ g \in DOMAIN s.gens => s.gens[g].state = "committed"
    /\ \A g \in DOMAIN s.gens :
          (s.gens[g].state = "committed" /\ s.gens[g].sem # Empty) => g \in DOMAIN c

(* The sequences of the admissions continue the one drained last.           *)
SequencesHeld ==
    /\ drained.inOrder
    /\ nextSeq = drained.last + Len(admissions) + 1
    /\ \A i \in 1 .. Len(admissions) : admissions[i].seq = drained.last + i

(* Nothing is received once the stop was.                                   *)
StopHeld ==
    /\ loop.pendingStop # Empty => loop.stopping /\ stopSeq = 0
    /\ stopSeq # 0 => loop.stopping /\ nextSeq = stopSeq + 1

TypeOK ==
    /\ conn \in [Requests -> {"idle", "sending", "waiting", "closed"}]
    /\ data \in Seq(Requests) /\ control \in Seq(Requests)
    /\ claimed \in BOOLEAN /\ serving \in BOOLEAN
    /\ loop \in [stage : {"poll", "act", "ended"}, open : BOOLEAN, controlOpen : BOOLEAN,
                  stopping : BOOLEAN, pendingStop : Requests \cup {Empty}]
    /\ nextSeq \in Nat \ {0} /\ stopSeq \in Nat
    /\ drained \in [last : Nat, inOrder : BOOLEAN]

IInv ==
    /\ TypeOK /\ SequencesHeld /\ StopHeld
    /\ SchedHeld(Sched) /\ CommitsHeld(Sched, commits)

==========================================================================

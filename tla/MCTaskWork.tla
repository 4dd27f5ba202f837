----------------------------- MODULE MCTaskWork -----------------------------
(***************************************************************************)
(* The work on a task for TLC: the leases under which it is done, its      *)
(* coordinator, the planner's and the conversation's turns, the graph of   *)
(* tasks, the choice of a provider, and the verification of what was done. *)
(* They meet only through rows that each of them already models, so a      *)
(* behaviour runs one of them and one run checks all.                      *)
(*                                                                         *)
(* TaskLeases keeps its own variables; the other components, of which a    *)
(* behaviour has at most one, take theirs from the pool s1, s2, ...        *)
(***************************************************************************)
EXTENDS MCTaskLeases, Integers, Sequences

CONSTANT None

VARIABLES part,    \* what this behaviour is about
          s1, s2, s3, s4, s5, s6, s7, s8, s9, s10, s11, s12

Coordinator == INSTANCE TaskCoordinator WITH
    Providers <- {"p1", "p2"}, MaxWork <- 3, MaxRounds <- 2, MaxFaults <- 2, MaxControls
    <- 2,
    task <- s1, worktree <- s2, work <- s3, attempt <- s4, checkpoint <- s5, handover <-
    s6, control <- s7, verified <- s8, co <- s9, stray <- s10, faults <- s11, controls
    <- s12

TurnPriority == [a |-> 1, b |-> 2, c |-> 3]
TurnReadOnly == [a |-> "verified", b |-> "advertised", c |-> "unknown"]

Turn == INSTANCE ProviderTurn WITH
    Providers <- DOMAIN TurnPriority, Priority <- TurnPriority, Enabled <- DOMAIN
    TurnPriority, ReadOnly <- TurnReadOnly, Eligible <- {"a", "c"}, EventLimit <- 4,
    ByteLimit <- 3,
    turn <- s1, text <- s2, worker <- s3, said <- s4

(* A path, a path below it, two paths, and one whose name only begins like *)
(* the first.                                                              *)
GraphScopes ==
    {{<<"src">>}, {<<"src", "api">>}, {<<"src", "api">>, <<"docs">>}, {<<"src-gen">>}}

Graph == INSTANCE GraphValidation WITH
    Keys <- <<"a", "b", "c">>, Scopes <- GraphScopes,
    proposal <- s1, verdict <- s2, progress <- s3

(* Time is in half days.  The clocks of codex skip an hour at tick 6 and   *)
(* those of gemini repeat one at tick 5; the months have three, one and    *)
(* two days.                                                               *)
Ticks == -40 .. 60
GapZone == [t \in Ticks |-> IF t < 6 THEN 0 ELSE 1]
BackZone == [t \in Ticks |-> IF t < 5 THEN 1 ELSE 0]
UsagePolicy ==
    [codex |-> [period |-> "calendar_month", zone |-> GapZone, resetDay |-> 2],
     claude |-> [period |-> "rolling", anchor |-> -12, seconds |-> 2],
     gemini |-> [period |-> "calendar_day", zone |-> BackZone]]
Months == <<3, 1, 2>>

Quota == INSTANCE QuotaPolicy WITH
    DayLength <- 2, SecondTicks <- 2, MonthDays <- Months, GapLimit <- 3

UsageWindow ==
    [p \in DOMAIN UsagePolicy |-> [at \in -12 .. 24 |-> Quota!PeriodWindow(UsagePolicy[p], at)]]
UsageLimit == [codex |-> 10, claude |-> None, gemini |-> 4]
UsagePriority == [codex |-> 90, claude |-> 90, gemini |-> 70]
UsageProfiles == [p \in DOMAIN UsagePolicy |-> {"economy", "premium"}]
UsageUnits == [codex |-> None, claude |-> None, gemini |-> 2]
Hints ==
    [repositoryWide |-> FALSE, files |-> 1, components |-> None, crossComponent |-> FALSE,
     criteria |-> 2, unclear |-> 0, advanced |-> 0, risks |-> {}, named |-> {"security"},
     production |-> FALSE, difficultRollback |-> FALSE, endToEnd |-> FALSE,
     lacksOracle |-> FALSE, layers |-> 1]
Evidence(health, probe) ==
    [health |-> health, support |-> "verified", failures |-> [failed |-> 0, of |-> 1],
     probe |-> probe]
Spent == [used |-> 10, limit |-> 10, remaining |-> None, confidence |-> "confirmed", window |-> None]
RouteRequest(probe, failed) ==
    [hints |-> Hints, requested |-> None, failed |-> failed,
     evidence |-> [codex |-> Evidence("healthy", probe), claude |-> Evidence("degraded", None),
                   gemini |-> Evidence("healthy", None)]]
UsageRequests ==
    {RouteRequest(None, None), RouteRequest(None, "codex"), RouteRequest(Spent, None)}
UsageOverrides ==
    {[provider |-> "codex", used |-> 2, limit |-> None, remaining |-> None],
     [provider |-> "gemini", used |-> None, limit |-> None, remaining |-> 0]}
UsageReports ==
    {[provider |-> "gemini", scope |-> s, amount |-> 1] : s \in {"quota", "tokens"}}
UsageConfig ==
    [minimumProgress |-> 1, alpha |-> 3, minimumObservations |-> 2, grace |-> 1, reserve |-> 15,
     amber |-> 20, green |-> 50, hardLimit |-> 5, projectedLimit |-> 100]

Usage == INSTANCE UsageRouting WITH
    DayLength <- 2, SecondTicks <- 2, MonthDays <- Months, GapLimit <- 3, Providers <-
    DOMAIN UsagePolicy, Workspaces <- {"w1"}, Window <- UsageWindow, Limit <-
    UsageLimit, Priority <- UsagePriority, Profiles <- UsageProfiles, Units <-
    UsageUnits, Requests <- UsageRequests, Overrides <- UsageOverrides, Reports <-
    UsageReports, Config <- UsageConfig, Freshness <- 1, HistoryLimit <- 3, MaxLate <-
    2, MaxNow <- 6, MaxRows <- 3,
    now <- s1, account <- s2, ledger <- s3, observed <- s4, entered <- s5, decision <-
    s6, shown <- s7

(* A file in the scope of the task that may gain or lose a secret, in a    *)
(* text or in a large binary, and one outside the scope.                   *)
PlainEdit == [added |-> "plain", removed |-> "plain", shown |-> TRUE, large |-> FALSE, gone |-> FALSE]
FileChanges ==
    (<<"docs">> :> {PlainEdit}) @@
    (<<"src", "a">> :>
        {PlainEdit, [PlainEdit EXCEPT !.added = "secret"], [PlainEdit EXCEPT !.removed = "secret"],
         [PlainEdit EXCEPT !.added = "secret", !.shown = FALSE, !.large = TRUE],
         [PlainEdit EXCEPT !.added = "todo"], [PlainEdit EXCEPT !.gone = TRUE]})
Envelope(review, wide, criteria) ==
    [review |-> review, wide |-> wide, scope |-> {<<"src">>}, criteria |-> criteria]
Envelopes ==
    {Envelope(FALSE, FALSE, {}), Envelope(FALSE, TRUE, {{}}),
     Envelope(TRUE, FALSE, {{}, {"test"}}),
     Envelope(FALSE, FALSE, {{"secret", "lint"}, {"scope"}})}

Verify == INSTANCE Verification WITH
    Files <- DOMAIN FileChanges, Changes <- FileChanges, Tasks <- Envelopes, Manifests
    <- {"Cargo.toml", "go.mod", "none"},
    caller <- s1, task <- s2, tree <- s3, manifest <- s4, outcome <- s5, observed <- s6,
    step <- s7, review <- s8, todo <- s9, tests <- s10, result <- s11, state <- s12

-----------------------------------------------------------------------------
(* What a component with n variables leaves alone.                         *)
rest7 == <<s8, s9, s10, s11, s12>>
rest4 == <<s5, s6, s7, rest7>>
rest3 == <<s4, rest4>>
rest0 == <<s1, s2, s3, rest3>>

Unused7 == s8 = None /\ s9 = None /\ s10 = None /\ s11 = None /\ s12 = None
Unused4 == s5 = None /\ s6 = None /\ s7 = None /\ Unused7
Unused3 == s4 = None /\ Unused4
Unused0 == s1 = None /\ s2 = None /\ s3 = None /\ Unused3

(* The tables of a behaviour that is not about the leases.                 *)
Idle == Init /\ worker = [w \in WorkerIds |-> NoRow]

AllInit ==
    \/ part = "leases" /\ Init /\ Unused0
    \/ part = "coordinator" /\ Idle /\ Coordinator!Init
    \/ part = "turn" /\ Idle /\ Turn!Init /\ Unused4
    \/ part = "graph" /\ Idle /\ Graph!Init /\ Unused3
    \/ part = "usage" /\ Idle /\ Usage!Init /\ Unused7
    \/ part = "verification" /\ Idle /\ Verify!Init

AllNext ==
    /\ UNCHANGED part
    /\ \/ part = "leases" /\ Next /\ UNCHANGED rest0
       \/ part = "coordinator" /\ Coordinator!Next /\ UNCHANGED vars
       \/ part = "turn" /\ Turn!Next /\ UNCHANGED <<vars, rest4>>
       \/ part = "graph" /\ Graph!Next /\ UNCHANGED <<vars, rest3>>
       \/ part = "usage" /\ Usage!Next /\ UNCHANGED <<vars, rest7>>
       \/ part = "verification" /\ Verify!Next /\ UNCHANGED vars

AllSpec == AllInit /\ [][AllNext]_<<part, vars, rest0>>

-----------------------------------------------------------------------------
(* The properties of the instanced components, as they are stated and      *)
(* explained there.                                                        *)

(* TaskCoordinator: a provider writes only with its acknowledgement of the *)
(* newest hand-over on record.                                             *)
WriterAcknowledged == part = "coordinator" => Coordinator!WriterAcknowledged



(* GraphValidation: exactly the good graphs are accepted, and tasks of one *)
(* that run together write to disjoint paths.                              *)
GraphSafe == part = "graph" => Graph!VerdictCorrect /\ Graph!RunningApart



=============================================================================

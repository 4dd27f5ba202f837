---------------------------- MODULE UsageRouting ----------------------------
(***************************************************************************)
(* How usage is recorded, read back and turned into the choice of a        *)
(* provider (orchestrator-cli/src/app.rs, orchestrator-state/src/          *)
(* records.rs, orchestrator-daemon/src/ipc.rs).                            *)
(*                                                                         *)
(* account is the table global_provider_usage_snapshots, which the probes  *)
(* and the manual overrides write; ledger[w] is provider_usage_snapshots   *)
(* as workspace w sees it, which the executions write.  Routing reads the  *)
(* first, the ledger of an execution reads the second.  observed[w] keeps  *)
(* what the executions of w reported, for the properties.                  *)
(*                                                                         *)
(* Every action takes a tick, so two rows of one provider never have the   *)
(* same time; an observation carries the time of the provider's event,     *)
(* which may lie before rows that are already there.                       *)
(***************************************************************************)
EXTENDS QuotaPolicy

CONSTANTS Providers,      \* the configured providers, members of DOMAIN NameOrder
          Workspaces,
          Window,         \* Window[p][at]: the PeriodWindow of the reset policy of
                          \* provider p at that instant, tabulated
          Limit,          \* the configured quota of each provider, or None
          Priority, Profiles,
          Units,          \* quota units of a unit of work, or None
          Requests,       \* the tasks that are routed, and what a probe of the
                          \* providers finds: hints, requested, failed, evidence
          Overrides,      \* what an administrator enters: provider, used, limit, remaining
          Reports,        \* what an execution reports: provider, scope, amount
          Config,         \* the forecast configuration
          Freshness,      \* ticks for which a probe's row is fresh (15 minutes)
          HistoryLimit,   \* rows a query returns (256)
          MaxLate,        \* how far back an observation may lie
          MaxNow, MaxRows

VARIABLES now, account, ledger, observed,
          entered,        \* overrides on their way to the daemon
          decision,       \* the last routing decision and what it was made from
          shown           \* the source of the row `colay usage` printed last

vars == <<now, account, ledger, observed, entered, decision, shown>>

\* Rows are written until there are MaxRows of them.
Rows == UNION {account, entered, UNION {ledger[w] : w \in Workspaces}}

MayRecord == now < MaxNow /\ Cardinality(Rows) < MaxRows

\* The scope of a provider's quota, and the one of its token accounting.
QuotaScope(p) == "quota"

\* ORDER BY collected_at DESC LIMIT HistoryLimit.
Newest(rows) ==
    {r \in rows : Cardinality({o \in rows : o.at > r.at}) < HistoryLimit}

UsageHistory(p) == Newest({r \in account : r.provider = p})

------------------------------------------------------------------------------
\* ---- evidence for a provider's budget ----

SourcePriority == [official |-> 0, configured_probe |-> 1, local_ledger |-> 2,
                   manual_override |-> 3, unknown |-> 4]

Fresh(s, at) ==
    CASE s.source \in {"official", "configured_probe"} -> s.at >= at - Freshness
      [] s.source \in {"local_ledger", "manual_override"} -> TRUE
      [] OTHER -> FALSE

InPeriod(p, at) ==
    {s \in UsageHistory(p) : s.scope = QuotaScope(p) /\ Within(s.at, Window[p][at])}

Preferred(rows) ==
    CHOOSE s \in rows : \A o \in rows :
        \/ SourcePriority[s.source] < SourcePriority[o.source]
        \/ SourcePriority[s.source] = SourcePriority[o.source] /\ s.at >= o.at


\* A confirmed exhaustion counts for the whole period; otherwise the fresh row of
\* the best source does.
PreferredRecordedUsageForPeriod(p, at) ==
    LET rows == InPeriod(p, at)
        exhausted == {s \in rows : s.confidence = "confirmed" /\ Known(s.remaining) /\ s.remaining <= 0}
        fresh == {s \in rows : Fresh(s, at)}
    IN  IF exhausted # {} THEN CHOOSE s \in exhausted : \A o \in exhausted : s.at >= o.at
        ELSE IF fresh # {} THEN Preferred(fresh) ELSE None

InWindow(s, window) == [s EXCEPT !.start = window.start, !.reset = window.reset]

\* usage_defaults: what is shown and used where nothing is recorded.
DefaultUsage(p, at) == InWindow(UnknownUsage(p, QuotaScope(p), at), Window[p][at])

\* The two tables: account rows, with the audit event of the workspace in the same
\* transaction, and the rows of a workspace's tasks.
InsertGlobal(rows) == account' = account \cup rows

InsertForTask(w, row) == ledger' = [ledger EXCEPT ![w] = @ \cup {row}]

ListUsage(w, p) == Newest({r \in ledger[w] : r.provider = p})

\* parse_usage_probe_output and normalize_usage_window: the snapshot of a probe's
\* answer, or None when the answer is refused.
ProbeSnapshot(p, answer, at) ==
    LET window == Window[p][at]
        remaining == IF Known(answer.remaining) THEN answer.remaining
                     ELSE IF Known(answer.limit) /\ Known(answer.used) /\ answer.limit >= answer.used
                          THEN answer.limit - answer.used ELSE None
        s == [UnknownUsage(p, QuotaScope(p), at) EXCEPT
                !.used = answer.used, !.limit = answer.limit, !.remaining = remaining,
                !.usedPercent = Percentage(answer.used, answer.limit),
                !.remainingPercent = Percentage(remaining, answer.limit),
                !.source = "configured_probe", !.confidence = answer.confidence]
    IN  IF ValidUsage(s) /\ (Known(answer.window) => answer.window = window)
        THEN InWindow(s, window) ELSE None

\* collect_usage: the probe's answer if it has one, else what was recorded in this
\* period, else nothing known.
CollectUsage(p, answer, at) ==
    FirstKnown(IF Known(answer) THEN ProbeSnapshot(p, answer, at) ELSE None,
               FirstKnown(PreferredRecordedUsageForPeriod(p, at), DefaultUsage(p, at)))

\* budget_for_snapshot: a recorded row keeps the window it was recorded with.
BudgetForSnapshot(p, s, rows, at) ==
    LET window == IF Known(s.start) /\ Known(s.reset) THEN [start |-> s.start, reset |-> s.reset]
                  ELSE Window[p][at]
        history == {h \in rows : h.scope = s.scope /\ Within(h.at, window)}
    IN  Forecast(s, history, window, at, Config)

\* work_units_available, of the safe share of the limit.
WorkLeft(p, limit, safe) ==
    IF Known(Units[p]) /\ Known(limit) /\ Known(safe)
    THEN (Max({0, safe}) * limit) \div (100 * Units[p]) ELSE None

\* recent_attempt_failure_rate is part of the evidence.
CandidateWith(p, e, requested, s, probed, budget) ==
    [provider |-> p, enabled |-> ~Known(requested) \/ requested = p,
     health |-> e.health, nonInteractive |-> e.support, structured |-> e.support,
     writable |-> e.support, readOnly |-> e.support, budgets |-> {budget},
     profiles |-> Profiles[p], failures |-> e.failures, priority |-> Priority[p],
     work |-> WorkLeft(p, s.limit, budget.safe), snapshot |-> s, probed |-> probed]

CandidateFrom(p, e, requested, s, at) ==
    LET probed == Known(e.probe) /\ s.source = "configured_probe" /\ s.at = at
        rows   == UsageHistory(p) \cup (IF probed THEN {s} ELSE {})
    IN  CandidateWith(p, e, requested, s, probed, BudgetForSnapshot(p, s, rows, at))

Candidate(p, e, requested, at) ==
    CandidateFrom(p, e, requested, CollectUsage(p, e.probe, at), at)

\* For the properties: a row of the current period confirms that nothing is left.
ExhaustedOnRecord(p) ==
    \E s \in account :
        /\ s.provider = p /\ s.scope = QuotaScope(p) /\ Within(s.at, Window[p][now])
        /\ s.confidence = "confirmed" /\ Known(s.remaining) /\ s.remaining <= 0

\* routing_candidates and route: what the probes answered is recorded; a provider
\* that has just failed counts as unhealthy (reroute_after_failure).
RouteAmong(found, h, requested, failed) ==
    LET candidates == {[c EXCEPT !.health = IF c.provider = failed THEN "unhealthy" ELSE @] :
                          c \in found}
        context == [assessment |-> Assess(h), role |-> "implementation", writable |-> TRUE,
                    requested |-> requested, implementer |-> failed, current |-> failed,
                    conserve |-> TRUE]
        probed  == {c \in found : c.probed}
        chosen  == RouteDecision(context, candidates, [maxParallelWorkers |-> 1, allowAmber |-> TRUE])
    IN  /\ now' = now + 1
        /\ InsertGlobal({c.snapshot : c \in probed})
        /\ decision' = [provider |-> chosen.provider, probed |-> {c.provider : c \in probed},
                        exhausted |-> {p \in Providers : ExhaustedOnRecord(p)}]
        /\ UNCHANGED <<ledger, observed, entered, shown>>

Route(h, e, requested, failed) ==
    /\ MayRecord /\ ValidForecastConfig(Config)
    /\ RouteAmong({Candidate(p, e[p], requested, now) : p \in Providers}, h, requested, failed)

------------------------------------------------------------------------------
\* ---- manual overrides and what is shown ----

\* usage_override in the client: the values are completed and checked against the
\* limit, and the row gets its time and window before the daemon is asked.
OverrideSnapshot(p, o, at) ==
    LET limit == IF Known(o.limit) THEN o.limit ELSE Limit[p]
        rest(value) == IF Known(limit) /\ Known(value) /\ limit >= value THEN limit - value ELSE None
        used == IF Known(o.used) THEN o.used ELSE rest(o.remaining)
        remaining == IF Known(o.remaining) THEN o.remaining ELSE rest(used)
    IN  InWindow([UnknownUsage(p, QuotaScope(p), at) EXCEPT
                    !.used = used, !.limit = limit, !.remaining = remaining,
                    !.usedPercent = Percentage(used, limit),
                    !.remainingPercent = Percentage(remaining, limit),
                    !.source = "manual_override", !.confidence = "confirmed"],
                 Window[p][at])

EnterOverride(p, o) ==
    /\ MayRecord
    /\ Known(o.used) \/ Known(o.remaining)
    /\ ValidUsage(OverrideSnapshot(p, o, now))
    /\ entered' = entered \cup {OverrideSnapshot(p, o, now)}
    /\ now' = now + 1
    /\ UNCHANGED <<account, ledger, observed, decision, shown>>

\* override_workspace_usage in the daemon: the row and its audit event, or neither.
RecordOverride(s) ==
    /\ InsertGlobal({s})
    /\ entered' = entered \ {s}
    /\ UNCHANGED <<now, ledger, observed, decision, shown>>

\* resolved_usage_snapshots: the newest row of the scope, else the default that the
\* client computed.
ResolvedUsage(p, at) ==
    LET rows == {s \in UsageHistory(p) : s.scope = QuotaScope(p)}
    IN  IF rows # {} THEN CHOOSE s \in rows : \A o \in rows : s.at >= o.at
        ELSE DefaultUsage(p, at)

ShowUsage(p) ==
    /\ shown' = ResolvedUsage(p, now).source
    /\ UNCHANGED <<now, account, ledger, observed, entered, decision>>

------------------------------------------------------------------------------
\* ---- the ledger of executions ----

\* The rows an observation of the configured scope adds up with are those of its
\* period; other scopes have no period.
PriorRows(w, p, scope, at) ==
    {r \in ListUsage(w, p) :
        /\ r.source = "local_ledger" /\ r.scope = scope
        /\ scope = QuotaScope(p) => Within(r.at, Window[p][at])}


PriorUsage(w, p, scope, at) ==
    Max({0} \cup {r.used : r \in PriorRows(w, p, scope, at)})

LedgerRow(w, p, scope, amount, at) ==
    LET used  == PriorUsage(w, p, scope, at) + amount
        limit == IF scope = QuotaScope(p) THEN Limit[p] ELSE None
        count == IF Known(limit) THEN Min({used, limit}) ELSE used
        left  == IF Known(limit) THEN limit - count ELSE None
        row   == [UnknownUsage(p, scope, at) EXCEPT
                    !.used = count, !.limit = limit, !.remaining = left,
                    !.usedPercent = Percentage(count, limit),
                    !.remainingPercent = Percentage(left, limit),
                    !.source = "local_ledger", !.confidence = "estimated"]
    IN  IF scope = QuotaScope(p) THEN InWindow(row, Window[p][at]) ELSE row

\* persist_usage_observation.
Observe(w, p, scope, amount, at) ==
    /\ MayRecord
    /\ at \notin {x.at : x \in observed[w]}
    /\ InsertForTask(w, LedgerRow(w, p, scope, amount, at))
    /\ observed' = [observed EXCEPT
                      ![w] = @ \cup {[provider |-> p, scope |-> scope, amount |-> amount, at |-> at]}]
    /\ now' = now + 1
    /\ UNCHANGED <<account, entered, decision, shown>>

\* An execution that ran out of quota: confirmed_exhaustion, in the workspace's table.
ReportExhaustion(w, p) ==
    /\ MayRecord
    /\ InsertForTask(w, [UnknownUsage(p, QuotaScope(p), now) EXCEPT
                            !.remaining = 0, !.remainingPercent = 0,
                            !.limit = Limit[p], !.used = Limit[p],
                            !.usedPercent = IF Known(Limit[p]) THEN 100 ELSE None,
                            !.source = "official", !.confidence = "confirmed"])
    /\ now' = now + 1
    /\ UNCHANGED <<account, observed, entered, decision, shown>>

Wait ==
    /\ now < MaxNow
    /\ now' = now + 1
    /\ UNCHANGED <<account, ledger, observed, entered, decision, shown>>

------------------------------------------------------------------------------
Init ==
    /\ now = 0 /\ account = {} /\ entered = {}
    /\ ledger = [w \in Workspaces |-> {}] /\ observed = [w \in Workspaces |-> {}]
    /\ decision = [provider |-> None, probed |-> {}, exhausted |-> {}]
    /\ shown = None

Next ==
    \/ \E r \in Requests : Route(r.hints, r.evidence, r.requested, r.failed)
    \/ \E o \in Overrides : EnterOverride(o.provider, o)
    \/ \E s \in entered : RecordOverride(s)
    \/ \E p \in Providers : ShowUsage(p)
    \/ \E w \in Workspaces, r \in Reports, at \in (now - MaxLate)..now :
          Observe(w, r.provider, r.scope, r.amount, at)
    \/ \E w \in Workspaces, r \in Reports : ReportExhaustion(w, r.provider)
    \/ Wait

Spec == Init /\ [][Next]_vars

------------------------------------------------------------------------------
\* ---- properties ----

\* The windows of a policy cover time without a gap and without an overlap: now
\* lies in its window, the start of the window lies in the same one, and the next
\* one begins where it ends.  This has to hold over short months, over a midnight
\* that the clocks skip or repeat, and for any reset day (period_window).
WindowsTile ==
    \A p \in Providers :
        LET window == Window[p][now]
        IN  /\ Within(now, window)
            /\ Window[p][window.start] = window
            /\ Window[p][window.reset].start = window.reset


\* The ledger of a workspace adds up: the largest row of a period shows what the
\* executions reported in it, cut at the limit, in whatever order their reports
\* arrived (persist_usage_observation).
LedgerAddsUp ==
    \A w \in Workspaces : \A o \in observed[w] :
        LET same == {x \in observed[w] :
                       /\ x.provider = o.provider /\ x.scope = o.scope
                       /\ o.scope = QuotaScope(o.provider) =>
                             Within(x.at, Window[o.provider][o.at])}
            sum == MapThenSumSet(LAMBDA x : x.amount, same)
            limit == IF o.scope = QuotaScope(o.provider) THEN Limit[o.provider] ELSE None
        IN  Max({r.used : r \in {x \in ledger[w] :
                    /\ x.source = "local_ledger" /\ x.provider = o.provider /\ x.scope = o.scope
                    /\ x.at \in {y.at : y \in same}}})
                = IF Known(limit) THEN Min({sum, limit}) ELSE sum

==============================================================================

----------------------------- MODULE QuotaPolicy -----------------------------
(***************************************************************************)
(* The pure algorithms of the routing policy: the window of a quota period *)
(* (orchestrator-policy/src/period.rs), what a usage snapshot says         *)
(* (orchestrator-domain/src/usage.rs), the budget forecast (budget.rs),    *)
(* the assessment of a task (analyzer.rs, assessment.rs) and the choice of *)
(* a provider (routing.rs).                                                *)
(*                                                                         *)
(* Time is counted in ticks; a calendar day has DayLength of them and a    *)
(* second SecondTicks.  A time zone is the function from instants to       *)
(* offsets, so that a local time may have no instant (the clocks go        *)
(* forward over it) or two.  Quota is counted in units of which the limits *)
(* divide a hundred, so every percentage is exact, and scores are sixty    *)
(* times those of the code, which makes all of them integers.              *)
(***************************************************************************)
EXTENDS Integers, SequencesExt

CONSTANTS None,         \* an absent value
          DayLength,    \* ticks of a calendar day
          SecondTicks,  \* ticks of a second
          MonthDays,    \* days of each month of the year
          GapLimit      \* ticks over which a boundary is looked for

------------------------------------------------------------------------------
\* ---- the calendar (chrono) ----

MonthsOfYear == Len(MonthDays)

DaysBefore(month) ==
    FoldFunctionOnSet(+, 0, MonthDays, 1..(month - 1))

DayOf(date) ==
    date.year * DaysBefore(MonthsOfYear + 1) + DaysBefore(date.month) + date.day - 1

DateOf(day) ==
    LET year  == day \div DaysBefore(MonthsOfYear + 1)
        rest  == day - year * DaysBefore(MonthsOfYear + 1)
        month == Max({m \in 1..MonthsOfYear : DaysBefore(m) <= rest})
    IN  [year |-> year, month |-> month, day |-> rest - DaysBefore(month) + 1]

Local(zone, at) == at + zone[at]

FromLocal(zone, value) == {at \in DOMAIN zone : Local(zone, at) = value}

Truncated(n, d) == IF n >= 0 THEN n \div d ELSE -((-n) \div d)

------------------------------------------------------------------------------
\* ---- the window of a quota period: period.rs ----

\* A midnight that the clocks skip is moved to the first instant that exists,
\* and of two midnights the earlier one counts.
ResolveBoundary(zone, value) ==
    LET found == {v \in value..(value + GapLimit) : FromLocal(zone, v) # {}}
    IN  Min(FromLocal(zone, Min(found)))

NextMonth(year, month) ==
    IF month < MonthsOfYear THEN <<year, month + 1>> ELSE <<year + 1, 1>>

PreviousMonth(year, month) ==
    IF month > 1 THEN <<year, month - 1>> ELSE <<year - 1, MonthsOfYear>>

DaysInMonth(year, month) ==
    LET next == NextMonth(year, month)
    IN  DateOf(DayOf([year |-> next[1], month |-> next[2], day |-> 1]) - 1).day

MonthReset(year, month, resetDay) ==
    DayOf([year |-> year, month |-> month,
           day |-> Min({resetDay, DaysInMonth(year, month)})])

CalendarDayWindow(zone, at) ==
    LET day == Local(zone, at) \div DayLength
    IN  [start |-> ResolveBoundary(zone, day * DayLength),
         reset |-> ResolveBoundary(zone, (day + 1) * DayLength)]

CalendarMonthWindow(zone, resetDay, at) ==
    LET date == DateOf(Local(zone, at) \div DayLength)
        this == MonthReset(date.year, date.month, resetDay)
        next == NextMonth(date.year, date.month)
        previous == PreviousMonth(date.year, date.month)
        days == IF at >= ResolveBoundary(zone, this * DayLength)
                THEN <<this, MonthReset(next[1], next[2], resetDay)>>
                ELSE <<MonthReset(previous[1], previous[2], resetDay), this>>
    IN  [start |-> ResolveBoundary(zone, days[1] * DayLength),
         reset |-> ResolveBoundary(zone, days[2] * DayLength)]

\* The elapsed time is cut to whole seconds towards the anchor, before it too.
RollingWindow(policy, at) ==
    LET index == Truncated(at - policy.anchor, SecondTicks) \div policy.seconds
        start == policy.anchor + index * policy.seconds * SecondTicks
    IN  [start |-> start, reset |-> start + policy.seconds * SecondTicks]

PeriodWindow(policy, at) ==
    CASE policy.period = "calendar_day"   -> CalendarDayWindow(policy.zone, at)
      [] policy.period = "calendar_month" -> CalendarMonthWindow(policy.zone, policy.resetDay, at)
      [] policy.period = "rolling"        -> RollingWindow(policy, at)
      [] policy.period = "custom"         -> [start |-> policy.start, reset |-> policy.reset]

Within(at, window) == window.start <= at /\ at < window.reset

------------------------------------------------------------------------------
\* ---- usage snapshots: usage.rs ----

Known(value) == value # None

FirstKnown(value, other) == IF Known(value) THEN value ELSE other

\* What a percentage leaves of the whole.
Rest(percent) == IF Known(percent) THEN 100 - percent ELSE None

Percentage(value, limit) ==
    IF Known(value) /\ Known(limit) /\ limit > 0 THEN (value * 100) \div limit ELSE None

\* UsageSnapshot::unknown: nothing is known and nothing is invented.
UnknownUsage(provider, scope, at) ==
    [provider |-> provider, scope |-> scope, used |-> None, limit |-> None, remaining |-> None,
     usedPercent |-> None, remainingPercent |-> None, start |-> None, reset |-> None,
     source |-> "unknown", confidence |-> "unknown", at |-> at]

ValidUsage(s) ==
    /\ \A v \in {s.used, s.limit, s.remaining} : Known(v) => v >= 0
    /\ Known(s.limit) =>
          /\ Known(s.used) => s.used <= s.limit
          /\ Known(s.remaining) => s.remaining <= s.limit
          /\ Known(s.used) /\ Known(s.remaining) => s.used + s.remaining = s.limit
          /\ s.limit > 0 =>
                /\ Known(s.used) /\ Known(s.usedPercent) =>
                      s.usedPercent = Percentage(s.used, s.limit)
                /\ Known(s.remaining) /\ Known(s.remainingPercent) =>
                      s.remainingPercent = Percentage(s.remaining, s.limit)
    /\ Known(s.usedPercent) /\ Known(s.remainingPercent) =>
          s.usedPercent + s.remainingPercent = 100
    /\ \A v \in {s.usedPercent, s.remainingPercent} : Known(v) => v \in 0..100
    /\ Known(s.start) /\ Known(s.reset) => s.start < s.reset
    /\ s.confidence = "unknown" =>
          {s.used, s.remaining, s.usedPercent, s.remainingPercent} = {None}

EffectiveUsedPercent(s) == FirstKnown(s.usedPercent, Percentage(s.used, s.limit))

EffectiveRemainingPercent(s) ==
    FirstKnown(s.remainingPercent,
               IF Known(s.remaining) /\ Known(s.limit) THEN Percentage(s.remaining, s.limit)
               ELSE Rest(EffectiveUsedPercent(s)))

IsConfirmedExhausted(s) ==
    /\ s.confidence = "confirmed"
    /\ \/ Known(s.remaining) /\ s.remaining <= 0
       \/ Known(EffectiveRemainingPercent(s)) /\ EffectiveRemainingPercent(s) <= 0

\* UsageConfidence::weight, in fifths.
ConfidenceWeight == [confirmed |-> 5, estimated |-> 3, unknown |-> 0]

------------------------------------------------------------------------------
\* ---- the budget forecast: budget.rs ----

\* ForecastConfig::validate, with fractions in tenths and percentages as they are.
ValidForecastConfig(c) ==
    /\ c.minimumProgress \in 1..10 /\ c.alpha \in 1..10
    /\ c.minimumObservations > 0 /\ c.grace >= 0
    /\ {c.reserve, c.amber, c.green, c.hardLimit, c.projectedLimit} \subseteq 0..100
    /\ c.hardLimit <= c.amber /\ c.amber <= c.green

\* The used share a sample contributes, derived from the remaining one if need be.
SampleUsedPercent(s) == FirstKnown(EffectiveUsedPercent(s), Rest(EffectiveRemainingPercent(s)))

\* The samples in the order they were collected, one for each instant.
Samples(snapshot, history) ==
    LET usable == {h \in history \cup {snapshot} :
                     /\ h.provider = snapshot.provider /\ h.scope = snapshot.scope
                     /\ h.confidence # "unknown" /\ h.at <= snapshot.at
                     /\ Known(SampleUsedPercent(h))}
        first(at) == CHOOSE h \in usable : h.at = at
        instants == SetToSortSeq({h.at : h \in usable}, <)
    IN  [i \in DOMAIN instants |-> first(instants[i])]

\* The confidence-weighted moving average of the used percentage, as a fraction.
SmoothedProgress(samples, alpha) ==
    LET smooth(previous, s) ==
          LET weight == alpha * ConfidenceWeight[s.confidence]
          IN  IF previous = <<>> THEN <<SampleUsedPercent(s), 1>>
              ELSE <<weight * SampleUsedPercent(s) * previous[2] + (50 - weight) * previous[1],
                     previous[2] * 50>>
    IN  FoldLeft(smooth, <<>>, samples)

\* The first of these that applies.
ForecastOrder(facts) ==
    CASE facts.exhausted -> "exhausted"
      [] ~facts.exhausted /\ facts.unknown -> "unknown"
      [] ~facts.exhausted /\ ~facts.unknown /\ facts.red -> "red"
      [] ~facts.exhausted /\ ~facts.unknown /\ ~facts.red /\ facts.amber -> "amber"
      [] OTHER -> "green"

\* smoothed / max(elapsed / length, minimumProgress) > projectedLimit.
ProjectionExceeds(smoothed, elapsed, length, c) ==
    LET least == IF elapsed * 10 >= c.minimumProgress * length
                 THEN <<elapsed, length>> ELSE <<c.minimumProgress, 10>>
    IN  smoothed # <<>> /\ smoothed[1] * least[2] > c.projectedLimit * smoothed[2] * least[1]

\* Enough samples were seen and the grace time of the period is over.
ProjectionMature(samples, elapsed, c) ==
    Len(samples) >= c.minimumObservations /\ Truncated(elapsed, SecondTicks) >= c.grace

\* What is known of the headroom, and of the projection that the samples allow.
ForecastFacts(snapshot, samples, remaining, window, at, c) ==
    LET length  == window.reset - window.start
        elapsed == Max({0, Min({at - window.start, length})})
    IN  [exhausted |-> IsConfirmedExhausted(snapshot),
         unknown   |-> \/ snapshot.confidence = "unknown"
                       \/ ~Known(remaining) \/ ~Known(SampleUsedPercent(snapshot)),
         red       |-> /\ Known(remaining)
                       /\ remaining <= c.hardLimit \/ remaining - c.reserve < c.amber,
         amber     |-> \/ ProjectionExceeds(SmoothedProgress(samples, c.alpha), elapsed, length, c)
                       \/ Known(remaining) /\ remaining - c.reserve < c.green
                       \/ ~ProjectionMature(samples, at - window.start, c)]

\* BudgetForecaster::forecast: the status, the safe share that remains, and the
\* confidence it is known with.
Forecast(snapshot, history, window, at, c) ==
    LET remaining == EffectiveRemainingPercent(snapshot)
    IN  [status |-> ForecastOrder(
                        ForecastFacts(snapshot, Samples(snapshot, history), remaining, window, at, c)),
         safe |-> IF Known(remaining) THEN remaining - c.reserve ELSE None,
         confidence |-> snapshot.confidence]

------------------------------------------------------------------------------
\* ---- the assessment of a task: analyzer.rs, assessment.rs ----

\* A bound that is not known does not count.
Over(estimate, bound) == Known(estimate) /\ estimate > bound

Graded(two, one) == IF two THEN 2 ELSE IF one THEN 1 ELSE 0

ScoreScope(h) ==
    Graded(h.repositoryWide \/ Over(h.files, 10) \/ Over(h.components, 3),
           h.crossComponent \/ Over(h.files, 1) \/ Over(h.components, 1))

ScoreAmbiguity(h) == Graded(h.criteria = 0 \/ h.unclear >= 3, h.unclear > 0)

ScoreTechnical(h) == Graded(h.advanced >= 2, h.advanced = 1 \/ h.crossComponent)

ForcesPremium(risk) == risk \notin {"concurrency", "large_repository", "external_integration"}

\* The risks the words of the request name are added to the ones given.
DetectRisks(h) == h.risks \cup h.named

ScoreFailure(h) ==
    Graded(h.production \/ h.difficultRollback \/ \E r \in DetectRisks(h) : ForcesPremium(r),
           h.crossComponent \/ DetectRisks(h) # {})

ScoreVerification(h) ==
    Graded(h.endToEnd \/ h.lacksOracle \/ h.layers >= 3, h.layers >= 2 \/ h.criteria > 1)

\* Difficulty::from_score.
FromScore(total) ==
    CASE total \in 0..2 -> "trivial" [] total \in 3..4 -> "simple" [] total \in 5..6 -> "moderate"
      [] total \in 7..8 -> "complex" [] total \in 9..10 -> "critical"

EstimatesForTotal(total) ==
    CASE total \in 0..2 -> 2 [] total \in 3..4 -> 4 [] total \in 5..6 -> 8
      [] total \in 7..8 -> 16 [] OTHER -> 24

\* TaskAssessment::from_scores.
FromScores(total, risks) ==
    [total |-> total, difficulty |-> FromScore(total), usage |-> EstimatesForTotal(total),
     review |-> total >= 7,
     quality |-> IF FromScore(total) = "critical" \/ \E r \in risks : ForcesPremium(r)
                 THEN "premium"
                 ELSE IF FromScore(total) \in {"moderate", "complex"} THEN "standard"
                      ELSE "economy"]

Assess(h) ==
    FromScores(ScoreScope(h) + ScoreAmbiguity(h) + ScoreTechnical(h) + ScoreFailure(h)
                 + ScoreVerification(h), DetectRisks(h))

------------------------------------------------------------------------------
\* ---- the choice of a provider: routing.rs ----

Usable(support) == support # "unsupported"

ExecutionMode(context, c) == IF context.writable THEN c.writable ELSE c.readOnly

ScoreInputsValid(c) == c.failures.of > 0 /\ c.failures.failed \in 0..c.failures.of /\ c.priority \in 0..100

\* The reasons score_candidate excludes a candidate for; the capabilities and the
\* health of a candidate are always those of its own provider.
Exclusions(context, c, allowAmber) ==
    LET holds ==
        [disabled    |-> ~c.enabled,
         requested   |-> Known(context.requested) /\ context.requested # c.provider,
         unhealthy   |-> c.health = "unhealthy",
         unsafe      |-> ~Usable(c.nonInteractive) \/ ~Usable(c.structured),
         mode        |-> ~Usable(ExecutionMode(context, c)),
         unverified  |-> context.role = "independent_review" /\ ExecutionMode(context, c) # "verified",
         same        |-> context.role = "independent_review" /\ context.implementer = c.provider,
         profile     |-> context.assessment.quality \notin c.profiles,
         exhausted   |-> \E b \in c.budgets : b.status = "exhausted",
         red         |-> \E b \in c.budgets : b.status = "red",
         amber       |-> ~allowAmber /\ \E b \in c.budgets : b.status = "amber",
         headroom    |-> /\ context.assessment.difficulty = "critical"
                         /\ \/ c.budgets = {}
                            \/ \E b \in c.budgets : b.status = "unknown" \/ b.confidence = "unknown",
         work        |-> Known(c.work) /\ c.work < context.assessment.usage,
         inputs      |-> ~ScoreInputsValid(c)]
    IN  {reason \in DOMAIN holds : holds[reason]}

\* Quarters of a full score for each of the three capabilities.
SupportScore == [verified |-> 4, advertised |-> 3, degraded |-> 2, unsupported |-> 0]

CapabilityScore(context, c) ==
    100 * (SupportScore[c.nonInteractive] + SupportScore[c.structured]
             + SupportScore[ExecutionMode(context, c)])

RoleAffinity(role, provider) ==
    60 * CASE role \in {"implementation", "planning", "integration"} /\ provider = "codex" -> 25
           [] role = "implementation" /\ provider = "claude" -> 18
           [] role = "implementation" /\ provider \in {"gemini", "agy"} -> 15
           [] role \in {"planning", "integration"} /\ provider = "claude" -> 20
           [] role \in {"planning", "integration"} /\ provider \in {"gemini", "agy"} -> 18
           [] role = "independent_review" /\ provider = "claude" -> 25
           [] role = "independent_review" /\ provider = "codex" -> 23
           [] role = "independent_review" /\ provider \in {"gemini", "agy"} -> 18

StatusSeverity == [green |-> 0, amber |-> 1, unknown |-> 2, red |-> 3, exhausted |-> 4]

HealthScore == [healthy |-> 900, degraded |-> 450, unknown |-> 180, unhealthy |-> 0]

\* score_components and their total.
Total(context, c) ==
    LET safes      == {b.safe : b \in {x \in c.budgets : Known(x.safe)}}
        headroom   == IF safes = {} THEN 0 ELSE 12 * Max({0, Min({100, Min(safes)})})
        weights    == {ConfidenceWeight[b.confidence] : b \in c.budgets}
        confidence == IF weights = {} THEN 0 ELSE Min(weights)
        worst      == IF c.budgets = {} THEN 0 ELSE Max({StatusSeverity[b.status] : b \in c.budgets})
    IN  RoleAffinity(context.role, c.provider) + CapabilityScore(context, c) + headroom
          + HealthScore[c.health] + 6 * c.priority + 120 * confidence
          - (IF worst = 1 THEN 600 ELSE IF worst >= 3 THEN 1800 ELSE 0)
          - (900 * c.failures.failed) \div c.failures.of
          - (IF context.current = c.provider THEN 0 ELSE 150)
          - (IF confidence = 0 THEN 1200 ELSE IF confidence < 5 THEN 480 ELSE 0)

\* compare_scores: eligible before excluded ones, then the total, then the
\* administrator's priority, then the name.
NameOrder == [agy |-> 1, claude |-> 2, codex |-> 3, gemini |-> 4]

Precedes(left, right) ==
    \/ left.total > right.total
    \/ /\ left.total = right.total
       /\ \/ left.priority > right.priority
          \/ left.priority = right.priority /\ NameOrder[left.provider] < NameOrder[right.provider]

\* The candidates that no reason excludes, with their scores.
Scored(context, candidates, allowAmber) ==
    {[provider |-> c.provider, total |-> Total(context, c), priority |-> c.priority] :
        c \in {x \in candidates : Exclusions(context, x, allowAmber) = {}}}

Selected(eligible) ==
    IF eligible = {} THEN None
    ELSE (CHOOSE s \in eligible : \A o \in eligible \ {s} : Precedes(s, o)).provider

\* The decision for the scored candidates; the profile is the one of the quality
\* floor, never less.
Decide(context, eligible, selected, config) ==
    [provider |-> selected,
     profile  |-> IF Known(selected) THEN context.assessment.quality ELSE None,
     workers  |-> CASE ~Known(selected) -> 0
                    [] Known(selected) /\ (context.writable \/ context.conserve) -> 1
                    [] OTHER -> Max({1, Min({config.maxParallelWorkers, Cardinality(eligible)})})]

\* RoutingEngine::route.
RouteDecision(context, candidates, config) ==
    LET eligible == Scored(context, candidates, config.allowAmber)
    IN  Decide(context, eligible, Selected(eligible), config)

==============================================================================

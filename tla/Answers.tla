-------------------------------- MODULE Answers --------------------------------
(***************************************************************************)
(* The rest of what the ask bar answers (api/ask.go, api/ask_scope.go),    *)
(* once it has recognised the question, and the numeric measures of        *)
(* internal/trends it shares with the API.                                 *)
(*                                                                         *)
(* A report is a function from the rows to their numbers; that only the    *)
(* largest few rows are worded, and in which order, is left out.  With one *)
(* property of each kind, two filters of the same kind are two values of   *)
(* the same property.                                                      *)
(***************************************************************************)
EXTENDS Surfaces

CONSTANTS
    Month,          \* thirty days
    LifecycleDays,  \* the days the lifecycle report goes back
    Amount(_),      \* the number an event carries, or NoAmount
    NoAmount

-----------------------------------------------------------------------------
\* trends: measures of the number the events carry.

\* MedianOf, doubled: the middle value, or the two around the middle.
MedianTwice(vals) ==
    LET sorted == SortSeq(vals, LAMBDA a, b : a < b)
    IN sorted[(Len(vals) + 1) \div 2] + sorted[Len(vals) \div 2 + 1]

\* Percentile: the nearest rank.
Percentile(vals, percent) ==
    SortSeq(vals, LAMBDA a, b : a < b)[Max({1, (percent * Len(vals) + 99) \div 100})]

\* applyMeasure; the average is the sum over as many.
Measured(m, vals) ==
    CASE vals = <<>>   -> 0
      [] m = "min"     -> Min(Range(vals))
      [] m = "max"     -> Max(Range(vals))
      [] m = "median"  -> MedianTwice(vals)
      [] m = "p90"     -> Percentile(vals, 90)
      [] OTHER         -> FoldLeft(LAMBDA sum, v : sum + v, 0, vals)

Valued(evs, name, from, to) ==
    SelectSeq(Matching(evs, name, from, to), LAMBDA e : Amount(e) # NoAmount)

Totalled(m, evs) ==
    [total |-> Measured(m, [i \in DOMAIN evs |-> Amount(evs[i])]), n |-> Len(evs)]

ComputeMeasure(evs, name, m, from, to) ==
    LET kept == Valued(evs, name, from, to)
        span == Span(Periods(kept, Day), from, to, Day, MaxDayBuckets + 1)
    IN [points |-> [d \in span |->
                        Totalled(m, SelectSeq(kept, LAMBDA e : Period(e.at, Day) = d))],
        all    |-> Totalled(m, kept)]

ComputeMeasureBreakdown(evs, name, m, from, to) ==
    LET kept == Valued(evs, name, from, to)
    IN [plan \in {e.plan : e \in ToSet(kept)} |-> Totalled(m, Carrying(kept, plan))]

-----------------------------------------------------------------------------
\* Segments.

\* segFilterUsers for what says something of the visitor, segFilter otherwise.
Narrowed(evs, f) == IF f.kind = "event" THEN Carrying(evs, f.plan) ELSE ScopeUsers(evs, f.plan)

\* applySegs, as answerSegAnd: each segment narrows what the one before left.
Pool(evs, metric, segs, w) == FoldLeft(LAMBDA pool, f : SegPool(pool, metric, f, w), evs, segs)

Asked(evs, metric, segs, w) == MetricCount(Scope(Pool(evs, metric, segs, w), w), metric)

SameProperty(segs) == Len(segs) = 2 /\ segs[1].kind = segs[2].kind

\* answerSegVsSeg.
AskVersus(evs, metric, segs, w) == [i \in DOMAIN segs |-> Asked(evs, metric, <<segs[i]>>, w)]

\* parseCompare: a period and the one before it.
CompareWindows(now) ==
    LET w == AskWindows(now)
    IN [week  |-> <<w.thisWeek, w.lastWeek>>,
        today |-> <<w.today, w.yesterday>>,
        day   |-> <<w.yesterday, [from |-> w.yesterday.from - Day, to |-> w.yesterday.from]>>]

\* answerCompareWindows: each period has a pool of its own; two values of one
\* property are two comparisons.
AskCompare(evs, metric, segs, pair) ==
    LET Compare(chosen) == [i \in {1, 2} |-> Asked(evs, metric, chosen, pair[i])]
    IN IF SameProperty(segs) THEN <<Compare(<<segs[1]>>), Compare(<<segs[2]>>)>>
       ELSE <<Compare(segs)>>

\* funnelOver: who started and who finished.
FunnelOver(evs, steps) ==
    LET counts == Funnel(evs, [steps |-> steps, window |-> Week, order |-> "ordered", exclude |-> {}])
    IN [started |-> counts[1], done |-> counts[Len(steps)]]

AskCompareFunnel(evs, steps, pair) == [i \in {1, 2} |-> FunnelOver(Scope(evs, pair[i]), steps)]

\* answerRetentionVsSeg, one side.
AskRetentionVs(evs, f, w, n, now) ==
    PeriodN(Cohorts(Scope(Narrowed(evs, f), w), n, Day, FALSE), n, now, Day)

AskMeasure(evs, f, name, m, w) ==
    ComputeMeasure(IF f.plan = NoPlan THEN evs ELSE Narrowed(evs, f), name, m, w.from, w.to)

-----------------------------------------------------------------------------
\* Counts over a window.

\* answerActive.
AskActive(evs, w, now) ==
    [users |-> Count(UsersOf(Scope(evs, w))), recent |-> ActiveSince(evs, now, Week \div Day)]

\* answerActiveUsers and answerStickiness count back from this instant.
AskActiveUsers(evs, now, length) == Count(UsersOf(Matching(evs, "any", now - length, Unbounded)))

AskStickiness(evs, now) ==
    [daily |-> AskActiveUsers(evs, now, Day), monthly |-> AskActiveUsers(evs, now, Month)]

AskWeb(evs, w) == Volume(Named(Scope(evs, w), PageView))

AskPage(evs, w, page) == Volume(Carrying(Named(Scope(evs, w), PageView), page))

AskTopPages(evs, w) ==
    LET views == Named(Scope(evs, w), PageView)
    IN [page \in {e.plan : e \in ToSet(views)} |-> Len(Carrying(views, page))]

\* answerPropBreakdownWith: nothing if no event carries the property.
AskPropBreakdown(evs, w) ==
    LET values == {e.plan : e \in ToSet(Scope(evs, w))}
    IN [v \in (IF values = {NoPlan} THEN {} ELSE values) |-> Volume(Carrying(Scope(evs, w), v))]

\* answerWebDim and answerEntryPages: each visitor under the first page seen, if it
\* carries anything.
AskWebDim(evs, w) ==
    LET views  == Named(Scope(evs, w), PageView)
        landed == [u \in UsersOf(views) |-> Earliest(Of(views, u)).plan]
    IN [v \in Range(landed) \ {NoPlan} |-> Count({u \in DOMAIN landed : landed[u] = v})]

\* answerGeo and answerAIReferrers: a visitor under every value seen, on pages and
\* on any event.
AskGeo(evs, w) ==
    LET views == Named(Scope(evs, w), PageView)
    IN [v \in {e.plan : e \in ToSet(views)} \ {NoPlan} |-> Count(UsersOf(Carrying(views, v)))]

AskAIReferrers(evs, w, values) ==
    LET seen == {e.plan : e \in ToSet(Scope(evs, w))} \cap values
    IN [v \in seen |-> Count(UsersOf(Carrying(Scope(evs, w), v)))]

\* answerSplit: organic is who was never seen on a paid page.
AskSplit(evs, w, paid) ==
    LET views == Named(Scope(evs, w), PageView)
        bought == Count(UsersOf(Carrying(views, paid)))
    IN [paid |-> bought, organic |-> Count(UsersOf(views)) - bought]

-----------------------------------------------------------------------------
\* Days and hours.

\* No window means the last thirty days from this instant.
Recent(w, now) == IF w = AllTime THEN RollingDays(Month \div Day, now) ELSE w

PerDay(evs, metric, d) == MetricCount(SelectSeq(evs, LAMBDA e : Period(e.at, Day) = d), metric)

\* answerPeakDay: the largest day with an event, the latest among equals.
AskPeakDay(evs, metric, w) ==
    LET kept == Scope(evs, w)
        Is(d) == PerDay(kept, metric, d)
        best == {d \in Periods(kept, Day) : \A c \in Periods(kept, Day) : Is(c) <= Is(d)}
    IN IF kept = <<>> THEN {} ELSE {<<Max(best), Is(Max(best))>>}

\* answerTroughDay: from the first day with an event, the day in progress left out
\* if there is another.
AskTroughDay(evs, metric, w) ==
    LET kept  == Scope(evs, w)
        first == Min(Periods(kept, Day))
        last  == Period(w.to - 1, Day)
        days  == first .. IF w.to % Day # 0 /\ last > first THEN last - 1 ELSE last
        Is(d) == PerDay(kept, metric, d)
        worst == {d \in days : \A c \in days : Is(d) <= Is(c)}
    IN IF kept = <<>> THEN {} ELSE {<<Max(worst), Is(Max(worst))>>}

\* answerHours: the first of the busiest hours.
AskHours(evs, w) ==
    LET kept  == Scope(evs, w)
        At(h) == Len(SelectSeq(kept, LAMBDA e : e.at % Day = h))
        best  == Min({h \in 0 .. Day - 1 : \A i \in 0 .. Day - 1 : At(i) <= At(h)})
    IN IF kept = <<>> THEN {} ELSE {<<best, At(best)>>}

\* lifecycleAnchor: a window that does not start at midnight is answered for the
\* day it ends in.
LifecycleAnchor(w) == IF w.from % Day = 0 THEN Period(w.from, Day) ELSE Period(w.to - 1, Day)

\* lifecycleDayAt: the report ends on the last day with an event.
AskLifecycle(evs, w) ==
    LET last == Max(Periods(evs, Day))
        d    == LifecycleAnchor(w)
    IN IF evs # <<>> /\ d \in last - LifecycleDays + 1 .. last THEN {Lifecycle(evs, d)} ELSE {}

AskRetentionBucketed(evs, w, n, length, rolling, now) ==
    PeriodN(Cohorts(Scope(evs, w), n, length, rolling), n, now, length)

-----------------------------------------------------------------------------
\* Conversion and journeys.

\* answerConvBy: a visitor counts under every value carried.
AskConvBy(evs, w, name) ==
    LET kept      == Scope(evs, w)
        converted == UsersOf(Named(kept, name))
        Under(v)  == UsersOf(Carrying(kept, v))
    IN [v \in {e.plan : e \in ToSet(kept)} \ {NoPlan} |->
            [users |-> Count(Under(v)), did |-> Count(Under(v) \cap converted)]]

\* answerConvBySteps; rows nobody entered are left out, as are those of no value.
AskConvBySteps(evs, w, steps) ==
    LET q == [steps |-> steps, window |-> Week, order |-> "ordered", exclude |-> {}]
    IN RestrictDomain(Segments(StampFirstTouch(Scope(evs, w)), q), LAMBDA v : v # NoPlan)

\* answerConvByQ: steps make a funnel of it, an acquisition property a channel.
AskConvByQ(evs, w, steps, kind) ==
    CASE Len(steps) >= 2        -> AskConvBySteps(evs, w, steps)
      [] kind = "acquisition"   -> AskChannels(evs, w, steps[1])
      [] OTHER                  -> AskConvBy(evs, w, steps[1])

AskPaths(evs, w, name) == [depth \in 1 .. 3 |-> After(Scope(evs, w), name, depth)]

\* brief.BuildCtx, and answerBrief from it: so many days to this instant, which
\* includes what is dated later, and as many before.
Pulse(evs, days, now) ==
    [current |-> Volume(Matching(evs, "any", now - days * Day, Unbounded)),
     prior   |-> Volume(Matching(evs, "any", now - 2 * days * Day, now - days * Day))]

-----------------------------------------------------------------------------
\* answer: a recognised question is [intent, metric, steps, segs, w, compare, trend,
\* versus], compare a pair of windows or <<>>.  These intents keep one segment as a
\* filter on who, or on what, is reported; paths are asked about before any segment.
OfPeople == {"funnel", "retention", "stickiness", "lifecycle"}
OfEvents == {"geo", "webDim", "entryPages", "pages", "hours", "peakDay"}

\* answerScopedIntent; anything else is the count of an event.
Reported(evs, q, now) ==
    CASE q.intent = "retention"  -> IF q.w # AllTime /\ q.w.to - q.w.from <= 2 * Day
                                    THEN <<Count(AskReturning(evs, q.w))>>
                                    ELSE <<AskRetention(evs, q.w, 1, now)>>
      [] q.intent = "stickiness" -> <<AskStickiness(evs, now)>>
      [] q.intent = "lifecycle"  -> IF q.w # AllTime /\ q.w.to - q.w.from <= 2 * Day
                                    THEN SetToSeq(AskLifecycle(evs, q.w))
                                    ELSE <<AskLifecycleWeek(evs, now)>>
      [] q.intent = "funnel"     -> <<FunnelOver(Scope(evs, q.w), q.steps)>>
      [] q.intent = "convBy"     -> <<AskConvByQ(evs, q.w, q.steps, "attribute")>>
      [] q.intent = "geo"        -> <<AskGeo(evs, q.w)>>
      [] q.intent \in {"webDim", "entryPages"} -> <<AskWebDim(evs, q.w)>>
      [] q.intent = "pages"      -> <<AskTopPages(evs, q.w)>>
      [] q.intent = "hours"      -> SetToSeq(AskHours(evs, q.w))
      [] q.intent = "peakDay"    -> SetToSeq(AskPeakDay(evs, q.metric, q.w))
      [] q.intent = "sources"    -> <<AskSources(evs, q.w)>>
      [] q.intent = "channels"   -> <<AskChannels(evs, q.w, q.metric)>>
      [] q.intent = "web"        -> <<AskWeb(evs, q.w)>>
      [] q.intent = "active"     -> <<AskActive(evs, q.w, now)>>
      [] OTHER                   -> <<Asked(evs, q.metric, <<>>, q.w)>>

\* Two segments: compared, unless they are of two properties and nothing says so.
OfTwo(evs, q, now) ==
    IF q.intent = "retention" THEN [i \in {1, 2} |-> AskRetentionVs(evs, q.segs[i], q.w, 1, now)]
    ELSE IF SameProperty(q.segs) /\ q.intent = "funnel" THEN <<AskConvBySteps(evs, q.w, q.steps)>>
    ELSE IF SameProperty(q.segs) \/ q.versus THEN AskVersus(evs, q.metric, q.segs, q.w)
    ELSE <<Asked(evs, q.metric, q.segs, q.w)>>

OfOne(evs, q, now) ==
    IF q.intent \in OfPeople THEN Reported(ScopeUsers(evs, q.segs[1].plan), q, now)
    ELSE IF q.intent \in OfEvents THEN Reported(Carrying(evs, q.segs[1].plan), q, now)
    ELSE <<AskSegment(evs, q.metric, q.segs[1], q.w)>>

\* Two segments make a trend only if both narrow it, no segment only of an event.
Trendable(q) ==
    /\ Len(q.segs) = 1 \/ q.metric # "visitors"
    /\ Len(q.segs) = 2 => ~SameProperty(q.segs) /\ ~q.versus

Answer(evs, q, now) ==
    IF q.intent = "paths" THEN <<AskPaths(evs, q.w, q.metric)>>
    ELSE IF q.compare # <<>> /\ q.intent = "funnel" THEN AskCompareFunnel(evs, q.steps, q.compare)
    ELSE IF q.compare # <<>> THEN AskCompare(evs, q.metric, q.segs, q.compare)
    ELSE IF q.trend /\ Trendable(q)
    THEN LET w == Recent(q.w, now)
         IN <<AskTrend(Pool(evs, q.metric, q.segs, w), q.metric, w,
                       IF w.to - w.from <= 2 * Week THEN Day ELSE Week)>>
    ELSE IF q.segs = <<>> \/ q.intent = "convBy" THEN Reported(evs, q, now)
    ELSE IF Len(q.segs) = 2 THEN OfTwo(evs, q, now) ELSE OfOne(evs, q, now)
=============================================================================

-------------------------------- MODULE Surfaces --------------------------------
(***************************************************************************)
(* The surfaces that put a question to the reports: the HTTP API           *)
(* (internal/api), the MCP tools (internal/mcp) and the ask bar            *)
(* (api/ask.go, api/ask_scope.go), each with its own reading of the window *)
(* and of the filter, and its own order of applying them.                  *)
(*                                                                         *)
(* A filter is [plan, kind]: "acquisition" and "attribute" properties say  *)
(* something of the visitor, an "event" property of the event; a plan of   *)
(* NoPlan is no filter.  `now` is when the question is put.  A request the *)
(* handlers refuse has no answer here.                                     *)
(***************************************************************************)
EXTENDS Reports

CONSTANT PageView   \* $pageview

\* A window is [from, to), as in Reports.
AllTime == [from |-> Unbounded, to |-> Unbounded]

\* web.CalendarDays: the last n days are n calendar days, the one in progress last.
CalendarDays(n, now) == [from |-> (Period(now, Day) - (n - 1)) * Day, to |-> now]

RollingDays(n, now) == [from |-> now - n * Day, to |-> now]

\* Bounds that are given do not reach past now; none at all is all time.
Between(from, to, now) ==
    IF from = Unbounded /\ to = Unbounded THEN AllTime
    ELSE [from |-> from, to |-> IF to = Unbounded \/ to > now THEN now ELSE to]

\* parseTrendWindow: a number of days is the window, whatever the bounds.
ApiWindow(r, now) == IF r.days > 0 THEN CalendarDays(r.days, now) ELSE Between(r.from, r.to, now)

\* mcpWindow: the bounds are the window, the days stand for those not given.
McpWindow(r, now) ==
    LET days == IF r.days > 0 THEN CalendarDays(r.days, now) ELSE AllTime
        Or(given, other) == IF given = Unbounded THEN other ELSE given
    IN Between(Or(r.from, days.from), Or(r.to, days.to), now)

Scope(evs, w) == Matching(evs, "any", w.from, w.to)

-----------------------------------------------------------------------------
\* The HTTP API.

\* filtered: by the event, or by the visitor it belongs to.
Filtered(evs, f) ==
    IF f.plan = NoPlan THEN evs
    ELSE Carrying(IF f.kind = "event" THEN evs ELSE StampForFilters(evs, f.plan), f.plan)

\* funnelScoped: everything of who has an event that matches.
FunnelScoped(evs, f) == IF f.plan = NoPlan THEN evs ELSE ScopeUsers(evs, f.plan)

\* No window for converting means seven days.
Timed(q) == [q EXCEPT !.window = IF @ = 0 THEN Week ELSE @]

ApiFunnel(evs, f, w, q) == Funnel(Scope(FunnelScoped(evs, f), w), Timed(q))

ApiTrend(evs, f, w, name, unique) == Daily(Filtered(evs, f), name, w.from, w.to, unique)

Volume(evs) == [events |-> Len(evs), users |-> Count(UsersOf(evs))]

\* apiBreakdown: one row for each value.
ApiBreakdown(evs, f, w, name) ==
    LET asked == Matching(Filtered(evs, f), name, w.from, w.to)
    IN [plan \in {asked[i].plan : i \in DOMAIN asked} |-> Volume(Carrying(asked, plan))]

\* apiWho: the people behind a point of a trend, a row of a breakdown (nobody is
\* behind the row of the events that carry nothing), a step of a funnel.
WhoOn(evs, f, w, name, d) ==
    UsersOf(SelectSeq(Matching(Filtered(evs, f), name, w.from, w.to),
                      LAMBDA e : Period(e.at, Day) = d))

WhoCarries(evs, f, w, name, plan) ==
    IF plan = NoPlan THEN {}
    ELSE UsersOf(Carrying(Matching(Filtered(evs, f), name, w.from, w.to), plan))

\* A window with no start is ignored, and so is what the funnel excludes.
WhoAt(evs, f, w, q, k, state) ==
    LET own       == FunnelScoped(evs, f)
        kept      == IF w.from = Unbounded THEN own ELSE Scope(own, w)
        asked     == [Timed(q) EXCEPT !.exclude = {}]
        Got(u)    == FurthestStep(Of(kept, u), asked)
    IN {u \in UsersOf(kept) :
            CASE state = "reached"   -> Got(u) >= k
              [] state = "converted" -> Got(u) = Len(q.steps)
              [] state = "dropped"   -> Got(u) = k /\ k < Len(q.steps)}

\* apiRows: the events behind a number, of one day if it is given, and the number
\* counted again over them.
ApiRows(evs, f, w, name, d) ==
    Volume(SelectSeq(Scope(Filtered(evs, f), w),
                     LAMBDA e : e.name = name /\ (d # Unbounded => Period(e.at, Day) = d)))

\* apiErrors: the last seven days unless told otherwise, next to as long before.
ApiErrors(evs, f, w, name, now) ==
    LET to   == IF w.to = Unbounded THEN now ELSE w.to
        from == IF w.from = Unbounded THEN to - Week ELSE w.from
    IN Errors(Filtered(evs, f), name, from, to, from - (to - from))

\* web.ComputeRange: a visitor counts once, under the first page seen in the window.
WebOverview(evs, w) ==
    LET views   == Matching(evs, PageView, w.from, w.to)
        came    == [u \in UsersOf(views) |-> Earliest(Of(views, u)).plan]
    IN [views    |-> Len(views),
        visitors |-> Count(DOMAIN came),
        by       |-> [c \in Range(came) |-> Count({u \in DOMAIN came : came[u] = c})]]

-----------------------------------------------------------------------------
\* The MCP tools.  trends, breakdown and paths are the handlers above.

\* The funnel tool takes the window first, then the people.
McpFunnel(evs, f, w, q) == Funnel(FunnelScoped(Scope(evs, w), f), Timed(q))

\* rows_behind and errors take n days back from this instant.
McpRows(evs, f, n, now, name, d) == ApiRows(evs, f, RollingDays(n, now), name, d)

McpErrors(evs, f, n, now, name) == ApiErrors(evs, f, RollingDays(n, now), name, now)

-----------------------------------------------------------------------------
\* The ask bar.  Weeks start on a Monday, here at a multiple of Week.

\* parseWindow.
AskWindows(now) ==
    LET today  == Period(now, Day) * Day
        monday == Period(now, Week) * Week
    IN [today     |-> [from |-> today, to |-> now],
        yesterday |-> [from |-> today - Day, to |-> today],
        thisWeek  |-> [from |-> monday, to |-> now],
        lastWeek  |-> [from |-> monday - Week, to |-> monday],
        pastWeek  |-> CalendarDays(Week \div Day, now)]

\* metricCount: visitors are who saw a page, or anybody if nothing saw one.
MetricCount(evs, metric) ==
    IF metric # "visitors" THEN Len(Named(evs, metric))
    ELSE IF Named(evs, PageView) # <<>> THEN Count(UsersOf(Named(evs, PageView)))
    ELSE Count(UsersOf(evs))

\* firstTouchSeg: the visitors whose first page of the window carries the value;
\* none if no such page carries any.
Landings(evs) ==
    LET seen == IF Named(evs, PageView) = <<>> THEN evs ELSE Named(evs, PageView)
    IN [u \in UsersOf(seen) |-> Earliest(Of(seen, u)).plan]

\* segPoolIn: visitors by where they came from first, an event by whose it is,
\* anything else by what it carries.
SegPool(evs, metric, f, w) ==
    LET landed == Landings(Scope(evs, w))
        landing == \E u \in DOMAIN landed : landed[u] # NoPlan
    IN CASE metric = "visitors" /\ f.kind = "acquisition" /\ landing ->
                SelectSeq(Scope(evs, w), LAMBDA e : e.user \in DOMAIN landed /\ landed[e.user] = f.plan)
         [] metric # "visitors" /\ f.kind # "event" -> ScopeUsers(evs, f.plan)
         [] OTHER -> Carrying(evs, f.plan)

AskSegment(evs, metric, f, w) == MetricCount(Scope(SegPool(evs, metric, f, w), w), metric)

\* answerTrendText: buckets from the start of the window, the last cut short.
AskTrend(evs, metric, w, length) ==
    LET starts == {t \in w.from .. w.to - 1 : (t - w.from) % length = 0}
        Until(t) == IF t + length > w.to THEN w.to ELSE t + length
    IN [t \in starts |-> MetricCount(Scope(Scope(evs, w), [from |-> t, to |-> Until(t)]), metric)]

AskCount(evs, name, w, unique) == Daily(Scope(evs, w), name, w.from, w.to, unique).total

AskFunnel(evs, f, w, steps) ==
    Funnel(Scope(FunnelScoped(evs, f), w),
           [steps |-> steps, window |-> Week, order |-> "ordered", exclude |-> {}])

\* answerReturning: active in the window and first seen before it.
AskReturning(evs, w) ==
    {u \in UsersOf(Scope(evs, w)) : Earliest(Of(evs, u)).at < w.from}

\* answerLifecycleWeek: the last seven days from this instant against the seven before.
AskLifecycleWeek(evs, now) ==
    LET active == UsersOf(Matching(evs, "any", now - Week, Unbounded))
        prior  == UsersOf(Matching(evs, "any", now - 2 * Week, now - Week))
        old    == {u \in active : Earliest(Of(evs, u)).at < now - Week}
    IN [new |-> Count(active \ old), returning |-> Count(old), dormant |-> Count(prior \ active)]

\* answerSources: the first page of the window; with no pages at all, the first
\* event that carries anything.
AskSources(evs, w) ==
    LET pages  == Matching(evs, PageView, w.from, w.to)
        seen   == IF pages # <<>> THEN pages
                  ELSE SelectSeq(Scope(evs, w), LAMBDA e : e.plan # NoPlan)
        source == [u \in UsersOf(seen) |-> Earliest(Of(seen, u)).plan]
    IN [c \in Range(source) |-> Count({u \in DOMAIN source : source[u] = c})]

\* answerChannels and answerConvByChannel: the channel of the first event of the window.
AskChannels(evs, w, name) ==
    LET kept    == Scope(evs, w)
        channel == [u \in UsersOf(kept) |-> Earliest(Of(kept, u)).plan]
        From(c) == {u \in DOMAIN channel : channel[u] = c}
    IN [c \in Range(channel) |->
            [users     |-> Count(From(c)),
             converted |-> Count(From(c) \cap UsersOf(Named(kept, name)))]]

\* answerVisitorShare: of the visitors, who did it.
AskShare(evs, w, name) ==
    LET kept     == Scope(evs, w)
        visitors == UsersOf(IF Named(kept, PageView) = <<>> THEN kept ELSE Named(kept, PageView))
    IN [did |-> Count(visitors \cap UsersOf(Named(kept, name))), of |-> Count(visitors)]

\* answerRetention: cohorts of the people first active in the window.
AskRetention(evs, w, n, now) == PeriodN(Cohorts(Scope(evs, w), n, Day, FALSE), n, now, Day)
=============================================================================

--------------------------------- MODULE Tools ---------------------------------
(***************************************************************************)
(* The tools of the MCP server (internal/mcp/mcp.go) and the handlers of   *)
(* the HTTP API beside them, request by request: the numbers a request     *)
(* carries, the window it means, the filter, the grain, and the report it  *)
(* is handed to.  With them the reports nothing else asks for: the rows of *)
(* internal/web and internal/groups, the walks of internal/paths from page *)
(* to page, the lists of internal/person, and internal/formula.            *)
(*                                                                         *)
(* A request is a record of what is given; a number or a bound that is not *)
(* given is Unbounded.  What a handler refuses is Refused.                 *)
(***************************************************************************)
EXTENDS Answers

CONSTANTS
    Preferred,  \* pickHeadlineEvent: the conventional conversion events, in order
    Live,       \* how long a page view keeps a visitor on the site
    Refused     \* the answer to what a handler refuses

-----------------------------------------------------------------------------
\* Numbers.

\* posIntParam: most is 0 if there is no limit.
ApiNumber(n, default, most) ==
    CASE n = Unbounded           -> default
      [] n <= 0                  -> Refused
      [] most > 0 /\ n > most    -> most
      [] OTHER                   -> n

\* A tool takes no number, and one that is not positive, for the default.
McpNumber(n, default, most) ==
    IF n = Unbounded \/ n <= 0 THEN default ELSE ApiNumber(n, default, most)

\* The default and the most of a number: days of retention, of the lifecycle, of visits
\* and of the web, steps of a path, rows of people and of groups, recent events.
Limits == [retention |-> <<7, 90>>, lifecycle |-> <<30, 180>>, sessions |-> <<7, 0>>,
           paths |-> <<3, 10>>, people |-> <<50, 0>>]

ApiLimits == Limits @@ [web |-> <<30, 365>>, recent |-> <<50, 500>>]

McpLimits == Limits @@ [web |-> <<30, 0>>, recent |-> <<20, 0>>]

-----------------------------------------------------------------------------
\* The tools.  A filter is [plan, kind], as in Surfaces.

\* The trends tool, and apiTrends: measure is "dau", "wau", "mau", a measure of the
\* amount, or "count".
TrendsOver(evs, q, w) ==
    LET days == [dau |-> 1, wau |-> Week \div Day, mau |-> Month \div Day]
    IN CASE q.measure \in DOMAIN days          -> XAU(evs, q.name, w.from, w.to, days[q.measure])
         [] q.measure # "count" /\ q.split     -> ComputeMeasureBreakdown(evs, q.name, q.measure, w.from, w.to)
         [] q.measure # "count"                -> ComputeMeasure(evs, q.name, q.measure, w.from, w.to)
         [] q.split                            -> Breakdown(evs, q.name, w.from, w.to, q.unique)
         [] q.length = Week                    -> Weekly(evs, q.name, w.from, w.to, q.unique)
         [] OTHER                              -> Daily(evs, q.name, w.from, w.to, q.unique)

McpTrends(evs, f, r, q, now) == TrendsOver(Filtered(evs, f), q, McpWindow(r, now))

\* The breakdown tool refuses a property no event of the answer carries.
McpBreakdown(evs, f, r, name, now) ==
    LET w    == McpWindow(r, now)
        rows == ApiBreakdown(evs, f, w, name)
    IN IF DOMAIN rows = {NoPlan} THEN Refused ELSE rows

\* regroup: people, or the accounts they belong to.
Grain(evs, accounts) == IF accounts THEN Regroup(evs).events ELSE evs

\* CapSegments: the largest at the first step, and how many are left out.  Which of
\* those as large is left open.
Capped(segments, limit) ==
    LET Larger(v) == {x \in DOMAIN segments : segments[x][1] > segments[v][1]}
        Equal(v)  == {x \in DOMAIN segments : segments[x][1] = segments[v][1]}
    IN [sure    |-> {v \in DOMAIN segments : Count(Larger(v)) + Count(Equal(v)) <= limit},
        maybe   |-> {v \in DOMAIN segments : Count(Larger(v)) < limit},
        omitted |-> Max({0, Count(DOMAIN segments) - limit})]

\* The funnel tool with a breakdown: the window, the people, the grain, the segments.
McpFunnelBreakdown(evs, f, r, accounts, q, now) ==
    LET scoped == Grain(FunnelScoped(Scope(evs, McpWindow(r, now)), f), accounts)
    IN Segments(StampFirstTouch(scoped), Timed(q))

\* apiFunnel with a breakdown: the people before the window.
ApiFunnelBreakdown(evs, f, r, accounts, q, now) ==
    LET scoped == Grain(Scope(FunnelScoped(evs, f), ApiWindow(r, now)), accounts)
    IN Segments(StampFirstTouch(scoped), Timed(q))

\* Summarize: a percentage, rounded, for each period some cohort is old enough for.
RetentionPeriods(length) == IF length = Week THEN {1, 2, 4} ELSE IF length = Month THEN {1, 2, 3} ELSE {1, 7, 30}

Percent(part, whole) == (200 * part + whole) \div (2 * whole)

Summarize(evs, most, length, rolling, now) ==
    LET cohorts == Cohorts(evs, most, length, rolling)
        Of1(n)  == PeriodN(cohorts, n, now, length)
        old     == {n \in RetentionPeriods(length) : n <= most /\ Of1(n).size > 0}
    IN [users   |-> MapThenSumSet(LAMBDA c : cohorts[c].size, DOMAIN cohorts),
        percent |-> [n \in old |-> Percent(Of1(n).retained, Of1(n).size)],
        shown   |-> Shown(cohorts, now, length)]

\* The retention tool and apiRetention, by a filter, of people or of accounts.
RetentionTool(evs, f, accounts, most, length, rolling, now) ==
    Summarize(Grain(Filtered(evs, f), accounts), most, length, rolling, now)

\* The lifecycle tool and apiLifecycle: so many days, to the last with an event.
LifecycleTool(evs, f, n) ==
    LET kept == Filtered(evs, f)
        last == Max(Periods(kept, Day))
    IN IF kept = <<>> THEN <<>> ELSE [d \in last - n + 1 .. last |-> Lifecycle(kept, d)]

\* The stickiness tool and apiStickiness.
StickinessTool(evs, f, now) ==
    [n \in {1, Week \div Day, Month \div Day} |-> ActiveSince(Filtered(evs, f), now, n)]

\* The tools of visits: the list and, by the same filter, what a row opens.
SessionsTool(evs, f, n, now) == SessionRows(Filtered(evs, f), now - n * Day)

TimelineTool(evs, f, user, handle) == Opened(Filtered(evs, f), user, handle)

\* toolOverview: strictly after a week ago, and after two.
Overview(evs, now) ==
    LET week  == SelectSeq(evs, LAMBDA e : e.at > now - Week)
        prior == SelectSeq(evs, LAMBDA e : now - 2 * Week < e.at /\ e.at <= now - Week)
        names == {e.name : e \in ToSet(evs)}
        usual == SelectSeq(Preferred, LAMBDA n : n \in names)
        Volume1(n) == Len(Named(week, n))
        \* pickHeadlineEvent; the first of the largest in the alphabet is left open.
        best  == {n \in names \ {PageView, Identify} : Volume1(n) > 0
                      /\ \A m \in names \ {PageView, Identify} : Volume1(m) <= Volume1(n)}
    IN [users |-> Count(UsersOf(evs)), active |-> Count(UsersOf(week)), before |-> Count(UsersOf(prior)),
        events |-> Len(week), total |-> Len(evs),
        headline |-> IF usual # <<>> THEN {Head(usual)} ELSE best]

-----------------------------------------------------------------------------
\* explore.go.

\* usage: the last thirty days, the instant they start with included, and the month.
Usage(evs, now) ==
    [total |-> Len(evs), users |-> Count(UsersOf(evs)),
     recent |-> Len(Matching(evs, "any", now - Month, Unbounded)),
     month  |-> Len(SelectSeq(evs, LAMBDA e : Period(e.at, Month) = Period(now, Month)))]

\* Mutant: the event that came first goes, whether or not it is the oldest.
KeptLatest(heap, e, limit) == IF Len(heap) < limit THEN Append(heap, e) ELSE Append(Tail(heap), e)

\* recentEvents: a heap of the newest; an event displaces the oldest if it is newer.
Kept(heap, e, limit) ==
    LET oldest == SelectInSeq(heap, LAMBDA x : \A y \in ToSet(heap) : x.at <= y.at)
    IN IF Len(heap) < limit THEN Append(heap, e)
       ELSE IF e.at > heap[oldest].at THEN [heap EXCEPT ![oldest] = e] ELSE heap

RecentEvents(evs, limit) ==
    SortSeq(FoldLeft(LAMBDA heap, e : Kept(heap, e, limit), <<>>, evs), LAMBDA d, e : d.at > e.at)

\* The recent_events tool.
McpRecentEvents(evs, limit) ==
    LET sorted == SortSeq(evs, LAMBDA d, e : d.at > e.at)
    IN SubSeq(sorted, 1, Min({limit, Len(sorted)}))

\* userProfile, of both surfaces: the value of the last event that carries one, any of
\* those of one instant.  Every event counts, and what is inside a $set bag does not.
UserProfile(evs, user) ==
    LET own      == ByTime(Of(evs, user))
        carrying == SelectSeq(own, LAMBDA e : e.plan # NoPlan)
        last     == {e \in ToSet(carrying) : \A d \in ToSet(carrying) : d.at <= e.at}
    IN [events |-> Len(own), first |-> own[1].at, last |-> own[Len(own)].at,
        traits |-> {e.plan : e \in last},
        counts |-> [n \in {e.name : e \in ToSet(own)} |-> Len(Named(own, n))]]

\* apiMeta: the values seen in the last thirty days, and how often.
PropertyCatalog(evs, now) ==
    LET recent == Matching(evs, "any", now - Month, Unbounded)
    IN [v \in {e.plan : e \in ToSet(recent)} \ {NoPlan} |-> Len(Carrying(recent, v))]

-----------------------------------------------------------------------------
\* person: the people tool and apiPeople.

Profiles(evs, f) ==
    LET kept == Filtered(evs, f)
    IN [u \in UsersOf(kept) |-> Profile(kept, u)]

\* List: the most recently seen first; the ids of one instant in some fixed order.
Listed(profiles, limit) ==
    LET Newer(u) == {x \in DOMAIN profiles : profiles[x].last > profiles[u].last}
    IN {u \in DOMAIN profiles : limit = 0 \/ Count(Newer(u)) < limit}

TraitValues(profiles) ==
    LET Holding(v) == {u \in DOMAIN profiles : profiles[u].trait.plan = v}
    IN [v \in {profiles[u].trait.plan : u \in DOMAIN profiles} \ {NoPlan} |-> Count(Holding(v))]

\* Traits, of the one trait: how many hold a value of it.
TraitHolders(profiles) == Count({u \in DOMAIN profiles : profiles[u].trait.plan # NoPlan})

MatchingPeople(profiles, v) == {u \in DOMAIN profiles : profiles[u].trait.plan = v}

-----------------------------------------------------------------------------
\* groups.Compute: an account is the value the events carry.
GroupsTool(evs, f, now) ==
    LET kept    == Filtered(evs, f)
        rows    == [v \in {e.plan : e \in ToSet(kept)} \ {NoPlan} |->
                        [events |-> Len(Carrying(kept, v)), users |-> Count(UsersOf(Carrying(kept, v))),
                         last   |-> Max({e.at : e \in ToSet(Carrying(kept, v))})]]
        Since(t) == Count({v \in DOMAIN rows : rows[v].last >= t})
    IN [rows |-> rows, total |-> Count(DOMAIN rows), week |-> Since(now - Week), month |-> Since(now - Month)]

-----------------------------------------------------------------------------
\* paths.Pages: from the first view of a page, the pages that follow, a page seen again
\* at once not counted.
Navigation(userViews) ==
    LET walked == ByTime(userViews)
    IN [i \in DOMAIN walked |-> walked[i].plan]

Collapsed(pages) ==
    FoldLeft(LAMBDA walk, p : IF Last(walk) = p THEN walk ELSE Append(walk, p), <<pages[1]>>, Tail(pages))

PagesTool(evs, start, depth) ==
    LET views   == SelectSeq(Named(evs, PageView), LAMBDA e : e.plan # NoPlan)
        \* What each visitor saw from the first view of the page on.
        pages   == [u \in UsersOf(views) |-> Navigation(Of(views, u))]
        started == {u \in DOMAIN pages : start \in ToSet(pages[u])}
        From(u) == LET at == SelectInSeq(pages[u], LAMBDA p : p = start)
                   IN Tail(Collapsed(SubSeq(pages[u], at, Len(pages[u]))))
        walk    == [u \in started |-> From(u)]
        At(d)   == {u \in started : d <= Len(walk[u])}
    IN [users  |-> Count(started),
        levels |-> [d \in 1 .. depth |->
                       [p \in {walk[u][d] : u \in At(d)} |-> Count({u \in At(d) : walk[u][d] = p})]]]

\* The paths tool and apiPaths.
PathsTool(evs, f, w, name, depth) ==
    LET scoped == Scope(Filtered(evs, f), w)
    IN [d \in 1 .. depth |-> After(scoped, name, d)]

-----------------------------------------------------------------------------
\* web.ComputeRange: the rows beside the totals of WebOverview.  A visit is a visitor's
\* day, for an SDK that sends no session.
Latest(evs) == evs[SelectInSeq(evs, LAMBDA e : \A d \in ToSet(evs) : e.at >= d.at)]

WebRows(evs, w) ==
    LET views  == Matching(evs, PageView, w.from, w.to)
        visits == {<<e.user, Period(e.at, Day)>> : e \in ToSet(views)}
        Seen(v) == SelectSeq(views, LAMBDA e : <<e.user, Period(e.at, Day)>> = v)
        \* Visits, and who made them, by the value of one of their views.
        By(Which(_)) ==
            LET of == [v \in visits |-> Which(Seen(v)).plan]
            IN [p \in Range(of) \ {NoPlan} |->
                   [events |-> Count({v \in visits : of[v] = p}),
                    users  |-> Count({v[1] : v \in {x \in visits : of[x] = p}})]]
    IN [pages   |-> [p \in {e.plan : e \in ToSet(views)} \ {NoPlan} |-> Volume(Carrying(views, p))],
        entries |-> By(Earliest),
        exits   |-> By(Latest),
        visits  |-> Count(visits),
        hours   |-> [h \in 0 .. Day - 1 |-> Len(SelectSeq(views, LAMBDA e : e.at % Day = h))]]

\* Who is on the site: never the end of a window that is over.
LiveNow(evs, w, now) ==
    Count(UsersOf(SelectSeq(Matching(evs, PageView, w.from, w.to),
                            LAMBDA e : now - Live <= e.at /\ e.at <= now)))

\* apiWeb and the web_overview tool.
WebTool(evs, f, n, now) == WebOverview(Filtered(evs, f), CalendarDays(n, now))

-----------------------------------------------------------------------------
\* formula.  A value is {} if there is none, or {<<numerator, denominator>>}.

Number(n) == {<<n, 1>>}

Arithmetic(op, x, y) ==
    CASE op = "+" -> <<x[1] * y[2] + y[1] * x[2], x[2] * y[2]>>
      [] op = "-" -> <<x[1] * y[2] - y[1] * x[2], x[2] * y[2]>>
      [] op = "*" -> <<x[1] * y[1], x[2] * y[2]>>
      [] op = "/" -> <<x[1] * y[2], x[2] * y[1]>>

\* An expression is <<op, left, right>> of names of series; nothing is divided by zero.
Evaluated(expr, env) ==
    {Arithmetic(expr[1], x, y) : <<x, y>> \in
        {p \in env[expr[2]] \X env[expr[3]] : expr[1] = "/" => p[2][1] # 0}}

\* Evaluate: bucket by bucket, over the buckets all series have.
Formula(expr, series) ==
    LET common == {d \in DOMAIN series[expr[2]] : d \in DOMAIN series[expr[3]]}
        points == [d \in common |-> Evaluated(expr, [k \in DOMAIN series |-> Number(series[k][d])])]
        without == {d \in common : points[d] = {}}
    IN IF common = {} THEN Refused
       ELSE [points |-> points, defined |-> Count(common \ without), undefined |-> Count(without)]

\* apiFormula: the last thirty days from this instant unless told otherwise.
ApiFormula(evs, f, w, expr, names, unique, now) ==
    LET to   == IF w.to = Unbounded THEN now ELSE w.to
        from == IF w.from = Unbounded THEN to - Month ELSE w.from
    IN Formula(expr, [k \in DOMAIN names |->
                         Daily(Filtered(evs, f), names[k], from, to, unique).points])
=============================================================================

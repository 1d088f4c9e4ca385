--------------------------------- MODULE Parity ---------------------------------
(***************************************************************************)
(* What the tools of the MCP server and the handlers of the API must say   *)
(* of one log, beside one another and beside the reports they stand on.    *)
(***************************************************************************)
EXTENDS Identity, Tools

Numbers == {Unbounded, -1, 0, 1, 10, 11, 90, 91, 180, 181, 365, 366, 500, 501}

\* What the API does not refuse, an assistant gets as many of: but for the most days
\* of the web and the recent events, which only the API limits.
NumbersAgree ==
    \A tool \in DOMAIN ApiLimits, n \in Numbers :
        LET api == ApiNumber(n, ApiLimits[tool][1], ApiLimits[tool][2])
            mcp == McpNumber(n, McpLimits[tool][1], McpLimits[tool][2])
        IN \/ api \in {mcp, Refused}
           \/ tool \in {"web", "recent"} /\ (n = Unbounded \/ n > ApiLimits[tool][2])

\* Active users of longer and longer spans, and those of a day beside the trend.
SpansAgree(daily, dau, wau, mau) ==
    /\ DOMAIN dau.points # {} => dau.points = daily.points
    /\ \A d \in DOMAIN dau.points : dau.points[d] <= wau.points[d] /\ wau.points[d] <= mau.points[d]

TrendTool(evs, f, r, name, measure, split, now) ==
    McpTrends(evs, f, r, [name |-> name, measure |-> measure, split |-> split, unique |-> TRUE, length |-> Day], now)

RowsAgree(rows, tool) == tool = IF DOMAIN rows = {NoPlan} THEN Refused ELSE rows

TrendToolAgrees(evs, f, r, name, now) ==
    LET Told(measure, split) == TrendTool(evs, f, r, name, measure, split, now)
    IN /\ SpansAgree(Told("count", FALSE), Told("dau", FALSE), Told("wau", FALSE), Told("mau", FALSE))
       /\ SumOf(Told("sum", TRUE), "total") = Told("sum", FALSE).all.total
       /\ RowsAgree(ApiBreakdown(evs, f, McpWindow(r, now), name), McpBreakdown(evs, f, r, name, now))
       /\ SumOf(PathsTool(evs, f, McpWindow(r, now), name, 2), "users") = 2 * Told("count", FALSE).total

\* Of so many segments n are shown, and no others might have been.
CutAgrees(cut, n, all) ==
    /\ Count(cut.sure) <= n /\ Min({n, all}) <= Count(cut.maybe)
    /\ cut.omitted = all - Min({n, all})

\* The segments of a funnel: people add up to it, and an account is one of its own.
SegmentsOf(segments, whole, accounts) ==
    /\ \A k \in DOMAIN whole : SumOf(segments, k) = whole[k]
    /\ \A v \in DOMAIN accounts, k \in DOMAIN whole : accounts[v][k] <= 1
    /\ \A n \in 1 .. 2 : CutAgrees(Capped(segments, n), n, Count(DOMAIN segments))

FunnelToolAgrees(evs, f, r, q, now) ==
    /\ SegmentsOf(ApiFunnelBreakdown(evs, f, r, FALSE, q, now), ApiFunnel(evs, f, ApiWindow(r, now), q),
                  ApiFunnelBreakdown(evs, f, r, TRUE, q, now))
    /\ f = Everyone \/ r.days = 0 => \A accounts \in BOOLEAN :
           ApiFunnelBreakdown(evs, f, r, accounts, q, now) = McpFunnelBreakdown(evs, f, r, accounts, q, now)

PercentOf(part) == IF part.size = 0 THEN {} ELSE {Percent(part.retained, part.size)}

\* Who stays, by a filter of people, and whose accounts they are.
KeptToolAgrees(evs, f, now, people, rolling, accounts) ==
    /\ f.kind = "attribute" => \A n \in DOMAIN people.percent :
           /\ PercentOf(AskRetentionVs(evs, f, AllTime, n, now)) = {people.percent[n]}
           /\ people.percent[n] <= rolling.percent[n]
    /\ people.users = Count(UsersOf(Filtered(evs, f)))
    /\ accounts.users = Count(PlansOf(StampFirstTouch(Filtered(evs, f))))

ActiveToolsAgree(evs, sticky, life) ==
    /\ sticky[1] <= sticky[Week \div Day] /\ sticky[Week \div Day] <= sticky[Month \div Day]
    /\ evs # <<>> => LET last == Max(Periods(evs, Day))
                     IN {life[last]} = AskLifecycle(evs, [from |-> last * Day, to |-> (last + 1) * Day])

\* The overview, the usage page and the people are of the same events.
OverviewAgrees(evs, now, over, usage, pulse) ==
    /\ over.events + Len(SelectSeq(evs, LAMBDA e : e.at = now - Week)) = pulse.current.events
    /\ over.active <= pulse.current.users
    /\ <<over.total, over.users>> = <<usage.total, usage.users>>
    /\ over.users = Count(DOMAIN Profiles(evs, Everyone))
    /\ over.events <= usage.recent
    /\ \A name \in over.headline : name # PageView /\ Named(evs, name) # <<>>

\* The newest events, the same instants whichever way they are picked.
RecentAgree(evs, n) ==
    LET api == RecentEvents(evs, n)
        mcp == McpRecentEvents(evs, n)
    IN [i \in DOMAIN api |-> api[i].at] = [i \in DOMAIN mcp |-> mcp[i].at]

\* The newest events of those that satisfy a condition.
NewestOf(S) == {e \in S : \A d \in S : d.at <= e.at}

\* A person on a page of their own and in the list.  The page takes the property
\* from every event and the list from what an event says of its person, so the two
\* agree on it while the last word on it, either way, is that of an $identify.
PersonAgrees(own, page, row) ==
    LET speaking == NewestOf({e \in own : e.plan # NoPlan \/ TraitOf(e) # NoPlan})
    IN /\ <<page.events, page.first, page.last>> = <<row.events, row.first, row.last>>
       /\ Total(page.counts) = page.events
       /\ speaking = {} => page.traits = {} /\ row.trait.plan = NoPlan
       /\ speaking # {} /\ (\A e \in speaking : e.name = Identify /\ e.plan # NoPlan) =>
              row.trait.plan \in page.traits

\* Who the list says has the value v is who was last said to have it.
PeopleToolsAgree(evs, profiles, values) ==
    /\ Total(values) = TraitHolders(profiles)
    /\ \A v \in DOMAIN values :
           /\ Count(MatchingPeople(profiles, v)) = values[v]
           /\ \A u \in MatchingPeople(profiles, v) :
                  v \in {TraitOf(e) : e \in NewestOf({e \in ToSet(Of(evs, u)) : TraitOf(e) # NoPlan})}
    /\ \A n \in 0 .. 2 : \A u \in DOMAIN profiles \ Listed(profiles, n) :
           Count({x \in DOMAIN profiles : profiles[x].last > profiles[u].last}) >= n

GroupsAgree(evs, f, groups, rows) ==
    /\ \A v \in DOMAIN rows \ {NoPlan} :
           <<groups.rows[v].events, groups.rows[v].users>> = <<rows[v].events, rows[v].users>>
    /\ groups.total = Count(DOMAIN rows \ {NoPlan})
    /\ groups.week <= groups.month /\ groups.month <= groups.total

\* Every row of the list of visits opens, under the same filter, on what it shows
\* and what else happened in its first second.
VisitToolsAgree(evs, f, cutoff, rows) ==
    \A row \in rows :
        /\ TimelineTool(evs, f, row.user, Unix(row.summary.start)) # {}
        /\ RowOpens(Filtered(evs, f), cutoff, row)

\* From a page on: whoever saw it, fewer at every further page, and never the page
\* again at once.
WalksNarrow(start, walks, carried) ==
    /\ walks.users = Count(carried)
    /\ start \notin DOMAIN walks.levels[1]
    /\ Total(walks.levels[1]) <= walks.users /\ Total(walks.levels[2]) <= Total(walks.levels[1])

\* The rows of the web are of its totals: views by page and by hour, visits by day,
\* and a visitor's first page is where one of the visits began.
WebRowsAgree(rows, web, pages, days) ==
    /\ \A v \in DOMAIN pages \ {NoPlan} : rows.pages[v] = pages[v]
    /\ Total(rows.hours) = web.views
    /\ rows.visits = Points(days)
    /\ SumOf(rows.exits, "events") <= rows.visits
    /\ \A v \in DOMAIN web.by \ {NoPlan} : web.by[v] <= rows.entries[v].users

LiveAgrees(live, w, web, now) == live <= web.visitors /\ (w.to <= now - Live => live = 0)

\* A quotient has no value exactly where what divides it is nothing.
QuotientAgrees(quotient, divisor) ==
    \/ quotient = Refused
    \/ /\ \A d \in DOMAIN quotient.points : quotient.points[d] = {} <=> divisor.points[d] = 0
       /\ quotient.defined + quotient.undefined = Count(DOMAIN quotient.points)

FilterAgrees(evs, f, now) ==
    /\ \A r \in [days : {0, 2}, from : {Unbounded}, to : {Unbounded}], name \in Names :
           TrendToolAgrees(evs, f, r, name, now)
    /\ \A r \in [days : {0, 2}, from : {Unbounded}, to : {Unbounded}], q \in Queries :
           FunnelToolAgrees(evs, f, r, q, now)
    /\ KeptToolAgrees(evs, f, now, RetentionTool(evs, f, FALSE, MaxPeriods, Day, FALSE, now),
                      RetentionTool(evs, f, FALSE, MaxPeriods, Day, TRUE, now),
                      RetentionTool(evs, f, TRUE, MaxPeriods, Day, FALSE, now))
    /\ ActiveToolsAgree(Filtered(evs, f), StickinessTool(evs, f, now), LifecycleTool(evs, f, LifecycleDays))
    /\ PeopleToolsAgree(Filtered(evs, f), Profiles(evs, f), TraitValues(Profiles(evs, f)))
    /\ GroupsAgree(evs, f, GroupsTool(evs, f, now), ApiBreakdown(evs, f, AllTime, "any"))
    /\ \A n \in 1 .. 2 : VisitToolsAgree(evs, f, now - n * Day, SessionsTool(evs, f, n, now))
    /\ \A n \in 1 .. 2 : WebTool(evs, f, n, now).visitors = ApiTrend(evs, f, CalendarDays(n, now), PageView, TRUE).total
    /\ \A a, b \in Names :
           QuotientAgrees(ApiFormula(evs, f, CalendarDays(2, now), <<"/", 1, 2>>, <<a, b>>, FALSE, now),
                          ApiTrend(evs, f, CalendarDays(2, now), b, FALSE))

\* An assistant and the API, asked for the same thing, say the same, and what each says
\* adds up to the report it is a part of: whichever of them takes the window, the people
\* or the account first, however it picks the newest, and wherever it cuts
\* (mcp.go:380, query_api.go:177, explore.go:130, paths.go:95, web.go:150).
ToolsAgree ==
    Len(log) + failures <= MaxCompared =>
        LET evs == Scan
        IN /\ evs = <<>> => NumbersAgree
           /\ \A now \in Moments :
                  /\ \A f \in {Everyone} \cup [plan : PlansOf(evs), kind : {"attribute", "event"}] :
                         FilterAgrees(evs, f, now)
                  /\ OverviewAgrees(evs, now, Overview(evs, now), Usage(evs, now), Pulse(evs, Week \div Day, now))
                  /\ \A v \in DOMAIN PropertyCatalog(evs, now) :
                         PropertyCatalog(evs, now)[v] = Len(Carrying(Scope(evs, [from |-> now - Month, to |-> Unbounded]), v))
                  /\ \A w \in {AskWindows(now).today, AskWindows(now).pastWeek, AskWindows(now).lastWeek} :
                         /\ WebRowsAgree(WebRows(evs, w), WebOverview(evs, w), ApiBreakdown(evs, Everyone, w, PageView),
                                         ApiTrend(evs, Everyone, w, PageView, TRUE))
                         /\ LiveAgrees(LiveNow(evs, w, now), w, WebOverview(evs, w), now)
           /\ \A n \in 1 .. 2 : RecentAgree(evs, n)
           /\ \A u \in UsersOf(evs) : PersonAgrees(ToSet(Of(evs, u)), UserProfile(evs, u), Profile(evs, u))
           /\ \A v \in PlansOf(Named(evs, PageView)) :
                  WalksNarrow(v, PagesTool(evs, v, 2), WhoCarries(evs, Everyone, AllTime, PageView, v))
=============================================================================

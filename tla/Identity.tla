------------------------------- MODULE Identity -------------------------------
(***************************************************************************)
(* What the reports say of the log, read through the alias map.            *)
(***************************************************************************)
EXTENDS Aliases, Answers

CONSTANTS
    Bounds,     \* bounds of the windows asked for
    Moments,    \* when the surfaces are asked
    Queries,    \* funnels asked for
    MaxPeriods, \* periods of a retention grid
    MaxCompared \* bound: events and failures of a log the reports are compared on

ASSUME QuestionsAssumption ==
    /\ \A q \in Queries : Len(q.steps) >= 2 /\ \A i, j \in DOMAIN q.steps :
           q.steps[i] = q.steps[j] => i = j
    /\ Bounds \cup Moments \subseteq Nat /\ {MaxPeriods, MaxCompared} \subseteq Nat

-----------------------------------------------------------------------------
\* What the reports must say.

\* The reference for a funnel, in terms of times alone.  An event follows
\* another if it is later, or at the same time a later step.
Follows(q, d, e) ==
    \/ d.at < e.at
    \/ d.at = e.at /\ Rank(q.steps, d.name) < Rank(q.steps, e.name)

Within(q, d, e) == d.at <= e.at /\ (q.window > 0 => e.at - d.at <= q.window)

\* The ways to take k events of S for the first k steps, from an anchor.
Ways(S, q, anchor, k) ==
    {f \in [1 .. k -> S] :
        \A j \in 1 .. k :
            /\ f[j].name = q.steps[j]
            /\ Within(q, anchor, f[j]) /\ ~Follows(q, f[j], anchor)
            /\ q.order # "unordered" =>
                   /\ f[1] = anchor
                   /\ j < k => Follows(q, f[j], f[j + 1])
            /\ q.order = "strict" /\ j < k =>
                   \A e \in S : ~(f[j].at < e.at /\ e.at < f[j + 1].at)}

\* A step is reached from some anchor which no exclusion follows, before the
\* last step or at all.
Reaches(S, q, k) ==
    LET excluded == {e \in S : e.name \in q.exclude}
    IN \E anchor \in {e \in S : e.name \in ToSet(q.steps)} :
           \/ \E f \in Ways(S, q, anchor, Len(q.steps)) :
                  \A x \in excluded : x.at < anchor.at \/ \A j \in DOMAIN f : f[j].at <= x.at
           \/ Ways(S, q, anchor, k) # {} /\ \A x \in excluded : ~Within(q, anchor, x)

NoTies(evs) == \A i, j \in DOMAIN evs : evs[i].user = evs[j].user /\ evs[i].at = evs[j].at => i = j

\* A funnel counts whoever has a way through it, whatever order the storage
\* yields the events in, equal times included (funnel.go:551).
FunnelExact ==
    LET evs   == Scan
        users == UsersOf(evs)
    IN \A q \in Queries :
           (q.order = "strict" => NoTies(evs))
           => Funnel(evs, q) = [k \in DOMAIN q.steps |->
                                    Count({u \in users : Reaches(ToSet(Of(evs, u)), q, k)})]

Names == {k.name : k \in Kinds}

Windows == {<<from, to>> \in (Bounds \cup {Unbounded}) \X (Bounds \cup {Unbounded}) :
                Unbounded \in {from, to} \/ from < to}

Everyone == [plan |-> NoPlan, kind |-> "event"]

PlansOf(evs) == {e.plan : e \in ToSet(evs)} \ {NoPlan}

Total(f) == MapThenSumSet(LAMBDA v : f[v], DOMAIN f)

SumOf(f, field) == MapThenSumSet(LAMBDA v : f[v][field], DOMAIN f)

Points(series) == Total(series.points)

\* One window has one total at every grain, the bars add up to it unless a cap
\* cut them, a breakdown adds up to it, and active users do not depend on where
\* the window starts (trends.go:71, trends.go:104, trends.go:195, trends.go:779).
TrendsAgree(evs) ==
    \A name \in Names \cup {"any"}, w \in Windows :
        LET daily  == Daily(evs, name, w[1], w[2], FALSE)
            weekly == Weekly(evs, name, w[1], w[2], FALSE)
            split  == Breakdown(evs, name, w[1], w[2], FALSE)
        IN /\ daily.total = weekly.total
           /\ Cardinality(DOMAIN daily.points) <= MaxDayBuckets => Points(daily) = daily.total
           /\ Cardinality(DOMAIN weekly.points) < MaxWeekBuckets => Points(weekly) = weekly.total
           /\ SumOf(split, "total") = daily.total
           /\ Cardinality({DOMAIN split[v].points : v \in DOMAIN split}) <= 1
           /\ w[2] # Unbounded =>
                  XAU(evs, name, w[1], w[2], 2).total = XAU(evs, name, Unbounded, w[2], 2).total

\* Lifecycle, retention, trends, funnels, paths, cohorts and profiles count the
\* same people.
PeopleAgree(evs) ==
    LET all     == Daily(evs, "any", Unbounded, Unbounded, TRUE)
        grid    == Cohorts(evs, MaxPeriods, Day, FALSE)
        rolling == Cohorts(evs, MaxPeriods, Day, TRUE)
    IN /\ \A d \in DOMAIN all.points :
              LET life == Lifecycle(evs, d)
              IN /\ life["new"] + life["returning"] + life["resurrected"] = all.points[d]
                 /\ d - 1 \in DOMAIN all.points =>
                        life["returning"] + life["dormant"] = all.points[d - 1]
                 /\ life["new"] = IF d \in DOMAIN grid THEN grid[d].size ELSE 0
                 /\ MapThenSumSet(LAMBDA c : grid[c].returned[d - c],
                                  {c \in DOMAIN grid : d - c \in 0 .. MaxPeriods}) <= all.points[d]
       /\ all.total = SumOf(grid, "size")
       /\ \A c \in DOMAIN grid :
              /\ grid[c].returned[0] = grid[c].size
              /\ \A n \in 0 .. MaxPeriods : grid[c].returned[n] <= rolling[c].returned[n]
       /\ \A q \in Queries :
              LET first == Daily(evs, q.steps[1], Unbounded, Unbounded, TRUE).total
              IN /\ After(evs, q.steps[1], 1).users = first
                 /\ Count(Members(evs, {q.steps[1]}, "any")) = first
                 /\ q.order # "unordered" /\ q.exclude = {} => Funnel(evs, q)[1] = first
                 /\ q.order = "ordered" /\ NoTies(evs) /\ q.exclude = {} =>
                        Count(Sequence(evs, q.steps, q.window, {})) = Funnel(evs, q)[Len(q.steps)]
       /\ \A u \in UsersOf(evs) :
              LET person == Profile(evs, u)
              IN grid[Period(person.first, Day)].size > 0

\* The events of a visit that the list left out for its window, though they
\* happened in the second its row starts with.
Early(evs, cutoff, row) ==
    SelectSeq(Of(evs, row.user), LAMBDA e : e.at < cutoff /\ Unix(e.at) = Unix(row.summary.start))

\* A row of the list, cut short by the list's own window or not, opens on what it
\* shows, preceded by what else happened in its first second.
RowOpens(evs, cutoff, row) ==
    LET early == Early(evs, cutoff, row)
    IN Opened(evs, row.user, Unix(row.summary.start)) =
           {[row.summary EXCEPT !.start = Min({@} \cup {e.at : e \in ToSet(early)}),
                                !.events = @ + Len(early)]}

\* Wherever the list's window cuts a visit, also inside a second, every row opens on
\* that visit from its first second on, never on another or on none (session.go:98),
\* and the rows hold every event once.
SessionsAgree(evs) ==
    \A cutoff \in Times :
        LET rows == SessionRows(evs, cutoff)
        IN /\ \A row \in rows : RowOpens(evs, cutoff, row)
           /\ MapThenSumSet(LAMBDA row : row.summary.events, rows)
                  = Daily(evs, "any", cutoff, Unbounded, FALSE).total

\* A cut by who people are is a partition of them, and an account gets at least
\* as far as its people: the segments of a funnel, the arms of an experiment, the
\* channels of a goal, the groups of an error and a breakdown over stamped events
\* add up to the report they cut, and a filter by a person's property selects the
\* same people whether events are stamped or people scoped (funnel.go:104,
\* measure.go:123, grain.go:44, query.go:475).
CutsAgree(evs) ==
    LET stamped == StampFirstTouch(evs)
        grain   == Regroup(evs)
    IN /\ \A q \in Queries :
              LET whole    == Funnel(evs, q)
                  segments == Segments(stamped, q)
                  accounts == DOMAIN segments \ {NoPlan}
                  pair     == [q EXCEPT !.steps = SubSeq(@, 1, 2), !.window = 0, !.order = "ordered", !.exclude = {}]
                  arms     == Measure(evs, pair.steps[1], pair.steps[2], {NoPlan}, Unbounded, Unbounded)
              IN /\ \A k \in DOMAIN whole : SumOf(segments, k) = whole[k]
                 /\ Funnel(evs, pair) = <<SumOf(arms, "exposed"), SumOf(arms, "converted")>>
                 /\ q.order # "strict" /\ q.exclude = {} =>
                        \A k \in DOMAIN whole :
                            Count({v \in accounts : segments[v][k] > 0}) <= Funnel(grain.events, q)[k]
       /\ Len(grain.events) + grain.dropped = Len(evs)
       /\ Count(UsersOf(evs)) = grain.unattributed
              + Count({u \in UsersOf(evs) : \E e \in ToSet(Of(evs, u)) : e.plan # NoPlan})
       /\ \A plan \in PlansOf(evs) :
              LET scoped == ScopeUsers(evs, plan)
                  asked  == Carrying(StampForFilters(evs, plan), plan)
              IN Stamp(scoped, [u \in UsersOf(scoped) |-> plan]) = asked
       /\ \A name \in Names, w \in Windows :
              LET split == Breakdown(stamped, name, w[1], w[2], TRUE)
              IN SumOf(split, "total") = Daily(evs, name, w[1], w[2], TRUE).total
       /\ \A name \in Names, from, to \in Bounds : from < to =>
              LET goal   == Goal(evs, name, from, to - 1)
                  errors == Errors(evs, name, from, to, from - (to - from))
                  before == Errors(evs, name, from - (to - from), from, 0)
              IN /\ goal.conversions = Daily(evs, name, from, to, TRUE).total
                 /\ goal.visitors = Daily(evs, "any", from, to, TRUE).total
                 /\ Total(goal.by) = goal.conversions
                 /\ <<errors.affected, errors.users>> = <<goal.conversions, goal.visitors>>
                 /\ SumOf(errors.groups, "count") = Daily(evs, name, from, to, FALSE).total
                 /\ \A p \in DOMAIN errors.groups : errors.groups[p].new <=> p \notin DOMAIN before.groups
       /\ \A b \in Bounds : b % Day = 0 =>
              LET past == Matching(evs, "any", Unbounded, b)
              IN ActiveSince(past, b, 2) = XAU(evs, "any", Unbounded, b, 2).total

\* The people and the rows behind a number are as many as it says, and the API,
\* the ask bar and the MCP tools give it alike, whatever the filter and the window
\* of days: a point of a trend, a row of a breakdown, a step of a funnel, the
\* visitors from a source, who came back (query_api.go:794, query_api.go:1033,
\* web.go:90, ask_scope.go:717, mcp.go:1640).  The MCP tools that take rolling days
\* add the part of a day by which those start earlier, and nothing else.
SurfacesAgree(evs, now) ==
    LET plans == PlansOf(evs)
        past  == Matching(evs, "any", Unbounded, now)
        asked == [days : {0}, from : Bounds \cup {Unbounded}, to : Bounds \cup {Unbounded}]
                     \cup [days : {1, 2}, from : {Unbounded}, to : {Unbounded}]
        today == AskWindows(now).today
        days  == Week \div Day
        all   == Everyone
    IN /\ \A r \in asked : McpWindow(r, now) = ApiWindow(r, now)
       /\ \A f \in {all} \cup [plan : plans, kind : {"attribute", "event"}],
             w \in {AskWindows(now).pastWeek, AllTime}, name \in Names :
              LET people == ApiTrend(evs, f, w, name, TRUE)
                  rows   == ApiBreakdown(evs, f, w, name)
              IN /\ \A d \in DOMAIN people.points :
                        /\ Count(WhoOn(evs, f, w, name, d)) = people.points[d]
                        /\ ApiRows(evs, f, w, name, d).users = people.points[d]
                 /\ ApiRows(evs, f, w, name, Unbounded) =
                        [events |-> ApiTrend(evs, f, w, name, FALSE).total, users |-> people.total]
                 /\ SumOf(rows, "events") = ApiRows(evs, f, w, name, Unbounded).events
                 /\ \A v \in DOMAIN rows \ {NoPlan} :
                        Count(WhoCarries(evs, f, w, name, v)) = rows[v].users
                 /\ w # AllTime =>
                        /\ ApiErrors(evs, f, w, name, now).affected = people.total
                        /\ McpErrors(evs, f, days, now, name).affected >= people.total
                        /\ \A d \in DOMAIN people.points :
                               McpRows(evs, f, days, now, name, d).users = people.points[d]
                        /\ McpRows(evs, f, days, now, name, Unbounded).events =
                               ApiRows(evs, f, w, name, Unbounded).events
                               + ApiTrend(evs, f, [RollingDays(days, now) EXCEPT !.to = w.from], name, FALSE).total
                 /\ f # all => AskSegment(evs, name, f, w) = ApiTrend(evs, f, w, name, FALSE).total
       /\ \A f \in {all} \cup [plan : plans, kind : {"attribute", "event"}],
             w \in {CalendarDays(1, now), AllTime}, q \in Queries :
              LET steps   == ApiFunnel(evs, f, w, q)
                  Who(k, state) == Count(WhoAt(evs, f, w, q, k, state))
              IN /\ q.exclude = {} => \A k \in DOMAIN steps :
                        /\ Who(k, "reached") = steps[k]
                        /\ k < Len(steps) => Who(k, "dropped") = steps[k] - steps[k + 1]
                        /\ Who(k, "converted") = steps[Len(steps)]
                 /\ f = all \/ w = AllTime => McpFunnel(evs, f, w, q) = steps
                 /\ q.order = "ordered" /\ q.exclude = {} /\ q.window \in {0, Week} =>
                        AskFunnel(evs, f, w, q.steps) = steps
       /\ \A w \in {today, AskWindows(now).pastWeek, AskWindows(now).lastWeek} :
              LET web     == WebOverview(evs, w)
                  sources == AskSources(evs, w)
                  weeks   == AskTrend(evs, PageView, w, Week)
              IN /\ web.visitors = Daily(evs, PageView, w.from, w.to, TRUE).total
                 /\ Total(web.by) = web.visitors
                 /\ web.views > 0 => sources = web.by
                 /\ web.views > 0 /\ DOMAIN web.by # {NoPlan} => \A v \in plans :
                        AskSegment(evs, "visitors", [plan |-> v, kind |-> "acquisition"], w) =
                            IF v \in DOMAIN web.by THEN web.by[v] ELSE 0
                 /\ Total(weeks) = web.views
                 /\ \A name \in Names :
                        LET channels == AskChannels(evs, w, name)
                            goal     == Goal(evs, name, w.from, w.to - 1)
                            share    == AskShare(evs, w, name)
                            together == [steps |-> <<PageView, name>>, window |-> 0,
                                         order |-> "unordered", exclude |-> {}]
                        IN /\ SumOf(channels, "users") = goal.visitors
                           /\ SumOf(channels, "converted") = goal.conversions
                           /\ \A c \in DOMAIN goal.by : channels[c].converted = goal.by[c]
                           /\ AskCount(evs, name, w, TRUE) = goal.conversions
                           /\ web.views > 0 /\ name # PageView =>
                                  share = [did |-> Funnel(Scope(evs, w), together)[2], of |-> web.visitors]
       /\ LET life == Lifecycle(past, Period(now, Day))
              week == AskLifecycleWeek(past, now)
          IN /\ Count(AskReturning(past, CalendarDays(1, now))) = life["returning"] + life["resurrected"]
             /\ week.returning = Count(AskReturning(past, RollingDays(days, now)))
             /\ week.new + week.returning = ActiveSince(past, now, days)
             /\ \A n \in 1 .. MaxPeriods :
                    AskRetention(evs, AllTime, n, now) = PeriodN(Cohorts(evs, n, Day, FALSE), n, now, Day)

\* The visits of a window, whole and cut.
WebAnswers(evs, now, w, web, pages, geo) ==
    LET named == RestrictDomain(web.by, LAMBDA v : v # NoPlan)
    IN /\ AskWeb(evs, w) = [events |-> web.views, users |-> web.visitors]
       /\ AskWebDim(evs, w) = named
       /\ AskTopPages(evs, w) = [v \in DOMAIN pages |-> pages[v].events]
       /\ \A v \in DOMAIN pages : AskPage(evs, w, v) = pages[v]
       /\ \A v \in DOMAIN geo :
              /\ geo[v] = Count(WhoCarries(evs, Everyone, w, PageView, v))
              /\ AskSplit(evs, w, v) = [paid |-> geo[v], organic |-> web.visitors - geo[v]]
       /\ \A v \in DOMAIN named : named[v] <= geo[v] /\ geo[v] <= AskAIReferrers(evs, w, PlansOf(evs))[v]
       /\ AskActive(evs, w, now).users = Daily(evs, "any", w.from, w.to, TRUE).total
       /\ Total(AskVersus(evs, "visitors",
                          SetToSeq([plan : DOMAIN named, kind : {"acquisition"}]), w)) <= web.visitors

\* The extremes of a series: the empty days at the ends may not count as quiet.
ExtremesOf(evs, name, w, points) ==
    /\ \A peak \in AskPeakDay(evs, name, w) :
           points[peak[1]] = peak[2] /\ \A d \in DOMAIN points : points[d] <= peak[2]
    /\ \A quiet \in AskTroughDay(evs, name, w), d \in DOMAIN points :
           d >= Min(Periods(Scope(evs, w), Day)) /\ (d + 1) * Day <= w.to => quiet[2] <= points[d]

ConversionsAgree(evs, name, w, conv, steps, whole) ==
    /\ \A v \in DOMAIN conv :
           conv[v].did = Goal(ScopeUsers(Scope(evs, w), v), name, w.from, w.to - 1).conversions
    /\ name # PageView => \A k \in {1, 2} : SumOf(steps, k) <= whole[k]

PathsNarrow(paths, users) ==
    /\ paths[1].users = users
    /\ \A n \in {2, 3} : Total(paths[n].steps) <= Total(paths[n - 1].steps)
    /\ Total(paths[1].steps) <= users

EventAnswers(evs, w, name) ==
    LET SplitAs(split, rows) == DOMAIN split # {} => split = rows
    IN /\ ExtremesOf(evs, name, w, Daily(evs, name, w.from, w.to, FALSE).points)
       /\ SplitAs(AskPropBreakdown(Named(evs, name), w), ApiBreakdown(evs, Everyone, w, name))
       /\ ConversionsAgree(evs, name, w, AskConvBy(evs, w, name), AskConvBySteps(evs, w, <<PageView, name>>),
                           AskFunnel(evs, Everyone, w, <<PageView, name>>))
       /\ PathsNarrow(AskPaths(evs, w, name), AskCount(evs, name, w, TRUE))

Asking(evs, questions, now) == [k \in DOMAIN questions |-> Answer(evs, questions[k], now)]

Question(metric, segs, w) ==
    [intent |-> "count", metric |-> metric, segs |-> segs, w |-> w, compare |-> <<>>,
     trend |-> FALSE, versus |-> TRUE, steps |-> <<PageView, metric>>]

\* A question of one segment f, over time, of pages, of itself or another g.
SegmentAnswers(a, pages, f, long) ==
    /\ Total(a.trend[1]) = a.plain[1]
    /\ a.pages = <<RestrictDomain(pages, LAMBDA v : v = f.plan)>>
    /\ a.either[1] = a.plain[1]
    /\ f.kind = "attribute" /\ long => a.back[1] = a.back2[1]

SegmentQuestions(q, f, g) ==
    LET With(intent, segs) == [q EXCEPT !.intent = intent, !.segs = segs]
    IN [plain |-> q, trend |-> [q EXCEPT !.trend = TRUE], pages |-> With("pages", <<f>>),
        either |-> With("count", <<f, g>>), back |-> With("retention", <<f>>), back2 |-> With("retention", <<f, g>>)]

SegmentsAgree(evs, now, w, name) ==
    \A f \in [plan : PlansOf(evs), kind : {"attribute", "event"}], v \in PlansOf(evs) :
        SegmentAnswers(Asking(evs, SegmentQuestions(Question(name, <<f>>, w), f, [f EXCEPT !.plan = v]), now),
                       AskTopPages(evs, w), f, w.to - w.from > 2 * Day)

\* A period beside the one before: as both together, and as each alone.
HalvesAgree(a, question) ==
    LET halves == IF question.intent = "funnel" THEN a.pair ELSE a.pair[1]
    IN /\ halves = <<a.later[1], a.earlier[1]>>
       /\ question.intent = "count" /\ question.segs = <<>> => halves[1] + halves[2] = a.whole[1]

ComparisonsAgree(evs, now, pair, name) ==
    LET both     == [from |-> pair[2].from, to |-> pair[1].to]
        segments == [plan : PlansOf(evs), kind : {"acquisition", "event"}]
        plain    == Question(name, <<>>, both)
    IN /\ pair[2].to = pair[1].from
       /\ \A q \in {plain, [plain EXCEPT !.intent = "funnel"]}
                       \cup {Question(metric, <<f>>, both) : f \in segments, metric \in {name, "visitors"}} :
              HalvesAgree(Asking(evs, [pair |-> [q EXCEPT !.compare = pair], whole |-> q,
                                       later |-> [q EXCEPT !.w = pair[1]], earlier |-> [q EXCEPT !.w = pair[2]]], now), q)

\* A measure whole, split and over time.
MeasuresAgree(sum, split, least, median, high, most, bounded) ==
    /\ \A field \in {"total", "n"} :
           /\ SumOf(split, field) = sum.all[field]
           /\ bounded => SumOf(sum.points, field) = sum.all[field]
    /\ 2 * least <= median /\ median <= 2 * most /\ median <= 2 * high /\ high <= most

MeasureAnswers(evs, kept, f, name, w) ==
    LET With(m) == ComputeMeasure(kept, name, m, w.from, w.to)
    IN /\ \A m \in {"sum", "median"} : AskMeasure(evs, f, name, m, w) = With(m)
       /\ MeasuresAgree(With("sum"), ComputeMeasureBreakdown(kept, name, "sum", w.from, w.to),
                        With("min").all.total, With("median").all.total, With("p90").all.total,
                        With("max").all.total, w # AllTime)

\* Who is active, who is new, who came back, who stays.
ActivityAnswers(past, now, days, week, pulse) ==
    /\ pulse.current.users = week.new + week.returning
    /\ pulse.prior.users - week.dormant <= week.returning
    /\ AskStickiness(past, now).monthly >= pulse.current.users
    /\ \A n \in 1 .. days :
           /\ AskActiveUsers(past, now, n * Day) >= Count(UsersOf(Scope(past, CalendarDays(n, now))))
           /\ AskActiveUsers(past, now, n * Day) <= Count(UsersOf(Scope(past, CalendarDays(n + 1, now))))
           /\ Pulse(past, n, now).current.events + Pulse(past, n, now).prior.events =
                  Pulse(past, 2 * n, now).current.events
    /\ \A life \in AskLifecycle(past, CalendarDays(1, now)) :
           /\ life["new"] + life["returning"] + life["resurrected"] = AskActive(past, CalendarDays(1, now), now).users
           /\ AskLifecycle(past, RollingDays(1, now)) = {life}

KeptAnswers(evs, now, n, whole, rolling) ==
    /\ rolling.size = whole.size /\ rolling.retained >= whole.retained
    /\ \A part \in {AskRetentionVs(evs, f, AllTime, n, now) : f \in [plan : PlansOf(evs), kind : {"attribute"}]} :
           part.size <= whole.size /\ part.retained <= whole.retained

\* The ask bar answers a question as the API and the dashboard do, and the same
\* question alike however it is put: over time, against the period before, by segment,
\* as one of two (ask.go:1816, ask_scope.go:2026, ask_scope.go:742, trends.go:326).
AnswersAgree(evs, past, now) ==
    LET weeks == {AskWindows(now).pastWeek, AskWindows(now).lastWeek}
    IN /\ \A w \in weeks \cup {CalendarDays(1, now)} :
              /\ WebAnswers(evs, now, w, WebOverview(evs, w), ApiBreakdown(evs, Everyone, w, PageView), AskGeo(evs, w))
              /\ \A name \in Names : EventAnswers(evs, w, name) /\ SegmentsAgree(evs, now, w, name)
       /\ \A pair \in Range(CompareWindows(now)), name \in Names : ComparisonsAgree(evs, now, pair, name)
       /\ \A name \in Names, w \in {AskWindows(now).pastWeek, AllTime},
             f \in {Everyone} \cup [plan : PlansOf(evs), kind : {"attribute", "event"}] :
              MeasureAnswers(evs, Filtered(evs, f), f, name, w)
       /\ ActivityAnswers(past, now, Week \div Day, AskLifecycleWeek(past, now), Pulse(past, Week \div Day, now))
       /\ \A n \in 1 .. MaxPeriods :
              KeptAnswers(evs, now, n, AskRetention(evs, AllTime, n, now),
                          AskRetentionBucketed(evs, AllTime, n, Day, TRUE, now))

\* No two reports, and no two surfaces, give different answers to one question.
ReportsAgree ==
    Len(log) + failures <= MaxCompared =>
        LET evs == Scan
        IN /\ TrendsAgree(evs) /\ PeopleAgree(evs) /\ SessionsAgree(evs) /\ CutsAgree(evs)
           /\ \A now \in Moments : SurfacesAgree(evs, now) /\ AnswersAgree(evs, Matching(evs, "any", Unbounded, now), now)

\* What a row opens matches the row: as many events, from the same start
\* (session.go:111).  It does not where the list's window starts inside a second.
RowIsDetail ==
    \A cutoff \in Times : \A row \in SessionRows(Scan, cutoff) :
        Opened(Scan, row.user, Unix(row.summary.start)) = {row.summary}

Finished(evs, now) ==
    LET cohorts == Cohorts(evs, MaxPeriods, Day, FALSE)
        over    == {c \in DOMAIN cohorts : c < Period(now, Day)}
    IN [cells   |-> [c \in over |-> RestrictDomain(Shown(cohorts, now, Day)[c], LAMBDA n : n > 0)],
        average |-> [n \in 1 .. MaxPeriods |-> PeriodN(cohorts, n, now, Day)]]

\* What a moment decided no later event changes and no earlier one overrules:
\* a retention number shown as finished, and the last known trait of a person,
\* whatever order the events arrive in (retention.go:153, person.go:41).
TimeDecides ==
    [][Len(log') > Len(log) /\ aliases' = aliases
       => LET t == Last(log').at
          IN /\ Finished(Scan', t) = Finished(Scan, t)
             /\ \A u \in UsersOf(Scan) :
                    LET trait == Profile(Scan, u).trait
                    IN trait.plan # NoPlan /\ trait.at > t => Profile(Scan', u).trait = trait]_vars
=============================================================================

--------------------------------- MODULE Insight ---------------------------------
(***************************************************************************)
(* The verdict and what hangs on it: internal/insight, the alerts          *)
(* (api/alert_eval.go), the page's funnel (api/shared.go), the join of     *)
(* errors and funnel (errortrack/impact.go), the fix brief, the proposed   *)
(* funnel, the health of the tracking plan and the provenance of events.   *)
(*                                                                         *)
(* Events and time are those of Sweep; the funnels and the retention are   *)
(* those of Reports.  Four detectors read what the tool's own sampler      *)
(* writes, which is not in the log.                                        *)
(***************************************************************************)
EXTENDS Sweep

CONSTANTS
    Bar,          \* the thresholds of the verdict, by name: see BarAssumption
    Failures,     \* failureEvent: what records a user failing
    Convention,   \* the events of the conventional funnel, in order
    Acquisition,  \* the properties that live on a landing
    BlameProps,   \* the properties asked first, in order
    Identified,   \* "$identify"
    Exception,    \* errortrack.ExceptionEvent
    Message,      \* the property that tells one error from another
    Intents       \* the paths that name a decision

\* Percentages are of 100; the code's value is in brackets.
ASSUME BarAssumption ==
    Bar \in [{"sample",    \* minSample (20)
              "base",      \* baselineDays (7)
              "observed",  \* minBaselineDays (5)
              "volume",    \* 3 events a day
              "swing",     \* 40
              "top",       \* 6 events
              "cover",     \* 3 users, or one of
              "share",     \* 20
              "steps",     \* 4
              "worse",     \* 70
              "week",      \* 7 days
              "trend",     \* 15
              "retained",  \* 20
              "compare",   \* minCompare (20)
              "visits",    \* 10 people
              "narrow",    \* a quarter
              "arrive"}    \* 5 people
             -> Nat \ {0}]

R == INSTANCE Reports WITH Day <- 2, Week <- 14, Second <- 1, GapLength <- 1, Identify <- Identified,
                           MaxDayBuckets <- 365, MaxWeekBuckets <- 53, NoPlan <- Nobody, Unbounded <- -1

\* The events as Reports takes them, for a question about one property.
As(evs, prop) ==
    [i \in DOMAIN evs |-> [user |-> evs[i].who, name |-> evs[i].name, at |-> evs[i].at,
                           plan |-> Value(evs[i], prop)]]

People(evs) == {evs[i].who : i \in DOMAIN evs}

Rounded(n, of) == (200 * n + of) \div (2 * of)

\* Rounded away from zero.
Signed(n, of) == IF n < 0 THEN -Rounded(-n, of) ELSE Rounded(n, of)

Note(severity, kind, metric, rate, n) ==
    [severity |-> severity, kind |-> kind, metric |-> metric, rate |-> rate, n |-> n,
     steps |-> <<>>, from |-> Nobody, to |-> Nobody, prop |-> Nobody, value |-> Nobody]

Verdict(rose, bad, serious) == IF rose = bad /\ serious THEN "warn" ELSE "info"

ByVolume(evs) ==
    LET Many(name) == Cardinality({i \in DOMAIN evs : evs[i].name = name})
    IN Ordered({evs[i].name : i \in DOMAIN evs}, LAMBDA m, n :
           Many(m) > Many(n) \/ (Many(m) = Many(n) /\ Least(m, n)))

FirstFew(s, k) == SubSeq(s, 1, Min({k, Len(s)}))

-----------------------------------------------------------------------------
\* anomalies: the last 24 hours against the days before them.

LastDayOf(evs, name, now) ==
    Cardinality({i \in DOMAIN evs : evs[i].name = name /\ now - 2 <= evs[i].at /\ evs[i].at <= now})

\* The day of the baseline an event counts for; one exactly on its start is of the oldest.
BaselineDay(at, now) == Min({(now - 2 - at) \div 2, Bar.base - 1})

BaselineRows(evs, name, now) ==
    {i \in DOMAIN evs : evs[i].name = name /\ In(evs[i], now - 2 * (Bar.base + 1), now - 2)}

\* The deviation is the fraction <<by, total>>.
SwingOf(evs, name, last, rows, now) ==
    LET observed == Cardinality({BaselineDay(evs[i].at, now) : i \in rows})
        total == Cardinality(rows)
    IN [name |-> name, by |-> last * observed - total, total |-> total,
        told |-> /\ observed >= Bar.observed
                 /\ total >= Bar.sample /\ total >= Bar.volume * observed
                 /\ 100 * Abs(last * observed - total) >= Bar.swing * total]

Swing(evs, name, now) ==
    SwingOf(evs, name, LastDayOf(evs, name, now), BaselineRows(evs, name, now), now)

\* The sharpest of the events of most volume, the first of equals.
Sharpest(swings) ==
    LET told == {k \in DOMAIN swings : swings[k].told}
        Size(k) == <<Abs(swings[k].by), swings[k].total>>
        best == CHOOSE k \in told : \A j \in told :
                    AtMost(Size(j), Size(k)) /\ (j < k => ~AtMost(Size(k), Size(j)))
    IN IF told = {} THEN <<>> ELSE <<swings[best]>>

Anomalies(evs, now) ==
    LET top == FirstFew(ByVolume(evs), Bar.top)
        found == Sharpest([k \in DOMAIN top |-> Swing(evs, top[k], now)])
    IN [k \in DOMAIN found |->
            Note(Verdict(found[k].by > 0, found[k].name \in Failures, TRUE), "anomaly",
                 found[k].name, Signed(found[k].by, found[k].total), found[k].total)]

-----------------------------------------------------------------------------
\* The funnel of a verdict.

\* Who did the event, with how long after the first thing they did.
Delays(evs, name) ==
    LET Since(u) == Min({evs[i].at : i \in {j \in DOMAIN evs : evs[j].who = u}})
        rows == {i \in DOMAIN evs : evs[i].name = name}
    IN [u \in {evs[i].who : i \in rows} |->
            Min({evs[i].at : i \in {j \in rows : evs[j].who = u}}) - Since(u)]

\* The upper median.
Middle(delays) ==
    LET order == Ordered(DOMAIN delays, LAMBDA u, v : delays[u] < delays[v])
    IN delays[order[Len(order) \div 2 + 1]]

\* A step the journey may have: [name, covers, after].
JourneySteps(evs) ==
    LET delays == [n \in {evs[i].name : i \in DOMAIN evs} |-> Delays(evs, n)]
        least == Max({Bar.cover, Cardinality(People(evs)) \div Bar.share})
    IN {[name |-> n, covers |-> Cardinality(DOMAIN delays[n]), after |-> Middle(delays[n])] :
            n \in {m \in DOMAIN delays : Cardinality(DOMAIN delays[m]) >= least}}

Wider(c, d) == c.covers > d.covers \/ (c.covers = d.covers /\ Least(c.name, d.name))

Sooner(c, d) == c.after < d.after \/ (c.after = d.after /\ Wider(c, d))

\* The widest in coverage, in the order of the median first touch.
InJourneyOrder(widest) ==
    LET steps == Ordered(ToSet(FirstFew(Ordered(widest, Wider), Bar.steps)), Sooner)
    IN [k \in DOMAIN steps |-> steps[k].name]

DetectJourney(evs) ==
    LET steps == JourneySteps(evs)
    IN IF Cardinality(steps) < 2 THEN <<>> ELSE InJourneyOrder(steps)

Conventional(evs) == ToSet(Convention) \subseteq {evs[i].name : i \in DOMAIN evs}

\* orderByJourney: by the mean delay of an event, ties as they come.
ByMeanDelay(evs, names) ==
    LET Since(u) == Min({evs[i].at : i \in {j \in DOMAIN evs : evs[j].who = u}})
        rows == [k \in DOMAIN names |-> {i \in DOMAIN evs : evs[i].name = names[k]}]
        mean == [k \in DOMAIN names |->
                    <<MapThenSumSet(LAMBDA i : evs[i].at - Since(evs[i].who), rows[k]),
                      Cardinality(rows[k])>>]
        order == Ordered(DOMAIN names, LAMBDA j, k :
                     \/ ~AtMost(mean[k], mean[j])
                     \/ (AtMost(mean[j], mean[k]) /\ j < k))
    IN [k \in DOMAIN names |-> names[order[k]]]

\* What the page shows: the journey, and without one the busiest events.
DetectFunnel(evs) ==
    LET journey == DetectJourney(evs)
    IN IF Conventional(evs) THEN Convention
       ELSE IF journey # <<>> THEN journey
       ELSE ByMeanDelay(evs, FirstFew(ByVolume(evs), 3))

\* What the verdict measures: the caller's funnel, the conventional one, the journey.
StepsOf(evs, page) ==
    IF Len(page) >= 2 THEN page ELSE IF Conventional(evs) THEN Convention ELSE DetectJourney(evs)

Query(steps, order) == [steps |-> steps, window |-> 2 * Bar.week, order |-> order, exclude |-> {}]

-----------------------------------------------------------------------------
\* The segment to blame.

\* The first value of each property each user has one of: [prop, who, value].
FirstTouches(evs, props) ==
    {t \in UNION {{[prop |-> p, who |-> u, value |-> R!FirstTouch(R!Of(As(evs, p), u))] :
                       u \in People(evs)} : p \in props} : t.value # Nobody}

StampedProps(e, touches) ==
    LET own == {t \in touches : t.who = e.who}
        First(p) == (CHOOSE t \in own : t.prop = p).value
        known == {t.prop : t \in own}
    IN [p \in DOMAIN e.props \cup known |-> IF p \in known THEN First(p) ELSE e.props[p]]

\* The events of a funnel, each with what its user came with.
Stamped(evs, touches, steps) ==
    SelectSeq([i \in DOMAIN evs |-> [evs[i] EXCEPT !.props = StampedProps(evs[i], touches)]],
              LAMBDA e : e.name \in ToSet(steps))

\* Carried by three in five of a step's events, with two to ten values.
Telling(rows, prop) ==
    LET on == {i \in DOMAIN rows : prop \in DOMAIN rows[i].props}
    IN /\ 10 * Cardinality(on) >= 6 * Len(rows)
       /\ Cardinality({rows[i].props[prop] : i \in on}) \in 2 .. 10

UsableBlameProps(rows) ==
    LET telling == {p \in UNION {DOMAIN rows[i].props : i \in DOMAIN rows} : Telling(rows, p)}
    IN SelectSeq(BlameProps, LAMBDA p : p \in telling)
           \o Ordered(telling \ ToSet(BlameProps), Least)

\* The values of a property, those with most entrants first.
Breakdown(rows, prop, q) ==
    LET by == R!Segments(As(rows, prop), q)
        order == Ordered(DOMAIN by \ {Nobody}, LAMBDA v, w :
                     by[v][1] > by[w][1] \/ (by[v][1] = by[w][1] /\ Least(v, w)))
    IN [k \in DOMAIN order |-> [prop |-> prop, value |-> order[k], counts |-> by[order[k]]]]

\* The worst of the segments that fall far enough below the whole, the first of equals.
WorstSegmentOf(segments, at, all) ==
    LET Rate(k) == <<segments[k].counts[at + 1], segments[k].counts[at]>>
        far == {k \in DOMAIN segments : /\ segments[k].counts[at] >= Bar.sample
                                        /\ ~AtMost(Percent(Bar.worse, all), Rate(k))}
    IN IF far = {} THEN <<>>
       ELSE <<segments[CHOOSE k \in far : \A j \in far :
                  AtMost(Rate(k), Rate(j)) /\ (j < k => ~AtMost(Rate(j), Rate(k)))]>>

BlameFinding(segments, steps, at, all) ==
    LET worst == WorstSegmentOf(segments, at, all)
    IN [k \in DOMAIN worst |->
           [Note("warn", "segment", Nobody, Rounded(worst[k].counts[at + 1], worst[k].counts[at]),
                 worst[k].counts[at])
               EXCEPT !.from = steps[at], !.to = steps[at + 1], !.steps = steps,
                      !.prop = worst[k].prop, !.value = worst[k].value]]

BlameOver(rows, props, steps, at, base) ==
    IF base[at] < Bar.sample \/ base[at + 1] = 0 THEN <<>>
    ELSE BlameFinding(FlattenSeq([k \in DOMAIN props |-> Breakdown(rows, props[k], Query(steps, "ordered"))]),
                      steps, at, <<base[at + 1], base[at]>>)

BlameIn(evs, rows, props, steps, at) ==
    BlameOver(Stamped(rows, FirstTouches(evs, ToSet(props) \ Acquisition), steps), props, steps, at,
              R!Funnel(As(rows, Nobody), Query(steps, "ordered")))

BlameStamped(evs, rows, steps, at) ==
    BlameIn(evs, rows, UsableBlameProps(SelectSeq(rows, LAMBDA e : e.name = steps[at])), steps, at)

\* Mutant: the transition alone, for whoever was never in the funnel too.
BlameThePair(evs, steps, at) ==
    LET pair == SubSeq(steps, at, at + 1)
        found == BlameStamped(evs, Stamped(evs, FirstTouches(evs, Acquisition), pair), pair, 1)
    IN [k \in DOMAIN found |-> [found[k] EXCEPT !.steps = steps]]

\* segmentBlame of the transition out of the step `at`, over events that carry what brought
\* their user.
SegmentBlame(evs, steps, at) ==
    BlameStamped(evs, Stamped(evs, FirstTouches(evs, Acquisition), steps), steps, at)

-----------------------------------------------------------------------------
\* The verdict.

\* The first of the largest drops out of a step that enough enter, 0 for none.
WorstDrop(counts) ==
    LET fit == {i \in 1 .. Len(counts) - 1 : counts[i] >= Bar.sample}
        Lose(i) == counts[i] - counts[i + 1]
    IN IF fit = {} THEN 0
       ELSE CHOOSE i \in fit : \A j \in fit : Lose(j) <= Lose(i) /\ (j < i => Lose(j) < Lose(i))

DropNote(counts, steps, at) ==
    [Note("warn", "dropoff", steps[at + 1], Rounded(counts[at + 1], counts[at]), counts[at])
        EXCEPT !.steps = steps, !.from = steps[at], !.to = steps[at + 1]]

\* A funnel of what the tracker writes by itself is no warning.
DropFindings(evs, steps, counts, at) ==
    IF at = 0 THEN <<>>
    ELSE IF counts[at] = counts[at + 1] THEN <<>>
    ELSE IF ToSet(steps) \subseteq Auto THEN <<Note("note", "dropoff", steps[at + 1], 0, 0)>>
    ELSE Append(SegmentBlame(evs, steps, at), DropNote(counts, steps, at))

DropCounted(evs, steps, counts) == DropFindings(evs, steps, counts, WorstDrop(counts))

DropOff(evs, steps, order) ==
    IF Len(steps) < 2 THEN <<>>
    ELSE DropCounted(evs, steps, R!Funnel(As(evs, Nobody), Query(steps, order)))

\* The headline event of a week against the week before; a future event is of neither.
InWeek(evs, name, ago, now) ==
    Cardinality({i \in DOMAIN evs : /\ evs[i].name = name
                                    /\ (now - evs[i].at) \in 2 * Bar.week * ago .. 2 * Bar.week * (ago + 1) - 1})

TrendNote(name, last, prev) ==
    LET change == Signed(last - prev, prev)
    IN Note(Verdict(change > 0, name \in Failures, Abs(change) >= Bar.trend), "trend", name, change, prev)

TrendOf(evs, name, now) ==
    IF InWeek(evs, name, 1, now) < Bar.sample THEN <<>>
    ELSE <<TrendNote(name, InWeek(evs, name, 0, now), InWeek(evs, name, 1, now))>>

Headline(evs) ==
    IF Head(Convention) \in {evs[i].name : i \in DOMAIN evs} THEN Head(Convention) ELSE ByVolume(evs)[1]

\* Without identify nobody can be seen to come back.
RetentionNote(evs, read) ==
    IF read.size < Bar.sample THEN <<>>
    ELSE IF \A i \in DOMAIN evs : evs[i].name # Identified
         THEN <<Note("note", "retention", Nobody, 0, read.size)>>
         ELSE <<Note(IF Rounded(read.retained, read.size) < Bar.retained THEN "warn" ELSE "info",
                     "retention", Nobody, Rounded(read.retained, read.size), read.size)>>

RetentionRead(evs, now) ==
    RetentionNote(evs, R!PeriodN(R!Cohorts(As(evs, Nobody), 1, 2, FALSE), 1, now, 2))

WarningsFirst(fs) ==
    SelectSeq(fs, LAMBDA f : f.severity = "warn") \o SelectSeq(fs, LAMBDA f : f.severity # "warn")

\* GenerateForFunnelOpts.
Notable(evs, page, order, now) ==
    IF evs = <<>> THEN <<>>
    ELSE WarningsFirst(Anomalies(evs, now) \o DropOff(evs, StepsOf(evs, page), order)
                           \o TrendOf(evs, Headline(evs), now) \o RetentionRead(evs, now))

\* The tool whats_notable, the brief and the alerts; the page and /v1/notable.
Generate(evs, now) == Notable(evs, <<>>, "ordered", now)

OnThePage(evs, now) == Notable(evs, DetectFunnel(evs), "ordered", now)

-----------------------------------------------------------------------------
\* Alerts: [kind, event, against, op, threshold, window], the window in half days.

CountIn(evs, name, from, to) == Cardinality({i \in DOMAIN evs : evs[i].name = name /\ In(evs[i], from, to)})

Crosses(op, p, threshold) ==
    \/ op = "gt" /\ ~AtMost(p, <<threshold, 1>>)
    \/ op = "lt" /\ ~AtMost(<<threshold, 1>>, p)

\* There is no change from nothing.
Relative(a, cur, prev) ==
    /\ prev > 0
    /\ \/ a.op = "lt" /\ 100 * (cur - prev) <= -a.threshold * prev
       \/ a.op = "gt" /\ 100 * (cur - prev) >= a.threshold * prev

\* evalAlert: whether the alert's condition is met.
Met(a, evs, now) ==
    LET cur == CountIn(evs, a.event, now - a.window, now)
    IN CASE a.kind = "relative" -> Relative(a, cur, CountIn(evs, a.event, now - 2 * a.window, now - a.window))
         [] a.kind = "anomaly" -> \E f \in ToSet(Generate(evs, now)) : f.kind = "anomaly" /\ f.severity = "warn"
         [] a.kind = "ratio" -> LET den == CountIn(evs, a.against, now - a.window, now)
                                IN den > 0 /\ Crosses(a.op, <<100 * cur, den>>, a.threshold)
         [] OTHER -> Crosses(a.op, <<cur, 1>>, a.threshold)

-----------------------------------------------------------------------------
\* The errors against the funnel: the converted and the entrants of who hit one and of who did not.

Ends(evs, users, q) ==
    LET counts == R!Funnel(As(SelectSeq(evs, LAMBDA e : e.who \in users), Nobody), q)
    IN [entered |-> counts[1], converted |-> counts[Len(counts)],
        step |-> Max({0} \cup {k \in DOMAIN counts : counts[k] > 0})]

HitBy(evs, error) ==
    {evs[i].who : i \in {j \in DOMAIN evs : evs[j].name = Exception /\ Value(evs[j], Message) = error}}

Compared(error, hit, clean) ==
    [error |-> error, hit |-> hit, clean |-> clean,
     thin |-> hit.entered < Bar.compare \/ clean.entered < Bar.compare]

FunnelImpact(evs, errors, steps) ==
    IF Len(steps) < 2 THEN {}
    ELSE {Compared(g, Ends(evs, HitBy(evs, g), Query(steps, "ordered")),
                   Ends(evs, People(evs) \ HitBy(evs, g), Query(steps, "ordered"))) :
              g \in {e \in errors : HitBy(evs, e) # {}}}

-----------------------------------------------------------------------------
\* The fix brief of a finding: the funnel it re-runs, and what closes it.

BriefSteps(f, page) == IF Len(f.steps) >= 2 THEN f.steps ELSE page

Brief(evs, f, page) ==
    LET names == IF f.kind \in {"dropoff", "segment"} THEN BriefSteps(f, page) ELSE <<>>
    IN [finding |-> f, steps |-> names, current |-> f.rate,
        counts |-> IF Len(names) < 2 THEN <<>> ELSE R!Funnel(As(evs, Nobody), Query(names, "ordered"))]

\* A title names a drop by its first step alone.
Title(f) ==
    [kind |-> f.kind, undefined |-> f.severity = "note",
     of |-> IF f.kind \in {"anomaly", "trend"} THEN f.metric ELSE f.from,
     to |-> IF f.kind = "segment" THEN f.to ELSE Nobody, prop |-> f.prop, value |-> f.value,
     rate |-> IF f.kind \in {"dropoff", "segment"} THEN 0 ELSE f.rate]

\* Never another finding's brief than the one asked for.
BriefOf(evs, fs, page, title) ==
    LET asked == {k \in DOMAIN fs : Title(fs[k]) = title}
    IN IF asked = {} THEN <<>> ELSE <<Brief(evs, fs[Min(asked)], page)>>

FixBrief(evs, page, title, now) == BriefOf(evs, Notable(evs, page, "ordered", now), page, title)

-----------------------------------------------------------------------------
\* The funnel proposed from the pages: a step is [path, people].

FirstArrivals(evs) ==
    LET rows == {i \in DOMAIN evs : /\ evs[i].name = PageView /\ evs[i].who # Nobody
                                    /\ Value(evs[i], "path") # Nobody}
        Of(p) == {i \in rows : Value(evs[i], "path") = p}
    IN [p \in {Value(evs[i], "path") : i \in rows} |->
            [u \in {evs[i].who : i \in Of(p)} |-> Min({evs[i].at : i \in {j \in Of(p) : evs[j].who = u}})]]

\* Who reached each page, not before the page in front of it.
Reached(first, paths) ==
    LET f[k \in DOMAIN paths] ==
            IF k = 1 THEN DOMAIN first[paths[1]]
            ELSE {u \in f[k - 1] \cap DOMAIN first[paths[k]] :
                      first[paths[k]][u] >= first[paths[k - 1]][u]}
    IN f

\* The busiest page, the busiest intent when it lies between, the rarest intent.
Route(first, entry, intents) ==
    LET Visitors(p) == Cardinality(DOMAIN first[p])
        dest == Head(intents)
        mid == intents[Len(intents)]
    IN <<entry>> \o (IF mid \notin {entry, dest} /\ Visitors(mid) > Visitors(dest) THEN <<mid>> ELSE <<>>)
                 \o (IF dest # entry THEN <<dest>> ELSE <<>>)

Confident(people) ==
    /\ \A k \in 2 .. Len(people) : people[k] < people[k - 1]
    /\ Bar.narrow * people[Len(people)] <= people[1]
    /\ people[Len(people)] >= Bar.arrive

Proposed(route, reached) ==
    LET people == [k \in DOMAIN route |-> Cardinality(reached[k])]
    IN [route |-> route, people |-> people, confident |-> Confident(people)]

ProposeFrom(first) ==
    LET Visitors(p) == Cardinality(DOMAIN first[p])
        paths == DOMAIN first
        busiest == Ordered(paths, LAMBDA p, q :
                       Visitors(p) > Visitors(q) \/ (Visitors(p) = Visitors(q) /\ Least(p, q)))
        rarest == Ordered(paths \cap Intents, LAMBDA p, q :
                      Visitors(p) < Visitors(q) \/ (Visitors(p) = Visitors(q) /\ Least(p, q)))
        route == Route(first, Head(busiest), rarest)
    IN IF Cardinality(UNION {DOMAIN first[p] : p \in paths}) < Bar.visits \/ rarest = <<>> THEN <<>>
       ELSE IF Len(route) < 2 THEN <<>>
       ELSE <<Proposed(route, Reached(first, route))>>

ProposeFunnel(evs) == ProposeFrom(FirstArrivals(evs))

-----------------------------------------------------------------------------
\* The plan against the log: `plan` maps an event to the properties declared for it.

PlanHealth(evs, plan, from) ==
    LET Rows(n) == {i \in DOMAIN evs : evs[i].name = n /\ evs[i].at >= from}
        Whole(n) == Rows(n) # {} /\ plan[n] \subseteq UNION {DOMAIN evs[i].props : i \in Rows(n)}
    IN [healthy |-> \A n \in DOMAIN plan : Whole(n),
        events |-> [n \in DOMAIN plan |->
                       [count |-> Cardinality(Rows(n)),
                        missing |-> IF Rows(n) = {} THEN {}
                                    ELSE plan[n] \ UNION {DOMAIN evs[i].props : i \in Rows(n)}]],
        unplanned |-> {n \in {evs[i].name : i \in {j \in DOMAIN evs : evs[j].at >= from}} :
                           n \notin DOMAIN plan \cup Auto}]

\* The tool event_source: what the code fires against what arrives.
EventSource(evs, code, from) ==
    LET data == {evs[i].name : i \in {j \in DOMAIN evs : evs[j].at >= from}}
    IN [n \in code \cup (data \ Auto) |->
            IF n \in code THEN IF n \in data THEN "healthy" ELSE "silent" ELSE "orphan"]
===================================================================================

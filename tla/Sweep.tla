---------------------------------- MODULE Sweep ----------------------------------
(***************************************************************************)
(* The sweep over a product's events: internal/whatchanged,                *)
(* internal/investigate and the before-and-after of internal/deploys.      *)
(*                                                                         *)
(* An event is [name, at, who, props, money]: `props` maps a dimension to  *)
(* its value, `money` a money property to [numeric, n].  Time counts half  *)
(* days, so that a sweep at noon sees half of today.  A rate is a fraction *)
(* <<events, days>>.  A vendor's name for a dimension and ours are one;    *)
(* what the tool's own sampler writes is not in the log.                   *)
(***************************************************************************)
EXTENDS Integers, SequencesExt

CONSTANTS
    Gate,       \* the thresholds, by name: see GateAssumption
    CauseDims,  \* investigate.causeProps, in order
    MoneyProps, \* investigate.revenueProps, in order
    Words,      \* names, values and dimensions, in the order of strings
    Auto,       \* the names that start with "$", PageView among them
    PageView,
    Nobody,     \* no ship, no path, no dimension
    Reading(_, _, _)  \* what MeasureRange reports of a flag from a time to another

\* Percentages are of 100; the code's value is in brackets.
ASSUME GateAssumption ==
    Gate \in [{"side",          \* minSide (3), days
               "relative",      \* minRelative (25)
               "daily",         \* minDailyBefore (5)
               "people",        \* Opts.MinPeople (20)
               "recent",        \* recoveryWindowDays (3)
               "recovered",     \* recoveryTolerance (90)
               "silence",       \* silenceShare (2)
               "quiet",         \* minQuietDays (3)
               "young", "old",  \* minAgeDays (2), maxAgeDays (21)
               "held",          \* witnessTolerance (90)
               "prior",         \* witnessWindowDays (14)
               "coverage",      \* pathCoverage (80)
               "dominance",     \* pathDominance (60)
               "segment",       \* minSegmentShare (55)
               "span",          \* windowEitherSide (7), days
               "custom",        \* maxDiscoveredProps (4)
               "priced",        \* minRevenueEvents (20)
               "kill",          \* minDaysBeforeKill (14)
               "ship",          \* ComputeImpact's window (3), days
               "moved"} -> Nat] \* SignificantChange (25)

Midnight(day) == 2 * day

DayOf(at) == at \div 2

In(e, from, to) == from <= e.at /\ e.at < to

Least(name, other) == SelectInSeq(Words, LAMBDA w : w = name) < SelectInSeq(Words, LAMBDA w : w = other)

\* A set as a sequence.
Ordered(S, First(_, _)) == SortSeq(FoldSet(LAMBDA x, s : Append(s, x), <<>>, S), First)

InOrder(S) == IF S = {} THEN <<>> ELSE SelectSeq([i \in 1 .. Max(S) |-> i], LAMBDA i : i \in S)

Abs(n) == IF n < 0 THEN -n ELSE n

Times(evs, name, from, to) ==
    Cardinality({i \in DOMAIN evs : evs[i].name = name /\ In(evs[i], from, to)})

\* Fractions.
AtMost(p, q) == p[1] * q[2] <= q[1] * p[2]

Percent(k, p) == <<k * p[1], 100 * p[2]>>

Per(n, from, to) == IF to <= from THEN <<0, 1>> ELSE <<2 * n, to - from>>

DailyMean(evs, name, from, to) == Per(Times(evs, name, from, to), from, to)

-----------------------------------------------------------------------------
\* whatchanged.  A series is [from, n]: its first day and a count for each day.

Series(evs, name, days, now) ==
    LET first == DayOf(now) - (days - 1)
    IN [from |-> first,
        n |-> [k \in 1 .. days |->
                  Times(evs, name, Midnight(first + k - 1), Min({Midnight(first + k), now + 1}))]]

TrimLeadingSilence(series) ==
    LET live == {k \in DOMAIN series.n : series.n[k] > 0}
    IN IF live = {} THEN [series EXCEPT !.n = <<>>]
       ELSE [from |-> series.from + Min(live) - 1, n |-> SubSeq(series.n, Min(live), Len(series.n))]

SumTo(n) == LET f[k \in 0 .. Len(n)] == IF k = 0 THEN 0 ELSE f[k - 1] + n[k] IN f

\* Twice the median.
Median(n) ==
    LET v == SortSeq(n, <)
        m == Len(n)
    IN IF m % 2 = 1 THEN 2 * v[(m + 1) \div 2] ELSE v[m \div 2] + v[m \div 2 + 1]

\* The two means after i days, their difference times i * (m - i).
Apart(sums, m, i) == sums[i] * (m - i) - (sums[m] - sums[i]) * i

\* Mutant: the means are not weighted by how balanced the split is.
Unweighted(sums, m, i, j) ==
    Abs(Apart(sums, m, i)) * j * (m - j) > Abs(Apart(sums, m, j)) * i * (m - i)

\* The weighted difference of the means after i days is larger than after j.
Stronger(sums, m, i, j) ==
    Apart(sums, m, i) * Apart(sums, m, i) * j * (m - j)
        > Apart(sums, m, j) * Apart(sums, m, j) * i * (m - i)

FirstStrongest(sums, m) ==
    CHOOSE i \in Gate.side .. m - Gate.side :
        \A j \in Gate.side .. m - Gate.side :
            ~Stronger(sums, m, j, i) /\ (j < i => Stronger(sums, m, i, j))

Located(n) == FirstStrongest(SumTo(n), Len(n))

NoChange == [found |-> FALSE, day |-> 0, before |-> 0, after |-> 0]

\* The levels are twice the medians.
Step(day, before, after) ==
    [found |-> /\ before + after > 0
               /\ 100 * Abs(after - before) >= Gate.relative * Max({before, 2}),
     day |-> day, before |-> before, after |-> after]

Levels(series, i) ==
    Step(series.from + i, Median(SubSeq(series.n, 1, i)),
         Median(SubSeq(series.n, i + 1, Len(series.n))))

Detect(series) ==
    IF Len(series.n) < 2 * Gate.side THEN NoChange ELSE Levels(series, Located(series.n))

Drop(change) == change.after < change.before

\* Window and Rank: where to look for the commits behind a change; a commit is [at, ref].
CommitWindow(day, pad) == [from |-> day - pad, to |-> day + pad + 1]

-----------------------------------------------------------------------------
\* Money.

Tally(evs, name, prop) ==
    LET seen == {i \in DOMAIN evs : evs[i].name = name /\ prop \in DOMAIN evs[i].money}
    IN [seen |-> Cardinality(seen),
        numeric |-> Cardinality({i \in seen : evs[i].money[prop].numeric})]

\* The property that carries money: numeric in four of five, and most often, the first of equals.
MoneyProp(evs, name) ==
    LET of == [k \in DOMAIN MoneyProps |-> Tally(evs, name, MoneyProps[k])]
        fit == {k \in DOMAIN MoneyProps : of[k].numeric > 0 /\ 5 * of[k].numeric >= 4 * of[k].seen}
    IN IF fit = {} THEN Nobody
       ELSE MoneyProps[CHOOSE k \in fit : \A j \in fit :
                         \/ of[j].numeric < of[k].numeric
                         \/ (of[j].numeric = of[k].numeric /\ k <= j)]

Priced(evs, name, prop, from) ==
    {i \in DOMAIN evs : /\ evs[i].name = name /\ evs[i].at >= from
                        /\ prop \in DOMAIN evs[i].money
                        /\ evs[i].money[prop].numeric /\ evs[i].money[prop].n >= 0}

Earned(evs, rows, prop) == MapThenSumSet(LAMBDA i : evs[i].money[prop].n, rows)

\* In cents per month, 0 when the metric carries no money.
PerPayer(evs, rows, prop, people) ==
    LET payers == Cardinality({evs[i].who : i \in rows})
        total == Earned(evs, rows, prop)
    IN IF Cardinality(rows) < Gate.priced \/ total = 0 THEN 0
       ELSE (200 * total * people + payers) \div (2 * payers)

InMoney(evs, name, prop, people, o) ==
    IF prop = Nobody THEN 0
    ELSE PerPayer(evs, Priced(evs, name, prop, o.now - 2 * o.days), prop, people)

SizedInMoney(evs, name, people, o) == InMoney(evs, name, MoneyProp(evs, name), people, o)

-----------------------------------------------------------------------------
\* Findings.  `before` and `after` are twice the levels of a day; fp <<>> is no fingerprint.

Fingerprint(kind, event, day) == <<kind, event, day>>

NoCause == [ship |-> Nobody, seg |-> <<>>, examined |-> FALSE]

Finding(kind, event, day, people, cents) ==
    [kind |-> kind, event |-> event, day |-> day, people |-> people, cents |-> cents,
     needs |-> kind = "regression", recovered |-> FALSE, cause |-> NoCause,
     fp |-> Fingerprint(kind, event, day), ruledOut |-> "unasked", move |-> "look", acted |-> -1]

\* What the product sends on purpose, the busiest first.
ProductEvents(evs) ==
    LET Busy(name) == Cardinality({i \in DOMAIN evs : evs[i].name = name})
    IN Ordered({evs[i].name : i \in DOMAIN evs} \ Auto, LAMBDA m, n :
           Busy(m) > Busy(n) \/ (Busy(m) = Busy(n) /\ Least(m, n)))

Monthly(c) == (30 * Abs(c.before - c.after)) \div 2

Costed(c, evs, name, o) ==
    IF c.found /\ c.before >= 2 * Gate.daily /\ Monthly(c) >= Gate.people
    THEN <<Finding(IF Drop(c) THEN "regression" ELSE "surge", name, c.day, Monthly(c),
                   SizedInMoney(evs, name, Monthly(c), o))>>
    ELSE <<>>

ChangeFinding(evs, name, o) ==
    Costed(Detect(TrimLeadingSilence(Series(evs, name, o.days, o.now))), evs, name, o)

\* Events too rare for a percentage to mean anything.
BelowFloor(evs, names, o) ==
    {name \in names : LET rate == DailyMean(evs, name, o.now - 2 * o.days, o.now)
                      IN rate[1] > 0 /\ ~AtMost(<<Gate.daily, 1>>, rate)}

\* deploys.ComputeImpact for one ship: `points` are the days with events, oldest first.
Moved(was, now) ==
    [significant |-> was > 0 /\ 100 * Abs(now - was) >= Gate.moved * was, was |-> was, now |-> now]

ImpactFrom(points, i) ==
    LET Sum(lo, hi) == MapThenSumSet(LAMBDA k : points[k].count, lo .. hi)
    IN IF i <= Gate.ship \/ i + Gate.ship - 1 > Len(points) THEN Moved(0, 0)
       ELSE Moved(Sum(i - Gate.ship, i - 1), Sum(i, i + Gate.ship - 1))

\* From the first day with events that is not before the ship's.
Impact(points, ship) == ImpactFrom(points, SelectInSeq(points, LAMBDA p : p.day >= DayOf(ship.at)))

DailyPoints(evs, name, o) ==
    LET days == {DayOf(evs[i].at) : i \in {j \in DOMAIN evs :
                     evs[j].name = name /\ evs[j].at >= o.now - 2 * o.days}}
        Count(d) == Times(evs, name, Max({Midnight(d), o.now - 2 * o.days}), Midnight(d + 1))
    IN Ordered({[day |-> d, count |-> Count(d)] : d \in days}, LAMBDA p, q : p.day < q.day)

\* The ship within two days of the change that moved the metric most, the newest of equals.
Largest(impacts) ==
    LET Size(m) == <<Abs(m.of.now - m.of.was), m.of.was>>
    IN IF impacts = {} THEN Nobody
       ELSE (CHOOSE m \in impacts : \A n \in impacts \ {m} :
                 \/ ~AtMost(Size(m), Size(n))
                 \/ (AtMost(Size(n), Size(m)) /\ m.ship.at > n.ship.at)).ship.ref

Impacts(points, ships) == {[ship |-> s, of |-> Impact(points, s)] : s \in ships}

ShipNear(evs, name, day, ships, o) ==
    IF ships = {} THEN Nobody
    ELSE Largest({m \in Impacts(DailyPoints(evs, name, o), ships) :
                     Abs(m.ship.at - Midnight(day)) <= 4 /\ m.of.significant})

Value(e, prop) == IF prop \in DOMAIN e.props THEN e.props[prop] ELSE Nobody

WindowEitherSide(evs, name, day) ==
    LET at == {evs[i].at : i \in {j \in DOMAIN evs : evs[j].name = name}}
    IN IF at = {} THEN 0
       ELSE Min({(Midnight(day) - Min(at)) \div 2, (Max(at) - Midnight(day)) \div 2, Gate.span})

\* The dimensions the operator chose to record, most present first.
EventProps(evs, rows) ==
    LET On(prop) == Cardinality({i \in rows : prop \in DOMAIN evs[i].props})
        own == UNION {DOMAIN evs[i].props : i \in rows} \ (ToSet(CauseDims) \cup Auto)
        most == Ordered({p \in own : 2 * On(p) >= Cardinality(rows)}, LAMBDA p, q :
                    On(p) > On(q) \/ (On(p) = On(q) /\ Least(p, q)))
    IN SubSeq(most, 1, Min({Len(most), Gate.custom}))

\* What a value lost between the equal windows either side of the day.
Lost(evs, rows, day, prop, v) ==
    LET of == {i \in rows : Value(evs[i], prop) = v}
        first == {i \in of : evs[i].at < Midnight(day)}
    IN 2 * Cardinality(first) - Cardinality(of)

\* The value that carries most of the loss, or <<>>.
WorstValue(lost, prop) ==
    LET net == MapThenSumSet(LAMBDA v : lost[v], DOMAIN lost)
        worst == CHOOSE v \in DOMAIN lost : \A w \in DOMAIN lost \ {v} :
                     lost[w] < lost[v] \/ (lost[w] = lost[v] /\ Least(v, w))
    IN IF net <= 0 THEN <<>>
       ELSE IF 100 * lost[worst] < Gate.segment * net THEN <<>>
       ELSE <<prop, worst, Min({lost[worst], net}), net>>

Blamed(evs, rows, day, prop) ==
    WorstValue([v \in {Value(evs[i], prop) : i \in rows} \ {Nobody} |->
                   Lost(evs, rows, day, prop, v)], prop)

EitherSide(evs, name, day, span) ==
    {i \in DOMAIN evs : evs[i].name = name /\ In(evs[i], Midnight(day - span), Midnight(day + span))}

Examined(evs, rows, props, day) ==
    LET blamed == SelectSeq([k \in DOMAIN props |-> Blamed(evs, rows, day, props[k])],
                            LAMBDA b : b # <<>>)
    IN [ship |-> Nobody, seg |-> IF blamed = <<>> THEN <<>> ELSE Head(blamed),
        examined |-> \E i \in rows : \E p \in ToSet(props) : Value(evs[i], p) # Nobody]

Segments(evs, rows, day) == Examined(evs, rows, CauseDims \o EventProps(evs, rows), day)

WorstSegment(evs, name, day, span) ==
    IF span <= 0 THEN NoCause ELSE Segments(evs, EitherSide(evs, name, day, span), day)

Attributed(evs, f, ships, o) ==
    [f EXCEPT !.cause =
        [WorstSegment(evs, f.event, f.day, WindowEitherSide(evs, f.event, f.day))
            EXCEPT !.ship = ShipNear(evs, f.event, f.day, ships, o)]]

\* MarkRecovered for one finding.
IsBack(evs, f, o) ==
    LET day == Midnight(f.day)
        before == DailyMean(evs, f.event, day - 2 * Gate.recent, day)
        current == DailyMean(evs, f.event, o.now - 2 * Gate.recent, o.now)
    IN /\ f.kind = "regression"
       /\ o.now - day >= 2 * (Gate.recent + 1)
       /\ before[1] > 0
       /\ AtMost(Percent(Gate.recovered, before), current)

Recovering(evs, f, o) ==
    IF IsBack(evs, f, o)
    THEN [f EXCEPT !.recovered = TRUE, !.move = "recovered", !.needs = FALSE] ELSE f

\* rank.
RankKey(f) == <<IF f.recovered THEN 1 ELSE 0, -f.cents, IF f.needs THEN 0 ELSE 1,
                IF f.kind = "tracking_broke" THEN 0 ELSE 1, -f.people>>

Precedes(f, g) == \E k \in DOMAIN RankKey(f) :
    /\ RankKey(f)[k] < RankKey(g)[k]
    /\ \A j \in 1 .. k - 1 : RankKey(f)[j] = RankKey(g)[j]

Ranked(fs) ==
    LET order == SortSeq([i \in DOMAIN fs |-> i], LAMBDA i, j :
                     Precedes(fs[i], fs[j]) \/ (~Precedes(fs[j], fs[i]) /\ i < j))
    IN [i \in DOMAIN fs |-> fs[order[i]]]

\* Run, on the ships known to the caller: WithContext attributes again, with the deploys.
Report(evs, names, found, ships, o) ==
    [findings |-> Ranked([k \in DOMAIN found |->
                      Recovering(evs, Attributed(evs, found[k], ships, o), o)]),
     scanned |-> names,
     floor |-> BelowFloor(evs, ToSet(names) \ {found[k].event : k \in DOMAIN found}, o)]

RunOver(evs, names, ships, o) ==
    Report(evs, names, FlattenSeq([k \in DOMAIN names |-> ChangeFinding(evs, names[k], o)]), ships, o)

Run(evs, ships, o) == RunOver(evs, ProductEvents(evs), ships, o)
===================================================================================

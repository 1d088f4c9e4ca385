-------------------------------- MODULE Aggregate --------------------------------
(***************************************************************************)
(* The sweep over another vendor's daily counts: internal/connector's      *)
(* aggregate.go, synth.go and investigate.go.                              *)
(*                                                                         *)
(* A bucket is [day, event, count, first, last, segs]: the events of a     *)
(* name on a day, when the first and the last came, and for each dimension *)
(* that was read how many carried each value.  A revenue is [prop, seen,   *)
(* numeric, rows, people, total].  The vendor's events are `raw`; its SQL  *)
(* answers what the reference aggregation computes.                        *)
(***************************************************************************)
EXTENDS Investigate

CONSTANT MaxValues  \* maxSegmentValues

NoSegments == [dim \in {} |-> {}]

NoRevenue == [prop |-> Nobody, seen |-> 0, numeric |-> 0, rows |-> 0, people |-> 0, total |-> 0]

\* PHASE A: DailyCounts over [from, to).
DailyCounts(raw, from, to) ==
    LET Rows(day, name) == {i \in DOMAIN raw : /\ raw[i].name = name /\ DayOf(raw[i].at) = day
                                               /\ In(raw[i], from, to)}
        keys == {<<DayOf(raw[i].at), raw[i].name>> : i \in {j \in DOMAIN raw : In(raw[j], from, to)}}
    IN {LET at == {raw[i].at : i \in Rows(k[1], k[2])}
        IN [day |-> k[1], event |-> k[2], count |-> Cardinality(Rows(k[1], k[2])),
            first |-> Min(at), last |-> Max(at), segs |-> NoSegments] : k \in keys}

\* PHASE B: for one event, day -> dimension -> value -> count, and the dimensions left out.
SegmentCounts(raw, name, from, to, dims) ==
    LET rows == {i \in DOMAIN raw : raw[i].name = name /\ In(raw[i], from, to)}
        Values(S, dim) == {Value(raw[i], dim) : i \in S} \ {Nobody}
        dropped == {dim \in dims : Cardinality(Values(rows, dim)) > MaxValues}
        On(day) == {i \in rows : DayOf(raw[i].at) = day}
    IN [days |-> [day \in {DayOf(raw[i].at) : i \in rows} |->
                     [dim \in {d \in dims \ dropped : Values(On(day), d) # {}} |->
                         [v \in Values(On(day), dim) |->
                             Cardinality({i \in On(day) : Value(raw[i], dim) = v})]]],
        dropped |-> dropped]

RevenueIn(held, rows, prop, tally) ==
    IF prop = Nobody THEN NoRevenue
    ELSE [prop |-> prop, seen |-> tally.seen, numeric |-> tally.numeric, rows |-> Cardinality(rows),
          people |-> Cardinality({held[i].who : i \in rows}), total |-> Earned(held, rows, prop)]

RevenueOn(held, name, prop, from) ==
    RevenueIn(held, Priced(held, name, prop, from), prop, Tally(held, name, prop))

RevenueOf(held, name, from) == RevenueOn(held, name, MoneyProp(held, name), from)

RevenueFor(raw, name, from, to) == RevenueOf(SelectSeq(raw, LAMBDA e : In(e, from, to)), name, from)

Usable(r) ==
    /\ r.prop # Nobody /\ r.numeric > 0 /\ r.people > 0 /\ r.total > 0
    /\ 5 * r.numeric >= 4 * r.seen
    /\ r.rows >= Gate.priced

\* Trim: a bucket stands at the midnight of its day.
Trim(buckets, from, to) == {b \in buckets : from <= Midnight(b.day) /\ Midnight(b.day) < to}

AttachSegments(buckets, name, days) ==
    {IF b.event = name /\ b.day \in DOMAIN days THEN [b EXCEPT !.segs = days[b.day]] ELSE b : b \in buckets}

-----------------------------------------------------------------------------
\* Synthesis.

\* When the i-th of a bucket's events is put.
Spread(b, i) ==
    IF b.count = 1 THEN b.first
    ELSE b.first + ((b.last - b.first) * (i - 1)) \div (b.count - 1)

\* Mutant: the values of a dimension are dropped when they fill the whole day.
ColumnShort(vals, count) ==
    LET order == Ordered(DOMAIN vals, Least)
        col == FlattenSeq([k \in DOMAIN order |-> [n \in 1 .. vals[order[k]] |-> order[k]]])
    IN IF Len(col) >= count THEN <<>> ELSE col

\* The values of one dimension, one after another from the first row; <<>> when they overflow.
Column(vals, count) ==
    LET order == Ordered(DOMAIN vals, Least)
        col == FlattenSeq([k \in DOMAIN order |-> [n \in 1 .. vals[order[k]] |-> order[k]]])
    IN IF Len(col) > count THEN <<>> ELSE col

SynthRow(b, i) ==
    LET placed == {dim \in DOMAIN b.segs : i <= Len(Column(b.segs[dim], b.count))}
    IN [name |-> b.event, at |-> Spread(b, i), who |-> <<b.day, i>>,
        props |-> [dim \in placed |-> Column(b.segs[dim], b.count)[i]],
        money |-> [p \in {} |-> 0]]

Rows(buckets) ==
    LET order == Ordered(buckets, LAMBDA b, c :
                     b.day < c.day \/ (b.day = c.day /\ Least(b.event, c.event)))
    IN FlattenSeq([k \in DOMAIN order |-> [i \in 1 .. order[k].count |-> SynthRow(order[k], i)]])

Placeable(rows, name, r, cutoff) ==
    /\ r.prop # Nobody
    /\ r.seen <= Cardinality({i \in DOMAIN rows : rows[i].name = name})
    /\ r.rows <= Cardinality({i \in DOMAIN rows : rows[i].name = name /\ rows[i].at >= cutoff})

\* overlayRevenue: the priced rows inside the window, the whole total on the first of them; then
\* the refunds and the values that are no number, on the rows left.
Overlaid(rows, name, r, cutoff) ==
    LET of == {i \in DOMAIN rows : rows[i].name = name}
        inside == InOrder({i \in of : rows[i].at >= cutoff})
        spare == InOrder({i \in of : rows[i].at < cutoff})
                     \o SubSeq(inside, r.rows + 1, Len(inside))
        order == SubSeq(inside, 1, r.rows) \o spare
        Amount(k) == IF k = 1 /\ r.rows > 0 THEN [numeric |-> TRUE, n |-> r.total]
                     ELSE IF k <= r.rows THEN [numeric |-> TRUE, n |-> 0]
                     ELSE [numeric |-> k <= r.numeric, n |-> -1]
        Place(i) == SelectInSeq(order, LAMBDA j : j = i)
    IN [i \in DOMAIN rows |->
           IF i \notin of \/ Place(i) > r.seen THEN rows[i]
           ELSE [rows[i] EXCEPT !.money = r.prop :> Amount(Place(i)),
                                !.who = IF Place(i) <= r.rows
                                        THEN <<-1, (Place(i) - 1) % Max({r.people, 1})>> ELSE @]]

Synthesize(buckets, revenue, cutoff) ==
    FoldLeft(LAMBDA rows, name : IF Placeable(rows, name, revenue[name], cutoff)
                                 THEN Overlaid(rows, name, revenue[name], cutoff) ELSE rows,
             Rows(buckets), Ordered(DOMAIN revenue, Least))

-----------------------------------------------------------------------------
\* The two passes.  A failed breakdown leaves its event without a cause and says so.

Targets(findings) == {f \in ToSet(findings) : \A g \in ToSet(findings) : g.event = f.event => g = f}

ReadSegments(raw, buckets, found) ==
    FoldSet(LAMBDA f, bs : AttachSegments(bs, f.event,
                SegmentCounts(raw, f.event, Midnight(f.day - 8), Midnight(f.day + 8),
                              ToSet(CauseDims)).days),
            buckets, found)

\* What the overlay cannot place is left out; a metric whose breakdown failed has no cause.
Refined(rows, revenue, usable, targets, read, from, o) ==
    [findings |-> Run(rows, {}, o).findings,
     degraded |-> {<<"sequence", Nobody>>, <<"people_rates", Nobody>>}
         \cup {<<"segment_unavailable", f.event>> : f \in targets \ read}
         \cup {<<"revenue_floor", n>> : n \in {m \in DOMAIN revenue \ usable : revenue[m].prop # Nobody}}
         \cup {<<"revenue_unplaceable", n>> : n \in {m \in usable : ~Placeable(rows, m, revenue[m], from)}}]

Sized(buckets, revenue, usable, targets, read, from, o) ==
    Refined(Synthesize(buckets, [n \in usable |-> revenue[n]], from), revenue, usable, targets, read,
            from, o)

SecondPass(raw, kept, targets, read, from, o) ==
    LET revenue == [n \in {f.event : f \in read} |-> RevenueFor(raw, n, from, o.now)]
    IN Sized(ReadSegments(raw, kept, read), revenue, {n \in DOMAIN revenue : Usable(revenue[n])},
             targets, read, from, o)

FirstPass(raw, kept, targets, failing, from, o) ==
    SecondPass(raw, kept, targets, {f \in targets : f.event \notin failing}, from, o)

Investigated(raw, held, failing, o) ==
    LET from == o.now - 2 * o.days
        kept == Trim(held, from, o.now)
        rows == Synthesize(kept, [n \in {} |-> NoRevenue], from)
    IN FirstPass(raw, kept, Targets(Run(rows, {}, o).findings), failing, from, o)
===================================================================================

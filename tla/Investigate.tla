------------------------------- MODULE Investigate -------------------------------
(***************************************************************************)
(* The whole investigation: the sweep, the tracking breaks among its       *)
(* findings, the ships that moved nothing, the marks of the outcome        *)
(* ledger, and the replay over history (internal/investigate).             *)
(*                                                                         *)
(* o is [now, days, planned]: `planned` is the set of declared events, {}  *)
(* for a nil lookup.  A flag is [key, started, stopped, ...], a time that  *)
(* is not set is Unset.                                                    *)
(***************************************************************************)
EXTENDS Sweep

CONSTANT Unset

Larger(p, q) == IF AtMost(p, q) THEN q ELSE p

\* The floor below which an event is silent, by its rate before.
SilenceFloor(before) == Larger(<<1, 1>>, Percent(Gate.silence, before))

QuietFullDays(evs, name, day, now, floor) ==
    Cardinality({d \in day .. DayOf(now) - 1 :
                     AtMost(<<Times(evs, name, Midnight(d), Midnight(d + 1)), 1>>, floor)})

\* The page an event overwhelmingly fires on.
DominantPath(evs, name, from, to) ==
    LET rows == {i \in DOMAIN evs : evs[i].name = name /\ In(evs[i], from, to)}
        On(p) == Cardinality({i \in rows : Value(evs[i], "path") = p})
        paths == {Value(evs[i], "path") : i \in rows} \ {Nobody}
        best == CHOOSE p \in paths : \A q \in paths \ {p} :
                    On(p) > On(q) \/ (On(p) = On(q) /\ Least(p, q))
        enough == /\ rows # {} /\ paths # {}
                  /\ 100 * MapThenSumSet(On, paths) >= Gate.coverage * Cardinality(rows)
                  /\ 100 * On(best) >= Gate.dominance * Cardinality(rows)
    IN IF enough THEN best ELSE Nobody

PathViewMean(evs, path, from, to) ==
    Per(Cardinality({i \in DOMAIN evs : /\ evs[i].name = PageView /\ In(evs[i], from, to)
                                        /\ Value(evs[i], "path") = path}), from, to)

OtherEventsMean(evs, name, from, to) ==
    Per(Cardinality({i \in DOMAIN evs : evs[i].name # name /\ In(evs[i], from, to)}), from, to)

\* The metric whose survival shows that the product did not change, [busy, before, after].
Witness(before, after) == [busy |-> AtMost(<<Gate.daily, 1>>, before), before |-> before, after |-> after]

EitherWitness(path, page, rest) == IF path # Nobody /\ page.busy THEN page ELSE rest

WitnessOn(evs, name, path, from, at, now) ==
    EitherWitness(path, Witness(PathViewMean(evs, path, from, at), PathViewMean(evs, path, at, now)),
                  Witness(OtherEventsMean(evs, name, from, at), OtherEventsMean(evs, name, at, now)))

WitnessFor(evs, name, from, at, now) ==
    WitnessOn(evs, name, DominantPath(evs, name, from, at), from, at, now)

Fell(w) == ~AtMost(Percent(Gate.held, w.before), w.after)

\* The gates in the order they are asked: the first that refuses, or "broke".
GatesOn(evs, f, o, after, floor, age, w) ==
    IF o.planned = {} THEN "no plan"
    ELSE IF f.event \notin o.planned THEN "not planned"
    ELSE IF ~AtMost(after, floor) THEN "still arriving"
    ELSE IF age < Gate.young THEN "too young"
    ELSE IF age > Gate.old THEN "too old"
    ELSE IF QuietFullDays(evs, f.event, f.day, o.now, floor) < Gate.quiet THEN "not sustained"
    ELSE IF ~w.busy THEN "no witness"
    ELSE IF Fell(w) THEN "witness fell"
    ELSE "broke"

TrackingGate(evs, f, o) ==
    LET day == Midnight(f.day)
        prior == Midnight(f.day - Gate.prior)
    IN GatesOn(evs, f, o, DailyMean(evs, f.event, day, o.now),
               SilenceFloor(DailyMean(evs, f.event, prior, day)), (o.now - day) \div 2,
               WitnessFor(evs, f.event, prior, day, o.now))

\* promoteTracking: a recovered finding asks for a human again.
Promoted(f) ==
    [f EXCEPT !.kind = "tracking_broke", !.ruledOut = "", !.people = 0, !.cents = 0,
              !.needs = TRUE, !.move = "put it back",
              !.fp = Fingerprint("tracking_broke", f.event, f.day)]

\* Mutant: whether the event is silent now is not asked.
RuledInAnyCase(f, gate) ==
    IF gate \in {"broke", "still arriving"} THEN Promoted(f) ELSE [f EXCEPT !.ruledOut = gate]

Ruled(f, gate) == IF gate = "broke" THEN Promoted(f) ELSE [f EXCEPT !.ruledOut = gate]

Classified(evs, f, o) == IF f.kind = "regression" THEN Ruled(f, TrackingGate(evs, f, o)) ELSE f

-----------------------------------------------------------------------------
\* The ships that moved nothing.

\* readFlat: a report [control, exposed, arms], an arm [significant, small, defined].
ReadsFlat(rep) ==
    /\ rep.control /\ rep.arms # {}
    /\ \A a \in rep.arms : ~a.significant /\ ~a.small /\ a.defined

Dud(flag, o) ==
    LET rep == Reading(flag, flag.started, o.now)
    IN IF /\ flag.started # Unset /\ flag.stopped = Unset
          /\ (o.now - flag.started) \div 2 >= Gate.kill
          /\ ReadsFlat(rep) /\ rep.exposed >= Gate.people
       THEN <<[Finding("dead_ship", flag.key, DayOf(flag.started), rep.exposed, 0)
                  EXCEPT !.fp = <<>>, !.move = "conclude"]>>
       ELSE <<>>

KillList(flags, o) ==
    LET order == Ordered(flags, LAMBDA f, g : Least(f.key, g.key))
    IN FlattenSeq([k \in DOMAIN order |-> Dud(order[k], o)])

InContext(run, evs, flags, o) ==
    [run EXCEPT !.findings = Ranked([k \in DOMAIN run.findings |-> Classified(evs, run.findings[k], o)]
                                        \o KillList(flags, o))]

WithContext(evs, flags, ships, o) == InContext(Run(evs, ships, o), evs, flags, o)

\* ApplyActed: the marks on the findings they were made on.
Acted(f, marks, now) ==
    IF f.fp \notin DOMAIN marks THEN f
    ELSE [f EXCEPT !.acted = marks[f.fp],
                   !.move = IF f.recovered THEN "verified"
                            ELSE IF f.kind = "regression" THEN "still down" ELSE @]

-----------------------------------------------------------------------------
\* The replay.

Before(evs, at) == SelectSeq(evs, LAMBDA e : e.at < at)

ShipsBefore(ships, at) == {s \in ships : s.at < at}

FlagsBefore(flags, at) == {f \in flags : f.started = Unset \/ f.started <= at}

\* Mutant: a sweep of the replay sees the whole log.
ReplayedWhole(evs, flags, ships, o, at) ==
    WithContext(evs, FlagsBefore(flags, at), ShipsBefore(ships, at), [o EXCEPT !.now = at])

\* What the sweep of the replay at a time finds.
Replayed(evs, flags, ships, o, at) ==
    IF Before(evs, at) = <<>> THEN [findings |-> <<>>, scanned |-> <<>>, floor |-> {}]
    ELSE WithContext(Before(evs, at), FlagsBefore(flags, at), ShipsBefore(ships, at),
                     [o EXCEPT !.now = at])

SweepTimes(o, window, step) == {o.now - 2 * window + 2 * step * k : k \in 0 .. window \div step}

\* Each (kind, event, day) with the first sweep that saw it, and how long that took.
SeenBy(findings, at) ==
    {[kind |-> f.kind, event |-> f.event, day |-> f.day, first |-> at] : f \in ToSet(findings)}

Firsts(seen) ==
    {d \in seen : \A e \in seen : e.kind = d.kind /\ e.event = d.event /\ e.day = d.day
                                     => e.first >= d.first}

Backtest(evs, flags, ships, o, window, step) ==
    Firsts(UNION {SeenBy(Replayed(evs, flags, ships, o, at).findings, at) :
                      at \in SweepTimes(o, window, step)})
===================================================================================

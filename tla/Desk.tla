----------------------------------- MODULE Desk -----------------------------------
(***************************************************************************)
(* The desk (internal/desk) and the doors that serve it, over a product    *)
(* whose traffic changes from one day to the next.                         *)
(*                                                                         *)
(* A step of time takes the instance from one noon to the next: the        *)
(* evening of the day under its traffic, the morning of the next, and the  *)
(* sweep at noon.  Between two noons an operator deploys, marks a finding  *)
(* as acted on, starts an experiment and deletes its flag, and the safety  *)
(* pass may revert it (FlagControl).                                       *)
(***************************************************************************)
EXTENDS Aggregate, Insight

CONSTANTS
    Shapes,     \* the kinds of day: shape -> [morning, evening], sequences of events without a time
    Usual,      \* the shape of the days before the first sweep
    Declared,   \* the events of the tracking plan, in order
    Expected,   \* the properties the plan declares for each
    Thrown,     \* the errors that may be hit
    Ref,        \* a deploy
    Key,        \* an experiment's flag, with a guardrail
    Receipt,    \* RevertEvent
    DetectionEnabled,
    Lookback,   \* Opts.Days of every sweep
    Dated,      \* how long ago a deploy may be said to have been, in half days; 0 is unsaid
    MaxActs, PastDays, LastDay,
    MaxMoves    \* bound: changes of traffic and acts of the operator

VARIABLES now, log, shape, plan, marks, trial, ships, desk, told, moves

vars == <<now, log, shape, plan, marks, trial, ships, desk, told, moves>>

Noon(day) == Midnight(day) + 1

Running(flag) == flag.started # Unset /\ flag.stopped = Unset /\ flag.reverted = Unset

\* The lookup of the plan; {} is the nil lookup, which refuses.
Planned == IF DetectionEnabled THEN ToSet(plan) ELSE {}

Options == [now |-> now, days |-> Lookback, planned |-> Planned]

-----------------------------------------------------------------------------
\* The ledger.

\* The receipts since a time, newest first.
Acts(evs, from) ==
    LET of == {i \in DOMAIN evs : evs[i].name = Receipt /\ evs[i].at >= from}
        newest == Ordered(of, LAMBDA i, j : evs[i].at > evs[j].at
                                                 \/ (evs[i].at = evs[j].at /\ i < j))
    IN [k \in 1 .. Min({MaxActs, Cardinality(of)}) |-> evs[newest[k]].at]

Watches(inv, flags, declared, planned) ==
    LET running == {f.key : f \in {g \in flags : Running(g)}}
    IN [armed |->
            (IF inv.scanned = <<>> THEN {} ELSE {<<"step_change", Nobody>>})
            \cup {<<"guardrail", k>> : k \in running}
            \cup {<<"tracking", n>> : n \in ToSet(declared) \cap ToSet(inv.scanned) \cap planned},
        cold |->
            (IF running = {} THEN {<<"guardrail", Nobody>>} ELSE {})
            \cup (IF planned = {} THEN {<<"tracking", Nobody>>} ELSE {})
            \cup {<<"floor", n>> : n \in inv.floor}]

\* Open work first by who needs a human, then by cost; closed work is what was acted on.
Ledger(inv, evs, flags, declared, o) ==
    LET open == SelectSeq(inv.findings, LAMBDA f : f.acted = -1)
    IN [acts |-> Acts(evs, o.now - 2 * o.days),
        watches |-> Watches(inv, flags, declared, o.planned),
        open |-> SelectSeq(open, LAMBDA f : f.needs) \o SelectSeq(open, LAMBDA f : ~f.needs),
        closed |-> SelectSeq(inv.findings, LAMBDA f : f.acted # -1)]

ApplyActed(inv, done, at) ==
    [inv EXCEPT !.findings = [k \in DOMAIN inv.findings |-> Acted(inv.findings[k], done, at)]]

WithLedger(inv, evs, flags, declared, o) ==
    [inv |-> inv, ledger |-> Ledger(inv, evs, flags, declared, o)]

BuildDesk(evs, flags, deployed, done, declared, o) ==
    WithLedger(ApplyActed(WithContext(evs, flags, deployed, o), done, o.now), evs, flags, declared, o)

-----------------------------------------------------------------------------
\* The other doors.

\* /v1/explain: the deploys less than two days from the change.
ApiExplain(evs, name, days, deployed, at) ==
    LET c == Detect(TrimLeadingSilence(Series(evs, name, days, at)))
    IN [change |-> c,
        near |-> IF c.found THEN {s \in deployed : Abs(s.at - Midnight(c.day)) < 4} ELSE {}]

\* The tool explain_change: the deploys on the days of the window the commits are looked for in.
ToolExplain(evs, name, days, deployed, at) ==
    LET c == Detect(TrimLeadingSilence(Series(evs, name, days, at)))
        w == CommitWindow(c.day, 3)
    IN [change |-> c,
        near |-> IF c.found THEN {s \in deployed : w.from <= DayOf(s.at) /\ DayOf(s.at) <= w.to} ELSE {}]

\* /v1/backtest and the tool backtest ask without a tracking plan.  /v1/backtest may repeat an
\* answer it gave in the last hour (backtest.go:76): here it is asked once.
Refused(window, step) == window \div step > 180

AskBacktest(window, step) ==
    IF Refused(window, step) THEN {}
    ELSE Backtest(log, {trial}, ships, [Options EXCEPT !.planned = {}], window, step)

-----------------------------------------------------------------------------

Timed(evs, at) == [k \in DOMAIN evs |-> [evs[k] EXCEPT !.at = at]]

Day(s, day) == Timed(Shapes[s].morning, Midnight(day)) \o Timed(Shapes[s].evening, Noon(day))

\* The connector aggregates a vendor's copy of the same events.
VendorSweep(evs, failing, o) ==
    Investigated(evs, DailyCounts(evs, o.now - 2 * o.days, o.now), failing, o)

Told(findings, at) ==
    told \cup {[kind |-> f.kind, event |-> f.event, day |-> f.day, first |-> at] :
                   f \in {g \in ToSet(findings) : \A t \in told :
                            t.kind # g.kind \/ t.event # g.event \/ t.day # g.day}}

\* No handler stops an experiment: `stopped` is read, and stays Unset.
NoTrial == [key |-> Key, started |-> Unset, stopped |-> Unset, reverted |-> Unset]

Init ==
    /\ now = Noon(PastDays)
    /\ shape = Usual
    /\ log = FlattenSeq([k \in 1 .. PastDays |-> Day(Usual, k - 1)])
                 \o Timed(Shapes[Usual].morning, Midnight(PastDays))
    /\ plan \in {<<>>, Declared}
    /\ marks = [fp \in {} |-> 0]
    /\ trial = NoTrial
    /\ ships = {} /\ told = {} /\ moves = 0
    /\ desk = [inv |-> [findings |-> <<>>, scanned |-> <<>>, floor |-> {}],
               ledger |-> [acts |-> <<>>, watches |-> [armed |-> {}, cold |-> {}],
                           open |-> <<>>, closed |-> <<>>]]

Spend == moves < MaxMoves /\ moves' = moves + 1

\* To the next noon; the day that begins may be of another kind.
NextNoon(s) ==
    LET o == [Options EXCEPT !.now = now + 2]
    IN /\ DayOf(now) < PastDays + LastDay
       /\ IF s = shape THEN UNCHANGED moves ELSE Spend
       /\ now' = o.now
       /\ shape' = s
       /\ log' = log \o Timed(Shapes[shape].evening, now) \o Timed(Shapes[s].morning, now + 1)
       /\ desk' = BuildDesk(log', {trial}, ships, marks, plan, o)
       /\ told' = Told(desk'.inv.findings, o.now)
       /\ UNCHANGED <<plan, marks, trial, ships>>

\* Record, through any door: a deploy of this instant, or of the time or the date it is given.
Ship(ago) ==
    /\ ships = {} /\ Spend
    /\ ships' = {[at |-> now - ago, ref |-> Ref]}
    /\ UNCHANGED <<now, log, shape, plan, marks, trial, desk, told>>

\* markActed, toolMarkActed: an empty fingerprint is refused, the first mark is kept.
Mark(f) ==
    /\ f.fp # <<>> /\ f.fp \notin DOMAIN marks /\ Spend
    /\ marks' = marks @@ (f.fp :> now)
    /\ UNCHANGED <<now, log, shape, plan, trial, ships, desk, told>>

Start ==
    /\ trial = NoTrial /\ Spend
    /\ trial' = [trial EXCEPT !.started = now]
    /\ UNCHANGED <<now, log, shape, plan, marks, ships, desk, told>>

\* The flag is deleted, with its experiment.
Delete ==
    /\ trial # NoTrial /\ Spend
    /\ trial' = NoTrial
    /\ UNCHANGED <<now, log, shape, plan, marks, ships, desk, told>>

\* autoRevert, with the receipt it writes.
Revert ==
    /\ Running(trial) /\ Spend
    /\ trial' = [trial EXCEPT !.reverted = now]
    /\ log' = Append(log, [name |-> Receipt, at |-> now, who |-> Nobody,
                           props |-> [p \in {} |-> Nobody], money |-> [p \in {} |-> 0]])
    /\ UNCHANGED <<now, shape, plan, marks, ships, desk, told>>

Next ==
    \/ \E s \in DOMAIN Shapes : NextNoon(s)
    \/ \E ago \in Dated : Ship(ago)
    \/ Start \/ Delete \/ Revert
    \/ \E f \in ToSet(desk.inv.findings) : Mark(f)

Spec == Init /\ [][Next]_vars

-----------------------------------------------------------------------------
\* How much of the squared deviation a split explains, as a fraction.
Explains(n, i) ==
    LET m == Len(n)
        sums == SumTo(n)
        rest == sums[m] - sums[i]
    IN <<sums[i] * sums[i] * (m - i) + rest * rest * i, i * (m - i)>>

\* No split leaves the days on its sides closer to their means, and no earlier one as close.
BestSplit(n, i) ==
    /\ i \in Gate.side .. Len(n) - Gate.side
    /\ \A j \in Gate.side .. Len(n) - Gate.side :
           AtMost(Explains(n, j), Explains(n, i)) /\ (j < i => ~AtMost(Explains(n, i), Explains(n, j)))

Explained(f, series, api, tool) ==
    /\ BestSplit(series.n, f.day - series.from)
    /\ api.change = tool.change /\ api.change.day = f.day
    /\ f.cause.ship # Nobody => \E s \in tool.near :
           s.ref = f.cause.ship /\ (s \in api.near \/ Abs(s.at - Midnight(f.day)) = 4)

\* The day a finding names is the one that splits the metric best, /v1/explain and explain_change
\* name it too, and a ship that is blamed is one both of them list, but for /v1/explain if the ship
\* is two days away to the instant, as one given by its date may be.
DetectExact ==
    \A f \in {g \in ToSet(desk.inv.findings) : g.kind # "dead_ship"} :
        Explained(f, TrimLeadingSilence(Series(log, f.event, Options.days, now)),
                 ApiExplain(log, f.event, Options.days, ships, now),
                 ToolExplain(log, f.event, Options.days, ships, now))

\* A metric that came as often in the last day as on each of the days before it came on.
Steady(name) ==
    LET Came(k) == CountIn(log, name, now - 2 * (k + 1), now - 2 * k)
    IN \A k \in 1 .. Bar.base : Came(k) \in {0, Came(0)}

AsksInVain(f) ==
    \/ f.recovered /\ (f.needs \/ f.kind = "tracking_broke")
    \/ \E g \in ToSet(desk.inv.findings) : ~g.recovered /\ RankKey(g)[1] < RankKey(f)[1] /\ f.needs

\* An alert on a day's change of a metric, by any tenth or more.
Stirs(name) ==
    \E op \in {"gt", "lt"} :
        Met([kind |-> "relative", event |-> name, op |-> op, threshold |-> 10, window |-> 2], log, now)

\* What has recovered asks nobody, every finding of the sweep is open or closed, a metric that
\* came as ever is no anomaly and meets no alert on its change, and the ledger watches the tracking
\* of those declared events that the plan's health finds arriving and event_source does not call
\* silent.
NobodyIsAskedInVain ==
    LET l == desk.ledger
        health == PlanHealth(log, [n \in Planned |-> Expected[n]], 0)
        source == EventSource(log, Planned, 0)
    IN /\ \A f \in ToSet(desk.inv.findings) : ~AsksInVain(f)
       /\ ToSet(l.open) \cup ToSet(l.closed) = ToSet(desk.inv.findings)
       /\ \A f \in ToSet(Anomalies(log, now)) : ~Steady(f.metric)
       /\ \A n \in ToSet(Declared) : Steady(n) => ~Stirs(n)
       /\ desk.inv.scanned # <<>> => \A n \in Planned :
             /\ health.events[n].count > 0 <=> <<"tracking", n>> \in l.watches.armed
             /\ health.events[n].count > 0 <=> source[n] # "silent"

FunnelReport(steps) == R!Funnel(As(log, Nobody), Query(steps, "ordered"))

SegmentReport(steps, prop) == R!Segments(R!StampFirstTouch(As(log, prop)), Query(steps, "ordered"))

\* A finding's transition, with its base and its rate, is in the counts of a report.
Shows(counts, steps, f) ==
    \E i \in 1 .. Len(steps) - 1 :
        /\ steps[i] = f.from /\ steps[i + 1] = f.to
        /\ f.n = counts[i] /\ f.rate = Rounded(counts[i + 1], counts[i])

Warned(fs, kind) == {f \in ToSet(fs) : f.kind = kind /\ f.severity = "warn"}

\* The drop is the funnel's, the segment to blame is the breakdown's and falls below the drop
\* beside it, and the brief of either re-runs the funnel it was found in.
Reported(fs, page) ==
    /\ \A f \in Warned(fs, "dropoff") : Shows(FunnelReport(f.steps), f.steps, f)
    /\ \A f \in Warned(fs, "segment") :
          /\ LET report == SegmentReport(f.steps, f.prop)
             IN f.value \in DOMAIN report /\ Shows(report[f.value], f.steps, f)
          /\ \E g \in Warned(fs, "dropoff") :
                 g.from = f.from /\ g.to = f.to /\ g.steps = f.steps /\ f.rate < g.rate
    /\ \A f \in Warned(fs, "dropoff") \cup Warned(fs, "segment") :
          LET brief == BriefOf(log, fs, page, Title(f))
          IN brief # <<>> /\ brief[1].finding = f /\ brief[1].counts = FunnelReport(f.steps)

\* Who hit an error and who did not are the entrants and the converted of the funnel together.
AddsUp(impacts, counts) ==
    \A i \in impacts : /\ i.hit.entered + i.clean.entered = counts[1]
                       /\ i.hit.converted + i.clean.converted = counts[Len(counts)]

\* No more people walk the funnel that is proposed than the report of its pages counts.
WithinReport(p) ==
    LET pages == SelectSeq(log, LAMBDA e : e.name = PageView)
        counts == R!Funnel([i \in DOMAIN pages |->
                               [user |-> pages[i].who, name |-> Value(pages[i], "path"),
                                at |-> pages[i].at, plan |-> Nobody]],
                           [steps |-> p.route, window |-> 0, order |-> "ordered", exclude |-> {}])
    IN p.people[1] = counts[1] /\ \A k \in DOMAIN counts : p.people[k] <= counts[k]

\* The page and the other doors say the same where a journey can be told, and everywhere an alert
\* on anomalies is met when the page warns of one.
SameVerdict(fs) ==
    IF DetectJourney(log) # <<>> THEN fs = Generate(log, now)
    ELSE Met([kind |-> "anomaly"], log, now) <=> Warned(fs, "anomaly") # {}

Agrees(page, fs) ==
    /\ Reported(fs, page) /\ SameVerdict(fs)
    /\ AddsUp(FunnelImpact(log, Thrown, page), FunnelReport(page))
    /\ \A p \in ToSet(ProposeFunnel(log)) : WithinReport(p)

\* Every figure of the verdict is one the report beside it shows: the drop-off, the segment to
\* blame, the briefs of both, the errors against the funnel and the funnel proposed.  The verdict
\* reads the log alone.
VerdictIsTheReport ==
    plan = <<>> /\ ships = {} /\ trial = NoTrial /\ DOMAIN marks = {} =>
        Agrees(DetectFunnel(log), OnThePage(log, now))

Kinds(k) == IF k = "tracking_broke" THEN "regression" ELSE k

\* The replay dates every finding by the sweep that told it: it never knows more than was known,
\* and forgets only the verdict on an experiment whose flag was deleted since.
History(dated) ==
    Firsts({[kind |-> Kinds(t.kind), event |-> t.event, day |-> t.day, first |-> t.first] : t \in dated})

Replays(replay, history) ==
    /\ replay \subseteq history
    /\ \A t \in history \ replay :
          t.kind = "dead_ship" /\ (trial.started = Unset \/ DayOf(trial.started) # t.day)

ReplayIsHistory ==
    DayOf(now) = PastDays + LastDay =>
        Replays(AskBacktest(LastDay - 1, 1), History(told))

Change(f) == <<f.kind, f.event, f.day, f.people>>

Facts(f) == <<Change(f), f.cents, f.cause.seg, f.cause.examined>>

\* A metric whose breakdown failed is told without a cause and without money, and said to be.
Alike(ours, vendors, failing, degraded) ==
    /\ {Facts(f) : f \in {g \in ours : g.event \notin failing}}
         = {Facts(f) : f \in {g \in vendors : g.event \notin failing}}
    /\ {Change(f) : f \in ours} = {Change(f) : f \in vendors}
    /\ \A f \in vendors : f.event \in failing =>
          f.cents = 0 /\ f.cause = NoCause /\ <<"segment_unavailable", f.event>> \in degraded

\* Where no plan is declared and no experiment planned, of which a vendor's counts know nothing, a
\* sweep over them finds what a sweep of the events found: the same changes, on the same days, of
\* the same size in people and in money, carried by the same segment.
AggregatesAgree ==
    plan = <<>> /\ trial = NoTrial =>
        \A failing \in {{}, ToSet(Declared)} :
            LET v == VendorSweep(log, failing, Options)
            IN Alike({f \in ToSet(desk.inv.findings) : f.kind # "dead_ship"},
                     ToSet(v.findings), failing, v.degraded)
===================================================================================

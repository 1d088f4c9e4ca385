-------------------------------- MODULE Reports --------------------------------
(***************************************************************************)
(* The reports computed from a sequence of events in storage order:        *)
(* internal/funnel, cohort, retention, engagement, trends, session, paths  *)
(* and person.                                                             *)
(*                                                                         *)
(* An event is [user, name, at, plan, set].  Time is a natural number,     *)
(* Day, Week and Second are the lengths of a day, a week and a second;     *)
(* `plan` stands for the properties an event carries and `set` for those   *)
(* of its $set bag, NoPlan for none.  A bound of a window is a time or     *)
(* Unbounded.  What the tool writes about itself is never in the sequence: *)
(* every report here drops it first, or asks for one name.                 *)
(***************************************************************************)
EXTENDS Integers, SequencesExt

CONSTANTS
    Day, Week,      \* lengths
    Second,         \* the grain of a Unix time, in which a visit is named
    GapLength,      \* session.gapMinutes
    Identify,       \* person.IdentifyEvent
    MaxDayBuckets,  \* trends.maxDayBuckets
    MaxWeekBuckets, \* trends.ComputeInterval: the limit of a coarser grain
    NoPlan, Unbounded

\* A visit is named by a second, which is shorter than the silence that ends it.
ASSUME GrainAssumption == Second \in Nat \ {0} /\ Second <= GapLength /\ Day % Second = 0

UsersOf(evs) == {evs[i].user : i \in DOMAIN evs}

Of(evs, user) == SelectSeq(evs, LAMBDA e : e.user = user)

Named(evs, name) == SelectSeq(evs, LAMBDA e : e.name = name)

ByTime(evs) == SortSeq(evs, LAMBDA d, e : d.at < e.at)

Count(S) == Cardinality(S)

-----------------------------------------------------------------------------
\* funnel.  A query is [steps, window, order, exclude]; window 0 is no window.

Rank(steps, name) == IF name \in ToSet(steps) THEN SelectInSeq(steps, LAMBDA s : s = name)
                     ELSE Len(steps) + 1

\* Mutant: ties in time are left as the storage yields them.
SortByTime(evs, steps) == ByTime(evs)

\* Ties in time go by the order of the steps.
SortForFunnel(evs, steps) ==
    SortSeq(evs, LAMBDA d, e : \/ d.at < e.at
                               \/ d.at = e.at /\ Rank(steps, d.name) < Rank(steps, e.name))

\* The steps an event may be taken for, given those seen.
Candidates(q, seen, name) ==
    {i \in DOMAIN q.steps \ seen :
        /\ q.steps[i] = name
        /\ q.order # "unordered" => i = Count(seen) + 1}

\* One event of the scan from an anchor.
Scanned(q, walk, anchor, e) ==
    LET found == Candidates(q, walk.seen, e.name)
    IN IF walk.over \/ walk.seen = DOMAIN q.steps THEN walk
       ELSE IF q.window > 0 /\ e.at - anchor.at > q.window THEN [walk EXCEPT !.over = TRUE]
       ELSE IF e.name \in q.exclude THEN [walk EXCEPT !.over = TRUE, !.excluded = TRUE]
       ELSE IF found # {} THEN [walk EXCEPT !.seen = @ \cup {Min(found)}]
       ELSE [walk EXCEPT !.over = q.order = "strict"]

\* The scan from the event at i, which some step (the first, unless the order is
\* free) matches.
Walk(evs, q, i) ==
    LET start == [seen |-> {Min(Candidates(q, {}, evs[i].name))}, over |-> FALSE,
                  excluded |-> FALSE]
    IN FoldLeft(LAMBDA walk, e : Scanned(q, walk, evs[i], e), start, SubSeq(evs, i + 1, Len(evs)))

\* How many steps in a row from the first were seen.
Depth(q, seen) == Max({k \in 0 .. Len(q.steps) : 1 .. k \subseteq seen})

\* The furthest any anchor gets that no exclusion disqualifies.
FurthestStep(userEvs, q) ==
    LET evs     == SortForFunnel(userEvs, q.steps)
        anchors == {i \in DOMAIN evs : Candidates(q, {}, evs[i].name) # {}}
        walks   == {Walk(evs, q, i) : i \in anchors}
    IN Max({0} \cup {Depth(q, walk.seen) : walk \in {w \in walks : ~w.excluded}})

Funnel(evs, q) ==
    LET reached == {[user |-> u, step |-> FurthestStep(Of(evs, u), q)] : u \in UsersOf(evs)}
    IN [k \in DOMAIN q.steps |-> Count({r \in reached : r.step >= k})]

-----------------------------------------------------------------------------
\* cohort.

\* Resolve: who did any, or all, of the named events.
Members(evs, names, match) ==
    LET done == [u \in UsersOf(evs) |-> {n \in names : Named(Of(evs, u), n) # <<>>}]
    IN {u \in DOMAIN done : IF match = "all" THEN done[u] = names ELSE done[u] # {}}

\* The greedy search of one step after position i; 0 if there is none.
FirstFrom(evs, i, name) ==
    LET js == {j \in i + 1 .. Len(evs) : evs[j].name = name}
    IN IF i = 0 \/ js = {} THEN 0 ELSE Min(js)

\* matchSequence: does some occurrence of the first step lead to the others
\* within the span, with none of the excluded in it?
MatchSequence(userEvs, steps, within, exclude) ==
    LET evs == ByTime(userEvs)
        \* The position of the last step, or 0.
        End(i) == FoldLeft(LAMBDA j, name : FirstFrom(evs, j, name), i, Tail(steps))
    IN \E i \in DOMAIN evs :
           /\ evs[i].name = Head(steps)
           /\ End(i) # 0
           /\ within > 0 => evs[End(i)].at - evs[i].at <= within
           /\ \A e \in ToSet(evs) : e.name \in exclude => e.at < evs[i].at \/ e.at > evs[End(i)].at

Sequence(evs, steps, within, exclude) ==
    {u \in UsersOf(evs) : MatchSequence(Of(evs, u), steps, within, exclude)}

-----------------------------------------------------------------------------
\* retention and engagement.

Period(t, length) == t \div length

Periods(userEvs, length) == {Period(userEvs[i].at, length) : i \in DOMAIN userEvs}

\* ComputeBucketed: the cohort of a period is who was first active in it.
Cohorts(evs, max, length, rolling) ==
    LET active    == [u \in UsersOf(evs) |-> Periods(Of(evs, u), length)]
        first     == [u \in DOMAIN active |-> Min(active[u])]
        In(c)     == {u \in DOMAIN active : first[u] = c}
        Back(u, n) == IF rolling THEN Max(active[u]) >= first[u] + n ELSE first[u] + n \in active[u]
    IN [c \in {first[u] : u \in DOMAIN first} |->
            [size     |-> Count(In(c)),
             returned |-> [n \in 0 .. max |-> Count({u \in In(c) : Back(u, n)})]]]

\* Mutant: a period in progress is shown.
ObservableEarly(cohort, n, now, length) == n = 0 \/ cohort + n <= Period(now, length)

\* A period is shown once it is over.
Observable(cohort, n, now, length) == n = 0 \/ cohort + n < Period(now, length)

\* SerializeCohorts: the cells that are not null.
Shown(cohorts, now, length) ==
    [c \in DOMAIN cohorts |->
        RestrictDomain(cohorts[c].returned, LAMBDA n : Observable(c, n, now, length))]

\* PeriodN over the cohorts old enough.
PeriodN(cohorts, n, now, length) ==
    LET old == {c \in DOMAIN cohorts : Observable(c, n, now, length)}
    IN [retained |-> MapThenSumSet(LAMBDA c : cohorts[c].returned[n], old),
        size     |-> MapThenSumSet(LAMBDA c : cohorts[c].size, old)]

\* ComputeLifecycle of one day.
Lifecycle(evs, d) ==
    LET active == [u \in UsersOf(evs) |-> Periods(Of(evs, u), Day)]
        On(u)     == d \in active[u]
        Before(u) == d - 1 \in active[u]
        Is(u)     == IF On(u) /\ d = Min(active[u]) THEN "new"
                     ELSE IF On(u) /\ Before(u) THEN "returning"
                     ELSE IF On(u) THEN "resurrected"
                     ELSE IF Before(u) THEN "dormant" ELSE "away"
    IN [kind \in {"new", "returning", "resurrected", "dormant"} |->
            Count({u \in DOMAIN active : Is(u) = kind})]
-----------------------------------------------------------------------------
\* trends.  A window [from, to) is open on a side that is Unbounded.

Inside(t, from, to) == (from # Unbounded => from <= t) /\ (to # Unbounded => t < to)

Matching(evs, name, from, to) ==
    SelectSeq(evs, LAMBDA e : (name = "any" \/ e.name = name) /\ Inside(e.at, from, to))

\* The buckets a series emits: those of the window, or those seen; a cap cuts
\* the oldest.
Span(seen, from, to, length, most) ==
    LET lo == IF from = Unbounded THEN Min(seen) ELSE Period(from, length)
        hi == IF to = Unbounded THEN Max(seen) ELSE Period(to - 1, length)
    IN IF seen = {} /\ Unbounded \in {from, to} THEN {}
       ELSE Max({lo, hi - most + 1}) .. hi

Value(evs, unique) == IF unique THEN Count(UsersOf(evs)) ELSE Len(evs)

\* Compute and ComputeInterval: the total is of the window, whatever is emitted.
Trend(evs, name, from, to, unique, length, most) ==
    LET kept   == Matching(evs, name, from, to)
        InB(b) == SelectSeq(kept, LAMBDA e : Period(e.at, length) = b)
    IN [points |-> [b \in Span(Periods(kept, length), from, to, length, most) |->
                        Value(InB(b), unique)],
        total  |-> Value(kept, unique)]

Daily(evs, name, from, to, unique) ==
    Trend(evs, name, from, to, unique, Day, MaxDayBuckets + 1)

Weekly(evs, name, from, to, unique) ==
    Trend(evs, name, from, to, unique, Week, MaxWeekBuckets)

\* ComputeBreakdown: one series for each value, over one span; an open end is
\* just after the last event.
Breakdown(evs, name, from, to, unique) ==
    LET named    == Matching(evs, name, Unbounded, Unbounded)
        times    == {named[i].at : i \in DOMAIN named}
        spanFrom == IF from = Unbounded THEN Min(times) ELSE from
        filterTo == IF to = Unbounded THEN Max(times) + 1 ELSE to
    IN [plan \in {named[i].plan : i \in DOMAIN named} |->
            Daily(SelectSeq(named, LAMBDA e : e.plan = plan), name, spanFrom, filterTo, unique)]

\* Where the events of the first rolling window start.
LookbackFrom(from, days) ==
    IF from = Unbounded THEN Unbounded ELSE (Period(from, Day) - (days - 1)) * Day

\* ComputeXAU: users active in the days up to each point; the total is the last.
XAU(evs, name, from, to, days) ==
    LET kept      == Matching(evs, name, LookbackFrom(from, days), to)
        span      == IF kept = <<>> THEN {}
                     ELSE Span(Periods(kept, Day), from, to, Day, MaxDayBuckets + 1)
        Active(d) == UsersOf(SelectSeq(kept, LAMBDA e : Period(e.at, Day) \in d - days + 1 .. d))
        points    == [d \in span |-> Count(Active(d))]
    IN [points |-> points, total |-> IF span = {} THEN 0 ELSE points[Max(span)]]

-----------------------------------------------------------------------------
\* session.  A session is the sequence of its events.

\* splitSessions: a silence longer than the gap ends one.
SplitSessions(userEvs) ==
    LET evs    == ByTime(userEvs)
        starts == {i \in DOMAIN evs : i = 1 \/ evs[i].at - evs[i - 1].at > GapLength}
        End(i) == Min({j - 1 : j \in {k \in starts : k > i}} \cup {Len(evs)})
    IN {SubSeq(evs, i, End(i)) : i \in starts}

Summary(session) == [start |-> session[1].at, end |-> session[Len(session)].at, events |-> Len(session)]

\* Sessions, short of its limit: the rows of the list.
SessionRows(evs, cutoff) ==
    LET recent == SelectSeq(evs, LAMBDA e : e.at >= cutoff)
    IN {[user |-> u, summary |-> Summary(s)] : <<u, s>> \in
            UNION {{u} \X SplitSessions(Of(recent, u)) : u \in UsersOf(recent)}}

\* Time.Unix: whole seconds.  A row's handle, StartUnix, is that of its start.
Unix(t) == t \div Second

\* Mutant: a handle is the start of a whole session.
StartIndexExact(session, handle) == IF Unix(session[1].at) = handle THEN 1 ELSE 0

\* startIndex: where a handle points inside a session; 0 for nowhere.
StartIndex(session, handle) == SelectInSeq(session, LAMBDA e : Unix(e.at) = handle)

\* One: what opening a row shows.
Opened(evs, user, handle) ==
    {Summary(SubSeq(s, StartIndex(s, handle), Len(s))) :
        s \in {s \in SplitSessions(Of(evs, user)) : StartIndex(s, handle) # 0}}

-----------------------------------------------------------------------------
\* paths and person.

\* After: who did the first event, and what each did at the depth after it.
After(evs, name, depth) ==
    LET walked  == [u \in UsersOf(evs) |-> ByTime(Of(evs, u))]
        Start(u) == SelectInSeq(walked[u], LAMBDA e : e.name = name)
        started == {u \in DOMAIN walked : Start(u) # 0}
        At(u)   == walked[u][Start(u) + depth].name
        going   == {u \in started : Start(u) + depth <= Len(walked[u])}
    IN [users |-> Count(started),
        steps |-> [n \in {At(u) : u \in going} |-> Count({u \in going : At(u) = n})]]

\* What an event says of its person: the properties of an $identify, which stand
\* over its $set bag; of any other event the bag alone.
TraitOf(e) == IF e.name = Identify /\ e.plan # NoPlan THEN e.plan ELSE e.set

\* apply: a strictly newer value replaces the last known.
Applied(trait, e) ==
    IF TraitOf(e) # NoPlan /\ (trait.plan = NoPlan \/ e.at > trait.at)
    THEN [plan |-> TraitOf(e), at |-> e.at] ELSE trait

\* person.Compute.
Profile(evs, user) ==
    LET own == Of(evs, user)
    IN [events |-> Len(own),
        first  |-> Min({own[i].at : i \in DOMAIN own}),
        last   |-> Max({own[i].at : i \in DOMAIN own}),
        trait  |-> FoldLeft(Applied, [plan |-> NoPlan, at |-> 0], own)]
-----------------------------------------------------------------------------
\* query: who a property says a person is.

\* The event of the least time, the first in storage order among equals.
Earliest(evs) == evs[SelectInSeq(evs, LAMBDA e : \A d \in ToSet(evs) : e.at <= d.at)]

\* BuildFirstTouch: the value of the earliest event that carries one.
FirstTouch(userEvs) ==
    LET carrying == SelectSeq(userEvs, LAMBDA e : e.plan # NoPlan)
    IN IF carrying = <<>> THEN NoPlan ELSE Earliest(carrying).plan

\* Stamp: every event of a user carries the user's value.
Stamp(evs, touch) == [i \in DOMAIN evs |-> [evs[i] EXCEPT !.plan = touch[evs[i].user]]]

StampFirstTouch(evs) == Stamp(evs, [u \in UsersOf(evs) |-> FirstTouch(Of(evs, u))])

Carrying(evs, plan) == SelectSeq(evs, LAMBDA e : e.plan = plan)

\* ScopeUsers by an equality filter: all events of who has one that matches.
ScopeUsers(evs, plan) ==
    LET users == UsersOf(Carrying(evs, plan))
    IN SelectSeq(evs, LAMBDA e : e.user \in users)

\* StampForFilters with preferMatching: a value that matches wins over the first.
StampForFilters(evs, plan) ==
    Stamp(evs, [u \in UsersOf(evs) |->
                   IF Carrying(Of(evs, u), plan) # <<>> THEN plan ELSE FirstTouch(Of(evs, u))])

-----------------------------------------------------------------------------
\* Cuts of the funnel: by value, by arm of an experiment, by account.

\* ComputeBreakdownOpts: a user belongs to the value of the first event of step 0.
Segments(evs, q) ==
    LET entry(u) == Named(Of(evs, u), q.steps[1])
        segment  == {[user |-> u, plan |-> Earliest(entry(u)).plan] :
                         u \in {v \in UsersOf(evs) : entry(v) # <<>>}}
        Within(plan) == {r.user : r \in {s \in segment : s.plan = plan}}
    IN [plan \in {r.plan : r \in segment} |-> Funnel(SelectSeq(evs, LAMBDA e : e.user \in Within(plan)), q)]

\* MeasureRange, for an SDK that sends no bucket id: the arm of the first
\* exposure, and whether some goal is not before it.  A declared arm is there
\* though nobody saw it.
Measure(evs, exposure, goal, declared, from, to) ==
    LET kept     == Matching(evs, "any", from, to)
        Seen(u)  == Named(Of(kept, u), exposure)
        exposed  == [u \in {u \in UsersOf(kept) : Seen(u) # <<>>} |-> Earliest(Seen(u))]
        Won(u)   == \E g \in ToSet(Named(Of(kept, u), goal)) : g.at >= exposed[u].at
        In(arm)  == {u \in DOMAIN exposed : exposed[u].plan = arm}
    IN [arm \in declared \cup {exposed[u].plan : u \in DOMAIN exposed} |->
            [exposed |-> Count(In(arm)), converted |-> Count({u \in In(arm) : Won(u)})]]

\* groups.Regroup: the account becomes the user; who has none is left out.
Regroup(evs) ==
    LET stamped == StampFirstTouch(evs)
        kept    == SelectSeq(stamped, LAMBDA e : e.plan # NoPlan)
    IN [events       |-> [i \in DOMAIN kept |-> [kept[i] EXCEPT !.user = kept[i].plan]],
        dropped      |-> Len(stamped) - Len(kept),
        unattributed |-> Count(UsersOf(Carrying(stamped, NoPlan)))]

-----------------------------------------------------------------------------
\* goal, errortrack and engagement.

\* goal.Resolve over [from, now]: a converter's channel is that of the first
\* event in the period.
Goal(evs, name, from, now) ==
    LET kept       == Matching(evs, "any", from, now + 1)
        converted  == UsersOf(Named(kept, name))
        channel    == [u \in converted |-> Earliest(Of(kept, u)).plan]
    IN [conversions |-> Count(converted),
        visitors    |-> Count(UsersOf(kept)),
        by          |-> [c \in Range(channel) |-> Count({u \in converted : channel[u] = c})]]

\* errortrack.Compute: the errors `name` by fingerprint (here the plan); new if
\* not seen in the window before.
Errors(evs, name, from, to, prior) ==
    LET kept  == Matching(evs, name, from, to)
        known == Matching(evs, name, prior, from)
    IN [total    |-> Len(kept),
        users    |-> Count(UsersOf(Matching(evs, "any", from, to))),
        affected |-> Count(UsersOf(kept)),
        groups   |-> [p \in {kept[i].plan : i \in DOMAIN kept} |->
                         [count |-> Len(Carrying(kept, p)), users |-> Count(UsersOf(Carrying(kept, p))),
                          new   |-> Carrying(known, p) = <<>>]]]

\* ComputeStickiness: active in the days before asof, or since.
ActiveSince(evs, asof, days) == Count(UsersOf(Matching(evs, "any", asof - days * Day, Unbounded)))
=============================================================================

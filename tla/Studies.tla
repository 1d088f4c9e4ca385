-------------------------------- MODULE Studies --------------------------------
(***************************************************************************)
(* The other readers of the same log: the SQL of internal/sql over the     *)
(* events as Identity scans them, and what it must say beside the reports. *)
(*                                                                         *)
(* In a query an event carries its plan, once as a plan and once as the    *)
(* environment it was sent from, and its amount.                           *)
(***************************************************************************)
EXTENDS Identity

CONSTANTS
    SqlWords,       \* the strings a query compares, in order
    SqlRows,        \* sql.Limits.MaxRows
    SqlGroups,      \* sql.Limits.MaxGroups
    Preview         \* the plan that stands for an environment other than production

SqlNull == [t |-> "null", n |-> 0, s |-> ""]

SqlProperty(ev, key) ==
    CASE key # "amount" /\ ev.plan # NoPlan           -> [t |-> "str", n |-> 0, s |-> ev.plan]
      [] key = "amount" /\ Amount(ev) # NoAmount      -> [t |-> "num", n |-> Amount(ev), s |-> ""]
      [] OTHER                                        -> SqlNull

InProduction(ev) == ev.plan # Preview

Sql == INSTANCE Sql WITH Lexicon <- SqlWords, DayLength <- Day, Properties <- {"plan", "env", "amount"},
                         PropOf <- SqlProperty, Production <- InProduction,
                         NoEvent <- [user |-> "", name |-> "", at |-> 0, plan |-> NoPlan, set |-> NoPlan],
                         MaxRows <- SqlRows, MaxGroups <- SqlGroups

-----------------------------------------------------------------------------
\* The texts of queries.

Id(w)   == Sql!Token("id", w, 0)
Op(w)   == Sql!Token("op", w, 0)
Prop(w) == Sql!Token("prop", w, 0)
Text(w) == Sql!Token("str", w, 0)

Of1(f, arg) == <<Id(f), Op("("), arg, Op(")")>>

Rows   == Of1("count", Op("*"))
People == <<Id("count"), Op("("), Id("DISTINCT"), Id("distinct_id"), Op(")")>>

List(items) == FlattenSeq([i \in DOMAIN items |-> IF i = 1 THEN items[i] ELSE <<Op(",")>> \o items[i]])

Select(items, conditions, rest) ==
    <<Id("SELECT")>> \o List(items) \o <<Id("FROM"), Id("events")>>
    \o FlattenSeq([i \in DOMAIN conditions |-> <<Id(IF i = 1 THEN "WHERE" ELSE "AND")>> \o conditions[i]])
    \o rest

\* name = '...' AND timestamp >= '...' AND timestamp < '...'
Conditions(name, w) ==
    <<<<Id("name"), Op("="), Text(name)>>>>
    \o (IF w.from = Unbounded THEN <<>> ELSE <<<<Id("timestamp"), Op(">="), Text(Sql!TimeName(w.from))>>>>)
    \o (IF w.to = Unbounded THEN <<>> ELSE <<<<Id("timestamp"), Op("<"), Text(Sql!TimeName(w.to))>>>>)

\* A binary operation and the shortest text that says it.
Trees(ops, leaves) ==
    LET Two(S) == {Sql!Node("bin", op, <<x, y>>) : op \in ops, x \in S, y \in S}
    IN leaves \cup Two(leaves) \cup Two(leaves \cup Two(leaves))

RECURSIVE Written(_)

Written(e) ==
    LET level(x)      == IF x.k = "bin" THEN Sql!Precedence(x.v) ELSE 9
        side(x, tied) == IF level(x) < level(e) + tied THEN <<Op("(")>> \o Written(x) \o <<Op(")")>> ELSE Written(x)
    IN IF e.k = "bin" THEN side(e.kids[1], 0) \o <<IF e.v \in {"AND", "OR"} THEN Id(e.v) ELSE Op(e.v)>> \o side(e.kids[2], 1)
       ELSE <<Id(e.v)>>

\* An expression is read as it is written: what binds tighter is done first, and
\* what ties from the left (parse.go:531).
ReadAsWritten ==
    \A e \in Trees({"OR", "AND", "<", "-", "*"}, {Sql!Node("col", "name", <<>>)}) :
        Sql!ParseExpr(Written(e), 1, 0) = [e |-> e, i |-> Len(Written(e)) + 1]

Cell(row, i) == row[i].n

Answered(answer, most) ==
    answer.ok /\ (answer.more <=> most > SqlRows) /\ Len(answer.rows) = Min({most, SqlRows})

SaysTotal(answer, count) ==
    answer.ok /\ <<Cell(answer.rows[1], 1), Cell(answer.rows[1], 2)>> = <<count.events, count.users>>

SaysDays(answer, active, points) ==
    /\ Answered(answer, Cardinality(active))
    /\ \A i \in DOMAIN answer.rows, d \in DOMAIN points :
           answer.rows[i][1].s = Sql!DayName(d) => Cell(answer.rows[i], 2) = points[d]

\* many, the same rows HAVING more than one event.
SaysParts(parts, many, split) ==
    LET Plan(row) == IF row[1] = SqlNull THEN NoPlan ELSE row[1].s
        Says(row) == split[Plan(row)] = [events |-> Cell(row, 2), users |-> Cell(row, 3)]
    IN /\ Answered(parts, Cardinality(DOMAIN split))
       /\ Answered(many, Cardinality({v \in DOMAIN split : split[v].events > 1}))
       /\ \A i \in DOMAIN parts.rows : Says(parts.rows[i])
       /\ \A i \in DOMAIN many.rows : Says(many.rows[i]) /\ many.rows[i] = parts.rows[i]

SaysAmounts(row, sum, least, most) ==
    /\ Cell(row, 1) = sum.total /\ Cell(row, 2) = sum.n
    /\ sum.n > 0 => Cell(row, 3) = least.total /\ Cell(row, 4) = most.total

SaysPeople(answer, events) ==
    /\ Answered(answer, events)
    /\ \A i \in 2 .. Len(answer.rows) :
           Sql!Place(answer.rows[i - 1][1].s) <= Sql!Place(answer.rows[i][1].s)

\* The queries of an event in a window.
Texts(name, w) ==
    LET where      == Conditions(name, w)
        By(key)    == <<Id("GROUP"), Id("BY"), key>>
        Order(key) == <<Id("ORDER"), Id("BY"), Id(key)>>
        Parts(having) == Select(<<<<Prop("plan")>>, Rows \o <<Id("n")>>, People>>, where,
                                By(Prop("plan")) \o having \o Order("n") \o <<Id("DESC")>>)
    IN [total   |-> Select(<<Rows, People>>, where, <<>>),
        preview |-> Select(<<Rows, People>>, where \o <<<<Prop("env"), Op("="), Text(Preview)>>>>, <<>>),
        days    |-> Select(<<Of1("date", Id("timestamp")) \o <<Id("AS"), Id("day")>>, People>>, where,
                           By(Id("day")) \o Order("day") \o <<Id("DESC")>>),
        parts   |-> Parts(<<>>),
        many    |-> Parts(<<Id("HAVING")>> \o Rows \o <<Op(">"), Sql!Token("num", "", 1)>>),
        amounts |-> Select(<<Of1("sum", Prop("amount")), Of1("count", Prop("amount")),
                             Of1("min", Prop("amount")), Of1("max", Prop("amount"))>>, where, <<>>),
        people  |-> Select(<<<<Id("distinct_id")>>>>, where, Order("distinct_id"))]

Queried(texts, evs) == [k \in DOMAIN texts |-> Sql!Query(texts[k], evs)]

SqlAgreesOn(evs, prod, name, w, answers) ==
    LET asked == [plan |-> Preview, kind |-> "event"]
        count == ApiRows(prod, Everyone, w, name, Unbounded)
        Measure1(m) == ComputeMeasure(prod, name, m, w.from, w.to).all
    IN /\ SaysTotal(answers.total, count)
       /\ SaysTotal(answers.preview, ApiRows(evs, asked, w, name, Unbounded))
       /\ SaysDays(answers.days, Periods(Matching(prod, name, w.from, w.to), Day),
                   ApiTrend(prod, Everyone, w, name, TRUE).points)
       /\ SaysParts(answers.parts, answers.many, ApiBreakdown(prod, Everyone, w, name))
       /\ SaysAmounts(answers.amounts.rows[1], Measure1("sum"), Measure1("min"), Measure1("max"))
       /\ SaysPeople(answers.people, count.events)

\* A number in the rows of a query is the one the built reports give: a count and
\* the people counted, a breakdown, a trend, a measure; over production unless the
\* query names an environment, as they are; and rows are left out of an answer only
\* if it says so (sql_tool.go:41, exec.go:15, exec.go:182).
SqlAgrees ==
    LET open == {AllTime, [from |-> Min(Bounds), to |-> Max(Bounds)]}
                    \cup [from : {Unbounded}, to : Moments]
        Agrees(evs, prod) == \A name \in Names, w \in open :
                                 SqlAgreesOn(evs, prod, name, w, Queried(Texts(name, w), evs))
    IN /\ log = <<>> /\ failures = 0 => ReadAsWritten
       /\ Len(log) + failures <= MaxCompared => Agrees(Scan, SelectSeq(Scan, InProduction))
=============================================================================

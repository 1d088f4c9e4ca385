---------------------------------- MODULE Sql ----------------------------------
(***************************************************************************)
(* The read-only SQL of internal/sql: what a SELECT over the events parses *)
(* to and the rows it answers.                                             *)
(*                                                                         *)
(* A text is the sequence of its tokens.  An expression is a node [k, v,   *)
(* val, kids]: its kind, the name or operator in it, the value of a        *)
(* literal, and its operands.  Numbers are integers: avg, round, / and %,  *)
(* the functions on texts and LIKE are left out.                           *)
(***************************************************************************)
EXTENDS Integers, SequencesExt, TLC

CONSTANTS
    Lexicon,    \* the strings that are compared, in order
    DayLength,  \* the length of a day, for date()
    Properties, \* the keys of properties
    PropOf(_, _), \* the value of a property of an event, Null if it has none
    NoEvent,    \* the zero event
    Production(_), \* query.Keeper(nil): is an event of no environment but production
    MaxRows, MaxGroups

-----------------------------------------------------------------------------
\* Values: [t, n, s], a number, a time, a boolean (0 or 1) in n, a string in s.

Value(t, n, s) == [t |-> t, n |-> n, s |-> s]
Null     == Value("null", 0, "")
Bad      == Value("error", 0, "")
Num(n)   == Value("num", n, "")
Str(s)   == Value("str", 0, s)
Time(n)  == Value("time", n, "")
Bool(b)  == Value("bool", IF b THEN 1 ELSE 0, "")

DayName(d)  == "day" \o ToString(d)
TimeName(t) == "at" \o ToString(t)

\* toStr.
Spelled(v) ==
    CASE v.t = "str"  -> v.s
      [] v.t = "num"  -> ToString(v.n)
      [] v.t = "bool" -> IF v.n = 1 THEN "true" ELSE "false"
      [] v.t = "time" -> TimeName(v.n)
      [] OTHER        -> ""

\* toNum and toTime: the number, or the time, a value stands for, if it does.
Number(v) == IF v.t \in {"num", "bool", "time"} THEN {v.n}
             ELSE IF v.t = "str" THEN {n \in 0 .. 9 : ToString(n) = v.s} ELSE {}

Moment(v) == IF v.t = "time" THEN {v.n}
             ELSE IF v.t = "str"
             THEN {n \in 0 .. 9 : v.s = TimeName(n)} \cup {DayLength * d : d \in {d \in 0 .. 9 : DayName(d) = v.s}}
             ELSE {}

Truthy(v) == CASE v.t = "str"  -> v.s # ""
               [] v.t = "time" -> TRUE
               [] OTHER        -> v.n # 0

Place(s) == SelectInSeq(Lexicon, LAMBDA w : w = s)

\* compare: by time, by number, or else as strings.
Compare(a, b) ==
    LET Sign(x, y) == IF x < y THEN -1 ELSE IF x > y THEN 1 ELSE 0
        Only(S)    == CHOOSE x \in S : TRUE
    IN IF "time" \in {a.t, b.t} /\ Moment(a) # {} /\ Moment(b) # {} THEN Sign(Only(Moment(a)), Only(Moment(b)))
       ELSE IF {a.t, b.t} # {"str"} /\ Number(a) # {} /\ Number(b) # {} THEN Sign(Only(Number(a)), Only(Number(b)))
       ELSE Sign(Place(Spelled(a)), Place(Spelled(b)))

-----------------------------------------------------------------------------
\* Expressions.

Node(k, v, kids) == [k |-> k, v |-> v, val |-> Null, kids |-> kids]

Lit(val) == [k |-> "lit", v |-> "", val |-> val, kids |-> <<>>]

Absent == Node("absent", "", <<>>)

Columns    == {"name", "distinct_id", "timestamp"}
Aggregates == {"count", "sum", "min", "max"}
Functions  == Aggregates \cup {"date", "abs", "coalesce"}

IsAggregate(e) == e.k \in {"call", "distinct"} /\ e.v \in Aggregates

RECURSIVE HasAggregate(_), Text(_), CollectAggs(_), Settled(_, _), Unsettled(_)

HasAggregate(e) == IsAggregate(e) \/ \E i \in DOMAIN e.kids : HasAggregate(e.kids[i])

\* String(): what two expressions are told apart by.  Not by what a list holds,
\* by a NOT before IN or NULL, nor by the quotes of a literal.
Text(e) ==
    LET part(i) == Text(e.kids[i])
    IN CASE e.k = "lit"  -> <<IF e.val = Null THEN "<nil>" ELSE Spelled(e.val)>>
         [] e.k = "prop" -> <<"prop", e.v>>
         [] e.k = "bin"  -> <<"(">> \o part(1) \o <<e.v>> \o part(2) \o <<")">>
         [] e.k = "un"   -> <<e.v>> \o part(1)
         [] e.k = "in"   -> part(1) \o <<"IN (...)">>
         [] e.k = "null" -> part(1) \o <<"IS NULL">>
         [] e.k \in {"call", "distinct"} ->
                <<e.v, e.k>> \o FlattenSeq([i \in DOMAIN e.kids |-> <<",">> \o part(i)]) \o <<")">>
         [] OTHER -> <<e.v>>

\* collectAggs: the aggregate calls, the outermost ones.
CollectAggs(e) == IF IsAggregate(e) THEN <<e>>
                  ELSE FlattenSeq([i \in DOMAIN e.kids |-> CollectAggs(e.kids[i])])

\* resolveExpr: a name that is no column is an alias; what is neither stays.
Settled(e, aliases) ==
    IF e.k = "ref" THEN IF <<e.v>> \in DOMAIN aliases THEN aliases[<<e.v>>] ELSE e
    ELSE [e EXCEPT !.kids = [i \in DOMAIN @ |-> Settled(@[i], aliases)]]

Unsettled(e) == e.k = "ref" \/ \E i \in DOMAIN e.kids : Unsettled(e.kids[i])
-----------------------------------------------------------------------------
\* The parser.  A token is [k, s]: "id", "prop", "str", "op", or "num" with n.
\* What a parse yields is [e, i], i the next token, 0 if it fails.

Token(k, s, n) == [k |-> k, s |-> s, n |-> n]

TokenAt(toks, i) == IF i \in DOMAIN toks THEN toks[i] ELSE Token("end", "", 0)

Word(toks, i, w)  == TokenAt(toks, i).k = "id" /\ TokenAt(toks, i).s = w
Punct(toks, i, p) == TokenAt(toks, i).k = "op" /\ TokenAt(toks, i).s = p

Failed == [e |-> Absent, i |-> 0]

Parsed(e, i) == [e |-> e, i |-> i]

Keywords == {"SELECT", "FROM", "WHERE", "GROUP", "BY", "HAVING", "ORDER", "LIMIT", "AND", "OR", "NOT",
             "IN", "IS", "NULL", "AS", "ASC", "DESC", "DISTINCT", "TRUE", "FALSE"}

Precedence(op) == CASE op = "OR" -> 1 [] op = "AND" -> 2
                    [] op \in {"=", "!=", "<", "<=", ">", ">="} -> 3
                    [] op \in {"+", "-"} -> 4 [] op = "*" -> 5 [] OTHER -> 0

Operator(t) == IF t.k = "op" \/ (t.k = "id" /\ t.s \in {"AND", "OR"}) THEN t.s ELSE ""

RECURSIVE ParseExpr(_, _, _), ParseTail(_, _, _), ParseUnary(_, _), ParseItems(_, _, _)

\* The right operand of an operator.
Operand(toks, i, op) == ParseExpr(toks, i, Precedence(op) + 1)

\* The expressions between parentheses, from the first of them.
Closed(toks, list) ==
    IF list.i # 0 /\ Punct(toks, list.i, ")") THEN [list EXCEPT !.i = @ + 1] ELSE [e |-> <<>>, i |-> 0]

ParseArgs(toks, i) == Closed(toks, ParseItems(toks, i, "plain"))

Built(kind, v, x, r) == IF r.i = 0 THEN Failed ELSE Parsed(Node(kind, v, x \o r.e), r.i)

ParseInList(toks, x, i, how) ==
    IF Punct(toks, i, "(") THEN Built("in", how, <<x>>, ParseArgs(toks, i + 1)) ELSE Failed

One(x) == [x EXCEPT !.e = <<@>>]

Further(toks, y, min) == IF y.i = 0 THEN Failed ELSE ParseTail(toks, y, min)

\* What follows an operand; IN and IS take it whatever the precedence.
ParseTail(toks, x, min) ==
    LET op  == Operator(TokenAt(toks, x.i))
        neg == Word(toks, x.i + 1, "NOT")
        end == x.i + (IF neg THEN 2 ELSE 1)
        y   == CASE Word(toks, x.i, "IN") -> ParseInList(toks, x.e, x.i + 1, "IN")
                 [] Word(toks, x.i, "NOT") /\ Word(toks, x.i + 1, "IN") -> ParseInList(toks, x.e, x.i + 2, "NOT IN")
                 [] Word(toks, x.i, "IS") ->
                        IF Word(toks, end, "NULL") THEN Parsed(Node("null", IF neg THEN "NOT" ELSE "", <<x.e>>), end + 1)
                        ELSE Failed
                 [] OTHER -> Built("bin", op, <<x.e>>, One(Operand(toks, x.i + 1, op)))
        postfix == \/ Word(toks, x.i, "IN") \/ Word(toks, x.i, "IS")
                   \/ (Word(toks, x.i, "NOT") /\ Word(toks, x.i + 1, "IN"))
    IN IF ~postfix /\ (Precedence(op) = 0 \/ Precedence(op) < min) THEN x
       ELSE Further(toks, y, min)

\* parseExpr.
ParseExpr(toks, i, min) == Further(toks, ParseUnary(toks, i), min)

ParseCall(toks, i, name) ==
    LET kind == IF Word(toks, i, "DISTINCT") THEN "distinct" ELSE "call"
        from == IF kind = "distinct" THEN i + 1 ELSE i
        args == IF Punct(toks, from, ")") THEN [e |-> <<>>, i |-> from + 1] ELSE ParseArgs(toks, from)
    IN IF name \in Functions THEN Built(kind, name, <<>>, args) ELSE Failed

Enclosed(toks, x) == IF x.i # 0 /\ Punct(toks, x.i, ")") THEN Parsed(x.e, x.i + 1) ELSE Failed

ParsePrimary(toks, i) ==
    LET t == TokenAt(toks, i)
    IN CASE Punct(toks, i, "(") -> Enclosed(toks, ParseExpr(toks, i + 1, 0))
         [] Punct(toks, i, "*") -> Parsed(Node("star", "*", <<>>), i + 1)
         [] t.k = "str"  -> Parsed(Lit(Str(t.s)), i + 1)
         [] t.k = "num"  -> Parsed(Lit(Num(t.n)), i + 1)
         [] t.k = "prop" -> Parsed(Node("prop", t.s, <<>>), i + 1)
         [] Word(toks, i, "NULL") -> Parsed(Lit(Null), i + 1)
         [] t.k = "id" /\ t.s \in {"TRUE", "FALSE"} -> Parsed(Lit(Bool(t.s = "TRUE")), i + 1)
         [] t.k = "id" /\ t.s \notin {"NULL", "TRUE", "FALSE"} ->
                IF Punct(toks, i + 1, "(") THEN ParseCall(toks, i + 2, t.s)
                ELSE Parsed(Node(IF t.s \in Columns THEN "col" ELSE "ref", t.s, <<>>), i + 1)
         [] OTHER -> Failed

ParseUnary(toks, i) ==
    CASE Word(toks, i, "NOT") -> Built("un", "NOT", <<>>, One(ParseExpr(toks, i + 1, 2)))
      [] Punct(toks, i, "-")  -> Built("un", "-", <<>>, One(ParseUnary(toks, i + 1)))
      [] OTHER                -> ParsePrimary(toks, i)

DefaultAlias(e) == IF e.k \in {"col", "prop"} THEN <<e.v>> ELSE Text(e)

\* One item of a list: an expression, with its alias in SELECT, its direction in ORDER BY.
ParseItem(toks, x, clause) ==
    LET t == TokenAt(toks, x.i)
    IN CASE clause = "select" ->
              (IF Word(toks, x.i, "AS")
               THEN IF TokenAt(toks, x.i + 1).k \in {"id", "str"}
                    THEN Parsed([e |-> x.e, as |-> <<TokenAt(toks, x.i + 1).s>>], x.i + 2) ELSE Failed
               ELSE IF t.k = "id" /\ t.s \notin Keywords THEN Parsed([e |-> x.e, as |-> <<t.s>>], x.i + 1)
               ELSE Parsed([e |-> x.e, as |-> DefaultAlias(x.e)], x.i))
         [] clause = "order" ->
              Parsed([e |-> x.e, desc |-> Word(toks, x.i, "DESC")],
                     IF Word(toks, x.i, "DESC") \/ Word(toks, x.i, "ASC") THEN x.i + 1 ELSE x.i)
         [] OTHER -> x

Joined(item, rest) == [e |-> <<item.e>> \o rest.e, i |-> rest.i]

\* The list an item begins.
Listed(toks, item, clause) ==
    CASE item.i = 0                   -> [e |-> <<>>, i |-> 0]
      [] Punct(toks, item.i, ",")     -> Joined(item, ParseItems(toks, item.i + 1, clause))
      [] OTHER                        -> One(item)

ItemFrom(toks, x, clause) == IF x.i = 0 THEN Failed ELSE ParseItem(toks, x, clause)

ParseItems(toks, i, clause) == Listed(toks, ItemFrom(toks, ParseExpr(toks, i, 0), clause), clause)

\* resolveRefs: SELECT and WHERE without aliases, the other clauses with them.
Resolved(q) ==
    LET none    == [a \in {} |-> Absent]
        aliases == FoldLeft(LAMBDA m, s : (s.as :> s.e) @@ m, none, q.select)
        r == [q EXCEPT !.group  = [i \in DOMAIN @ |-> Settled(@[i], aliases)],
                       !.having = Settled(@, aliases),
                       !.order  = [i \in DOMAIN @ |-> [@[i] EXCEPT !.e = Settled(@, aliases)]]]
        all == {r.select[i].e : i \in DOMAIN r.select} \cup {r.where, r.having} \cup Range(r.group)
               \cup {r.order[i].e : i \in DOMAIN r.order}
    IN [r EXCEPT !.ok = @ /\ \A e \in all : ~Unsettled(e)]

\* A clause that is absent leaves its place; one that fails, 0.
ParseClause(toks, i, w) ==
    LET listed == w \in {"GROUP", "ORDER"}
    IN CASE i = 0 \/ ~Word(toks, i, w) -> [e |-> IF listed THEN <<>> ELSE Absent, i |-> i]
         [] listed /\ ~Word(toks, i + 1, "BY") -> [e |-> <<>>, i |-> 0]
         [] w = "GROUP" -> ParseItems(toks, i + 2, "plain")
         [] w = "ORDER" -> ParseItems(toks, i + 2, "order")
         [] OTHER       -> ParseExpr(toks, i + 1, 0)

ParseLimit(toks, i) ==
    CASE i = 0 \/ ~Word(toks, i, "LIMIT")   -> [e |-> -1, i |-> i]
      [] TokenAt(toks, i + 1).k = "num"     -> [e |-> TokenAt(toks, i + 1).n, i |-> i + 2]
      [] OTHER                              -> [e |-> -1, i |-> 0]

Extended(found, x) == [e |-> Append(found.e, x.e), i |-> x.i]

AfterFrom(toks, select) ==
    IF select.i # 0 /\ Word(toks, select.i, "FROM") /\ Word(toks, select.i + 1, "events")
    THEN One([select EXCEPT !.i = @ + 2]) ELSE [e |-> <<<<>>>>, i |-> 0]

Statement(toks, clauses, limit) ==
    [ok |-> Word(toks, 1, "SELECT") /\ limit.i = Len(toks) + 1,
     select |-> clauses[1], where |-> clauses[2], group |-> clauses[3],
     having |-> clauses[4], order |-> clauses[5], limit |-> limit.e]

Taking(toks, found, w) == Extended(found, ParseClause(toks, found.i, w))

Whole(toks, found) == Resolved(Statement(toks, found.e, ParseLimit(toks, found.i)))

\* Parse.
Parse(toks) ==
    Whole(toks, FoldLeft(LAMBDA found, w : Taking(toks, found, w),
                         AfterFrom(toks, ParseItems(toks, 2, "select")),
                         <<"WHERE", "GROUP", "HAVING", "ORDER">>))
-----------------------------------------------------------------------------
\* The values of expressions.  Bad is the error that ends the query.

Field(ev, v) == CASE v = "name" -> Str(ev.name) [] v = "distinct_id" -> Str(ev.user)
                  [] v = "timestamp" -> Time(ev.at)

\* NULL compares to nothing.
Compared(op, a, b) ==
    LET c == Compare(a, b)
    IN CASE op = "="  -> Bool(c = 0)  [] op = "!=" -> Bool(c # 0)
         [] op = "<"  -> Bool(c < 0)  [] op = "<=" -> Bool(c <= 0)
         [] op = ">"  -> Bool(c > 0)  [] op = ">=" -> Bool(c >= 0)

Arithmetic(op, a, b) ==
    IF Number(a) = {} \/ Number(b) = {} THEN Null
    ELSE LET x == CHOOSE n \in Number(a) : TRUE
             y == CHOOSE n \in Number(b) : TRUE
         IN Num(CASE op = "+" -> x + y [] op = "-" -> x - y [] op = "*" -> x * y)

\* evalBinary: AND and OR look at the right operand only if they need it.
Combined(op, a, b) ==
    CASE a = Bad -> Bad
      [] op = "AND" /\ ~Truthy(a) -> Bool(FALSE)
      [] op = "OR" /\ Truthy(a)   -> Bool(TRUE)
      [] OTHER -> CASE b = Bad -> Bad
                    [] op \in {"AND", "OR"} -> Bool(Truthy(b))
                    [] op \in {"+", "-", "*"} -> Arithmetic(op, a, b)
                    [] Null \in {a, b} -> Bool(FALSE)
                    [] OTHER -> Compared(op, a, b)

\* evalCall, of a function that is no aggregate.
Applied(name, args) ==
    LET first == IF args = <<>> THEN Null ELSE args[1]
    IN CASE Bad \in Range(args) -> Bad
         [] name = "date" -> IF Moment(first) = {} THEN Null
                             ELSE Str(DayName((CHOOSE n \in Moment(first) : TRUE) \div DayLength))
         [] name = "abs"  -> IF Number(first) = {} THEN Null
                             ELSE LET n == CHOOSE n \in Number(first) : TRUE IN Num(IF n < 0 THEN -n ELSE n)
         [] name = "coalesce" -> LET held == SelectSeq(args, LAMBDA a : a # Null)
                                 IN IF held = <<>> THEN Null ELSE held[1]

RECURSIVE Eval(_, _)

\* evalScalar.  A NULL is in a list that holds the empty string, and NOT turns what
\* NULL does not satisfy into what it does.
Eval(e, ev) ==
    LET arg(i) == Eval(e.kids[i], ev)
        args   == [i \in DOMAIN e.kids |-> arg(i)]
    IN CASE e.k = "lit"  -> e.val
         [] e.k = "col"  -> Field(ev, e.v)
         [] e.k = "prop" -> IF e.v \in Properties THEN PropOf(ev, e.v) ELSE Null
         [] e.k = "bin"  -> Combined(e.v, arg(1), arg(2))
         [] e.k = "un"   -> CASE arg(1) = Bad -> Bad
                              [] e.v = "NOT"  -> Bool(~Truthy(arg(1)))
                              [] OTHER        -> Arithmetic("-", Num(0), arg(1))
         [] e.k = "in"   -> IF Bad \in Range(args) THEN Bad
                            ELSE Bool((e.v = "IN") = \E i \in 2 .. Len(args) : Compare(args[1], args[i]) = 0)
         [] e.k = "null" -> IF arg(1) = Bad THEN Bad ELSE Bool((arg(1) = Null) = (e.v = ""))
         [] e.k = "call" /\ ~IsAggregate(e) -> Applied(e.v, args)
         [] OTHER -> Bad

-----------------------------------------------------------------------------
\* Execution.

IsConstant(e) == e.k = "lit"

AllCalls(q) ==
    FlattenSeq([i \in DOMAIN q.select |-> CollectAggs(q.select[i].e)]) \o CollectAggs(q.having)
    \o FlattenSeq([i \in DOMAIN q.order |-> CollectAggs(q.order[i].e)])

Aggregated(q) == q.group # <<>> \/ AllCalls(q) # <<>>

\* validate.
Valid(q) ==
    /\ q.ok
    /\ \A i \in DOMAIN q.select :
           LET e == q.select[i].e
           IN /\ e.k # "star"
              /\ Aggregated(q) => \/ HasAggregate(e) \/ IsConstant(e)
                                 \/ \E j \in DOMAIN q.group : Text(q.group[j]) = Text(e)
    /\ q.group = <<>> => q.having = Absent

SmallerOf(m, n) == IF m < n THEN m ELSE n

EffectiveLimit(q) == IF q.limit >= 0 /\ q.limit < MaxRows THEN q.limit ELSE MaxRows

NoRows == [count |-> 0, sum |-> 0, best |-> Null, distinct |-> {}]

CountsRows(call) == call.v = "count" /\ Len(call.kids) = 1 /\ call.kids[1].k = "star"

Accumulated(acc, call, v) ==
    LET better == \/ acc.best = Null
                  \/ call.v = "min" /\ Compare(v, acc.best) < 0
                  \/ call.v = "max" /\ Compare(v, acc.best) > 0
    IN IF v = Null THEN acc
       ELSE [count    |-> acc.count + 1,
             sum      |-> acc.sum + (IF Number(v) = {} THEN 0 ELSE CHOOSE n \in Number(v) : TRUE),
             best     |-> IF better THEN v ELSE acc.best,
             distinct |-> acc.distinct \cup (IF CountsRows(call) THEN {} ELSE {Spelled(v)})]

\* accumulate; an aggregate of nothing is an error.
Accumulate(acc, call, ev) ==
    Accumulated(acc, call, IF CountsRows(call) THEN Bool(TRUE) ELSE Eval(call.kids[1], ev))

\* finish; of no accumulator, in the group that stands for no event, all but the
\* count is NULL.
Finish(accs, call) ==
    LET acc == IF Text(call) \in DOMAIN accs THEN accs[Text(call)] ELSE NoRows IN
    CASE call.k = "distinct" /\ call.v = "count" -> Num(Cardinality(acc.distinct))
      [] call.v = "count" -> Num(acc.count)
      [] call.v = "sum" /\ accs # <<>> -> Num(acc.sum)
      [] OTHER            -> acc.best

\* One accumulator for each text of a call, whichever call was collected last.
CallsByText(q) == FoldLeft(LAMBDA m, c : (Text(c) :> c) @@ m, [t \in {} |-> Absent], AllCalls(q))

\* The group an event falls in, its key told apart as a text, and what it adds to it.
KeyOf(q, ev) == [i \in DOMAIN q.group |-> Spelled(Eval(q.group[i], ev))]

Adding(g, calls, ev) == [g EXCEPT !.accs = [t \in DOMAIN @ |-> Accumulate(@[t], calls[t], ev)]]

Opening(key, calls, ev) == [key |-> key, first |-> ev, accs |-> [t \in DOMAIN calls |-> NoRows]]

Falling(groups, key, calls, ev) ==
    LET at == SelectInSeq(groups, LAMBDA g : g.key = key)
        n  == IF at = 0 THEN Len(groups) + 1 ELSE at
        to == IF at = 0 THEN Append(groups, Opening(key, calls, ev)) ELSE groups
    IN [to EXCEPT ![n] = Adding(@, calls, ev)]

GroupsBy(q, calls, evs) == FoldLeft(LAMBDA gs, ev : Falling(gs, KeyOf(q, ev), calls, ev), <<>>, evs)

\* The groups in the order of their first events.
Groups(q, evs) == GroupsBy(q, CallsByText(q), evs)

RECURSIVE EvalGroup(_, _)

\* evalWithGroup: aggregates of the group, the rest of its first event; an aggregate
\* under IN or IS NULL is an error.
EvalGroup(e, g) ==
    LET part(i) == EvalGroup(e.kids[i], g)
    IN CASE IsAggregate(e) -> Finish(g.accs, e)
         [] e.k = "call" /\ ~IsAggregate(e) -> Applied(e.v, [i \in DOMAIN e.kids |-> part(i)])
         [] e.k = "bin" /\ HasAggregate(e) -> Combined(e.v, part(1), part(2))
         [] e.k = "un" /\ HasAggregate(e) -> Eval([e EXCEPT !.kids = <<Lit(part(1))>>], g.first)
         [] OTHER -> Eval(e, g.first)

\* sortRows: NULL last in both directions; what is equal stays in order.
Precedes(q, a, b) ==
    LET Ranks(j) == IF a[j] = b[j] THEN 0
                    ELSE IF a[j] = Null THEN 1 ELSE IF b[j] = Null THEN -1
                    ELSE IF q.order[j].desc THEN Compare(b[j], a[j]) ELSE Compare(a[j], b[j])
        differ   == {j \in DOMAIN q.order : Ranks(j) # 0}
    IN differ # {} /\ Ranks(Min(differ)) < 0

\* indexOfAlias.
ColumnOf(q, e) ==
    SelectInSeq(q.select, LAMBDA s : (e.k = "col" /\ s.as = <<e.v>>) \/ s.as = Text(e) \/ Text(s.e) = Text(e))

\* The rows of the answer, each with the keys it is sorted by.
GroupValues(g, items) == [i \in DOMAIN items |-> EvalGroup(items[i].e, g)]

Kept(q, groups) == SelectSeq(groups, LAMBDA g : q.having = Absent \/ Truthy(EvalGroup(q.having, g)))

GroupRows(q, kept) ==
    [n \in DOMAIN kept |->
        [row |-> GroupValues(kept[n], q.select), keys |-> GroupValues(kept[n], q.order)]]

Listing(q, row) ==
    [row |-> row, keys |-> [j \in DOMAIN q.order |->
        LET i == ColumnOf(q, q.order[j].e) IN IF i = 0 THEN Bad ELSE row[i]]]

ListRows(q, evs) ==
    [n \in DOMAIN evs |-> Listing(q, [i \in DOMAIN q.select |-> Eval(q.select[i].e, evs[n])])]

\* Aggregates of nothing have one row, of a group that stands for no event.
NoGroup == <<[key |-> <<>>, first |-> NoEvent, accs |-> <<>>]>>

Rows(q, evs, found) ==
    IF ~Aggregated(q) THEN ListRows(q, evs)
    ELSE GroupRows(q, Kept(q, IF found = <<>> /\ q.group = <<>> THEN NoGroup ELSE found))

\* What the grouped or listed events cannot be queried for.
Errs(q, evs, chosen, calls, groups, rows) ==
    LET looked == Range(q.group) \cup {c.kids[1] : c \in {c \in calls : c.kids # <<>> /\ ~CountsRows(c)}}
    IN \/ ~Valid(q)
       \/ q.where # Absent /\ (\E ev \in Range(evs) : Eval(q.where, ev) = Bad)
       \/ \E ev \in Range(chosen) :
              (\E c \in calls : c.kids = <<>>) \/ (\E e \in looked : Eval(e, ev) = Bad)
       \/ q.having # Absent /\ (\E g \in Range(groups) : EvalGroup(q.having, g) = Bad)
       \/ \E x \in Range(rows) : Bad \in Range(x.row) \cup Range(x.keys)
       \/ Aggregated(q) /\ Len(groups) > MaxGroups
       \/ q.order # <<>> /\ Len(rows) > MaxGroups

Cut(sorted, limit) ==
    [ok |-> TRUE, rows |-> [n \in 1 .. SmallerOf(limit, Len(sorted)) |-> sorted[n].row], more |-> Len(sorted) > limit]

\* Run: [ok, rows, more], more if there are rows beyond the limit.
Over(q, evs, chosen, groups, rows) ==
    IF Errs(q, evs, chosen, Range(CallsByText(q)), groups, rows)
    THEN [ok |-> FALSE, rows |-> <<>>, more |-> FALSE]
    ELSE Cut(SortSeq(rows, LAMBDA a, b : Precedes(q, a.keys, b.keys)), EffectiveLimit(q))

OverGroups(q, evs, chosen, groups) == Over(q, evs, chosen, groups, Rows(q, chosen, groups))

OverChosen(q, evs, chosen) ==
    OverGroups(q, evs, chosen, IF Aggregated(q) THEN Groups(q, chosen) ELSE <<>>)

RunQuery(q, evs) ==
    OverChosen(q, evs, SelectSeq(evs, LAMBDA ev : q.where = Absent \/ Truthy(Eval(q.where, ev))))

-----------------------------------------------------------------------------
\* run_sql and GET /api/sql, which scope the events alike.

RECURSIVE ExprTouches(_, _)

\* ExprTouchesEnv, told by the tree and not by its text.
ExprTouches(e, key) == (e.k = "prop" /\ e.v = key) \/ \E i \in DOMAIN e.kids : ExprTouches(e.kids[i], key)

\* Mutant: the events are scanned as they are stored.
ScopedRaw(q, evs) == evs

\* Production only, unless the WHERE names the environment.
Scoped(q, evs) == IF ExprTouches(q.where, "env") THEN evs ELSE SelectSeq(evs, Production)

RunScoped(q, evs) == RunQuery(q, Scoped(q, evs))

Query(toks, evs) == RunScoped(Parse(toks), evs)
=============================================================================

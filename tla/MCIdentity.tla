------------------------------- MODULE MCIdentity -------------------------------
(***************************************************************************)
(* A visitor who logs in and buys, by one account and then by another,     *)
(* which may be somebody else's: twice in one second of a day, and on the  *)
(* next.                                                                   *)
(***************************************************************************)
EXTENDS Studies, Parity

Kind(user, name, plan, set, prev) ==
    [user |-> user, name |-> name, plan |-> plan, set |-> set, prev |-> prev]

SomeKinds == {
    Kind("anon", "visit", "free", NoPlan, NoOne),
    Kind("ann", "$identify", "pro", NoPlan, "anon"),
    Kind("ann", "buy", NoPlan, "free", NoOne),
    Kind("bob", "visit", "pro", NoPlan, NoOne),
    Kind("bob", "$identify", NoPlan, NoPlan, "ann")}

Funnels(steps, window, order, exclude) ==
    [steps |-> steps, window |-> window, order |-> order, exclude |-> exclude]

SomeQueries == {
    Funnels(<<"visit", "$identify", "buy">>, 1, "ordered", {}),
    Funnels(<<"$identify", "buy">>, 0, "ordered", {"visit"}),
    Funnels(<<"visit", "buy">>, 3, "ordered", {}),
    Funnels(<<"$identify", "buy">>, 1, "unordered", {"visit"}),
    Funnels(<<"visit", "$identify", "buy">>, 3, "unordered", {}),
    Funnels(<<"visit", "$identify", "buy">>, 0, "strict", {})}

SomeAmount(e) == IF e.name = "$identify" THEN NoAmount ELSE (e.at % 3) + 1

SomeTimes == {2, 3, 5}

\* What bob does he does once a day, whenever it arrives.
BobsTimes ==
    Len(log') > Len(log) =>
        LET e == Last(log') IN e.user = "bob" => e.at = IF e.name = "$identify" THEN 3 ELSE 5

SomeBounds == {3, 5, 6}

SomeMoments == {5}

SomePreferred == <<"buy">>

SomeWords == <<"$identify", "ann", "anon", "at3", "at5", "at6", "bob", "buy", "day0", "day1", "day2", "free", "pro", "visit">>
=============================================================================

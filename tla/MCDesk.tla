---------------------------------- MODULE MCDesk ----------------------------------
(* Purchases with a plan, a path and an amount; sign-ups; page views.        *)
EXTENDS Desk

MCGate ==
    [side |-> 2, relative |-> 30, daily |-> 2, people |-> 20, recent |-> 2, recovered |-> 90,
     silence |-> 2, quiet |-> 2, young |-> 1, old |-> 21, held |-> 90, prior |-> 3,
     coverage |-> 80, dominance |-> 60, segment |-> 55, span |-> 7, custom |-> 4, priced |-> 4,
     kill |-> 2, ship |-> 1, moved |-> 25]

MCBar ==
    [sample |-> 2, base |-> 4, observed |-> 3, volume |-> 1, swing |-> 40, top |-> 6, cover |-> 3,
     share |-> 20, steps |-> 4, worse |-> 70, week |-> 2, trend |-> 15, retained |-> 20, compare |-> 2,
     visits |-> 4, narrow |-> 2, arrive |-> 1]

MCWords == <<"", "$exception", "$experiment_reverted", "$pageview", "/a", "/join", "/pay", "activate",
             "amount", "basic", "browser", "buy", "chrome", "flag", "message", "oops", "path", "plan",
             "pro", "ref", "safari", "signup">>

Plain == [p \in {} |-> 0]

Browser(who) == IF who \in {"u", "v"} THEN "safari" ELSE "chrome"

Buy(who, tier) ==
    [name |-> "buy", at |-> 0, who |-> who, props |-> [path |-> "/a", plan |-> tier],
     money |-> [amount |-> [numeric |-> TRUE, n |-> 300]]]

View(who, page) ==
    [name |-> "$pageview", at |-> 0, who |-> who,
     props |-> [path |-> page, browser |-> Browser(who)], money |-> Plain]

Event(who, name) == [name |-> name, at |-> 0, who |-> who, props |-> Plain, money |-> Plain]

Oops(who) == [Event(who, "$exception") EXCEPT !.props = [message |-> "oops"]]

Rest == <<View("u", "/a"), View("v", "/a"), View("w", "/join"), View("x", "/a"), Event("u", "signup")>>

Later == <<View("w", "/a"), View("u", "/join")>>

Buys == <<Buy("u", "pro"), Buy("v", "basic")>>

MCShapes ==
    [normal |-> [morning |-> Buys \o Rest, evening |-> Buys \o Later],
     noBuy |-> [morning |-> Rest, evening |-> Later],
     noPro |-> [morning |-> <<Buy("v", "basic"), Oops("u")>> \o Rest, evening |-> <<Buy("v", "basic")>> \o Later],
     dead |-> [morning |-> <<>>, evening |-> <<>>],
     burst |-> [morning |-> Buys \o <<Buy("w", "pro")>> \o Rest,
                evening |-> Buys \o <<Buy("w", "basic"), View("u", "/pay")>> \o Later]]

MCReading(flag, from, to) ==
    [control |-> TRUE, exposed |-> 20, arms |-> {[significant |-> FALSE, small |-> FALSE, defined |-> TRUE]}]

MCCauseDims == <<"browser", "path">>
MCMoneyProps == <<"amount">>
MCUnset == -1
MCDated == {0, 1, 5}
MCAuto == {"$pageview", "$experiment_reverted", "$exception"}
MCDeclared == <<"buy", "signup">>
MCExpected == [n \in {"buy", "signup"} |-> IF n = "buy" THEN {"path", "plan"} ELSE {}]
MCConvention == <<"signup", "activate", "buy">>
MCBlameProps == <<"plan", "browser">>
===================================================================================

------------------------------- MODULE Aliases -------------------------------
(***************************************************************************)
(* One person under several ids: the alias map of internal/alias/alias.go  *)
(* over the event log, and what an erasure takes.                          *)
(*                                                                         *)
(* Events arrive in any order of their times; the order of the log is the  *)
(* order of arrival.  An erasure that fails midway has removed some of the *)
(* ids it was to remove and may be asked for again.                        *)
(***************************************************************************)
EXTENDS Naturals, Logs

CONSTANTS
    Kinds,      \* what arrives: [user, name, plan, set, prev]; prev is the id that an
                \* $identify or a $create_alias joins to its user, or NoOne
    Times,      \* times of events
    MaxEvents,  \* bound: events in the log and erasures that failed
    MaxFailures,\* bound: erasures that fail
    NoOne

ASSUME BoundsAssumption == Times \subseteq Nat /\ {MaxEvents, MaxFailures} \subseteq Nat

VARIABLES
    log,        \* the events, in storage order
    aliases,    \* alias.Map.m
    owed,       \* bookkeeping: for each erasure that failed, the ids of the person it
                \* was to remove, less those removed or joined elsewhere since
    failures

vars == <<log, aliases, owed, failures>>

-----------------------------------------------------------------------------
\* alias.Map.

\* Mutant: an id is joined to the one given, which may be joined itself.
AddChains(map, anon, canonical) ==
    IF anon = canonical THEN map
    ELSE [id \in DOMAIN map \cup {anon} |-> IF id = anon THEN canonical ELSE map[id]]

Add(map, anon, canonical) ==
    LET target == IF canonical \in DOMAIN map THEN map[canonical] ELSE canonical
    IN IF anon = canonical THEN map
       ELSE [id \in DOMAIN map \cup {anon} |-> IF id = anon THEN target ELSE map[id]]

Resolve(id) == IF id \in DOMAIN aliases THEN aliases[id] ELSE id

AliasesOf(canonical) == {id \in DOMAIN aliases : aliases[id] = canonical}

Forget(id) == RestrictDomain(aliases, LAMBDA a : a # id /\ aliases[a] # id)

\* Store.Scan: every event under its canonical id.
Scan == [i \in DOMAIN log |-> [log[i] EXCEPT !.user = Resolve(@)]]

-----------------------------------------------------------------------------
\* An event arrives; an identity event joins two ids (RecordFrom).
Ingest(kind, at) ==
    /\ Len(log) + failures < MaxEvents
    /\ log' = Append(log, [user |-> kind.user, name |-> kind.name, at |-> at,
                           plan |-> kind.plan, set |-> kind.set])
    /\ aliases' = IF kind.prev = NoOne THEN aliases ELSE Add(aliases, kind.prev, kind.user)
    /\ owed' = {{x \in ids : Resolve(x)' = Resolve(x)} : ids \in owed} \ {{}}
    /\ UNCHANGED failures

\* What Store.DeleteUser removes: the canonical id, the ids that point at it,
\* the id asked for.
Person(id) == {Resolve(id), id} \cup AliasesOf(Resolve(id))

\* Those of them whose events the reports show as the person's.  They may leave
\* out the canonical id, if that is joined to another in turn.
IdsShown(id) == {x \in Person(id) : Resolve(x) = Resolve(id)}

EventsOf(ids) == {e \in ToSet(log) : e.user \in ids}

DeleteUser(id) ==
    /\ log' = Without(log, EventsOf(Person(id)))
    /\ aliases' = Forget(Resolve(id))
    /\ owed' = {ids \ Person(id) : ids \in owed} \ {{}}
    /\ UNCHANGED failures

\* Mutant: the aliases are forgotten before the ids are erased.
DeleteUserForgetsFirst(id) ==
    /\ failures < MaxFailures /\ failures' = failures + 1
    /\ \E gone \in SUBSET Person(id) \ {Person(id)} :
           /\ gone # {} => Resolve(id) \in gone
           /\ log' = Without(log, EventsOf(gone))
    /\ owed' = owed \cup {IdsShown(id)}
    /\ aliases' = Forget(Resolve(id))

\* Some ids are gone, the canonical one first, when the store fails.
DeleteUserFails(id) ==
    /\ failures < MaxFailures /\ failures' = failures + 1
    /\ \E gone \in SUBSET Person(id) \ {Person(id)} :
           /\ gone # {} => Resolve(id) \in gone
           /\ log' = Without(log, EventsOf(gone))
    /\ owed' = owed \cup {IdsShown(id)}
    /\ UNCHANGED aliases

Clear ==
    /\ log' = <<>>
    /\ aliases' = [id \in {} |-> NoOne]
    /\ owed' = {}
    /\ UNCHANGED failures

Ids == {k.user : k \in Kinds}

Init ==
    /\ log = <<>>
    /\ aliases = [id \in {} |-> NoOne]
    /\ owed = {}
    /\ failures = 0

Next ==
    \/ \E k \in Kinds, t \in Times : Ingest(k, t)
    \/ \E id \in Ids : DeleteUser(id) \/ DeleteUserFails(id)
    \/ Clear

Spec == Init /\ [][Next]_vars
-----------------------------------------------------------------------------
\* A DeleteUser that returns nil, asked for under any id of the person, leaves
\* no event the reports would still show as theirs, and none of the ids an
\* earlier one that failed was to remove together with the id asked for, but for
\* those joined to another person in between (alias.go:195).
ErasureCompletes ==
    [][\A id \in Ids :
           DeleteUser(id) =>
               \A e \in ToSet(log') :
                   /\ Resolve(e.user) # Resolve(id)
                   /\ \A ids \in owed : id \in ids => e.user \notin ids]_vars

\* Every id is joined to one that is joined to no other.
OneHop == \A id \in DOMAIN aliases : Resolve(Resolve(id)) = Resolve(id)

\* A map that is one hop stays so, unless an id to which others are joined is
\* joined itself: joining to an id that is joined collapses (alias.go:57), and
\* an erasure forgets whole people (alias.go:115).
HopsStayOne ==
    [][OneHop => \/ OneHop'
                 \/ \E k \in Kinds, t \in Times : AliasesOf(k.prev) # {} /\ Ingest(k, t)]_vars
=============================================================================

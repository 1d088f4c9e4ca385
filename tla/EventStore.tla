------------------------------ MODULE EventStore ------------------------------
(***************************************************************************)
(* What internal/store/store.go promises of every backend, as a set of     *)
(* events: they come from clients, and one leaves only while a call that   *)
(* is to remove it runs: the erasure of its user, a prune with a later     *)
(* cutoff, or a clear.  Such a call may take effect in more than one step  *)
(* (the interface promises no isolation between calls) and may take only   *)
(* some of what it is for (it may fail).  A crash ends the calls it finds  *)
(* and is otherwise no step of this specification: it may not be seen.     *)
(***************************************************************************)
EXTENDS Naturals

CONSTANTS
    Events,     \* event records [id, user, name, ts]
    Cutoffs,    \* retention cutoffs
    MayClear    \* may the store be cleared?

VARIABLES
    stored,     \* the events queries are answered from
    leaving     \* the events some running call is to remove

\* What each kind of call is to remove.
DeleteUser(user) == {e \in Events : e.user = user}

Prune(cutoff) == {e \in Events : e.ts < cutoff}

Requests ==
    {DeleteUser(e.user) : e \in Events}
        \cup {Prune(cutoff) : cutoff \in Cutoffs}
        \cup IF MayClear THEN {Events} ELSE {}

Init == stored = {} /\ leaving = {}

Ingest(batch) == stored' = stored \cup batch /\ UNCHANGED leaving

\* Calls begin or end, and take away some of what they are for.
Remove ==
    /\ leaving' \subseteq leaving \/ \E request \in Requests : leaving' = leaving \cup request
    /\ stored' \subseteq stored
    /\ stored \ stored' \subseteq leaving \cup leaving'

Clear == MayClear /\ stored' = {} /\ UNCHANGED leaving

Next == (\E batch \in SUBSET Events : Ingest(batch)) \/ Remove \/ Clear

Spec == Init /\ [][Next]_<<stored, leaving>>
=============================================================================

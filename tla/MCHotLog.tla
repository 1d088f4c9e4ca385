------------------------------- MODULE MCHotLog -------------------------------
(***************************************************************************)
(* Small instances of HotLog: three events of two users, the first older   *)
(* than the retention cutoff, sent alone and as a batch.                   *)
(***************************************************************************)
EXTENDS HotLog

Event(id, user, name, ts) == [id |-> id, user |-> user, name |-> name, ts |-> ts]

E1 == Event(1, "ann", "visit", 1)
E2 == Event(2, "bob", "buy", 2)
E3 == Event(3, "ann", "buy", 2)

ThreeEvents == {E1, E2, E3}

\* A batch, a batch that repeats an event inside itself, and single events.
SomeBatches == {<<E1, E2>>, <<E2>>, <<E3>>, <<E3, E3>>}

OneCutoff == {2}
=============================================================================

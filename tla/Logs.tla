--------------------------------- MODULE Logs ---------------------------------
(***************************************************************************)
(* A log of events as a sequence, in the order they were stored.           *)
(***************************************************************************)
EXTENDS SequencesExt

\* A log without some of its events, the rest in their order.
Without(es, gone) == FoldLeft(LAMBDA kept, e : IF e \in gone THEN kept ELSE Append(kept, e), <<>>, es)
=============================================================================

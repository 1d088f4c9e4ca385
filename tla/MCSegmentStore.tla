--------------------------- MODULE MCSegmentStore ---------------------------
(***************************************************************************)
(* Small instances of SegmentStore: three events of two users and two      *)
(* names, one of them older than the retention cutoff.                     *)
(***************************************************************************)
EXTENDS SegmentStore

Event(id, user, name, ts) == [id |-> id, user |-> user, name |-> name, ts |-> ts]

TwoEvents == {Event(1, "ann", "visit", 1), Event(2, "bob", "buy", 2)}

ThreeEvents == TwoEvents \cup {Event(3, "ann", "buy", 2)}

OneCutoff == {2}

\* The whole history, and a window whose bounds fall on events.
AllTime == {<<0, 9>>}
AllWindows == {<<0, 9>>, <<2, 3>>}

\* Before a crash, replies of the backend arrive and no hot half of a removal
\* runs inside a seal: recovery is known to miss both.  Clear is used after it.
CalmBeforeCrash ==
    crashes < MaxCrashes =>
        /\ PruneHot \/ EraseHot => pc = "free"
        /\ disk' \in {disk, manifest'}
        /\ ~ClearDrop
=============================================================================

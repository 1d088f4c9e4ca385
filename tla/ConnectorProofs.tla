--------------------------- MODULE ConnectorProofs ---------------------------
(***************************************************************************)
(* The copy of another vendor's daily counts is exact behind the           *)
(* watermark: for every window, overlap, chunk and number of days, and     *)
(* with any number of failed fetches, failed saves and restarts, as long   *)
(* as the overlap is longer than events are late.                          *)
(***************************************************************************)
EXTENDS Connector, TLAPS

-----------------------------------------------------------------------------
\* The inductive invariant.

Buckets == UNION {[D -> 0 .. MaxCount] : D \in SUBSET Days}

Saves == [buckets : Buckets, mark : Nat]

\* What buckets hold of a day.
CountOn(b, d) == IF d \in DOMAIN b THEN b[d] ELSE 0

\* Nothing is counted that the vendor does not have, and the days before upTo which are
\* still in the window have all of it.
Exact(b, upTo) ==
    \A d \in Days :
        /\ CountOn(b, d) <= vendor[d]
        /\ today + 1 <= d + Window /\ d < upTo => CountOn(b, d) = vendor[d]

TypeInv ==
    /\ today \in Nat /\ FirstDay <= today /\ (FirstDay <= LastDay => today <= LastDay)
    /\ vendor \in [Days -> 0 .. MaxCount]
    /\ data \in Saves /\ disk \in Saves
    /\ sync \in [busy : BOOLEAN, oldest : Nat, to : Nat, start : Nat, held : Buckets,
                 fetched : BOOLEAN]
    /\ faults \in 0 .. MaxFaults /\ crashes \in 0 .. MaxCrashes

\* A sync works inside the window as it was when the sync began.
WindowInv ==
    /\ data.mark <= today + 1 /\ disk.mark <= today + 1
    /\ sync.busy => /\ sync.oldest + Window = sync.to
                    /\ sync.oldest <= sync.start /\ sync.start < sync.to
                    /\ sync.to <= today + 1

\* The watermark less the overlap is how far a save is exact; a running sync has read the
\* days up to its next chunk, and those within the overlap of today may have grown since.
ExactInv ==
    /\ Exact(data.buckets, data.mark - Overlap)
    /\ Exact(disk.buckets, disk.mark - Overlap)
    /\ sync.busy => Exact(sync.held, Smaller(sync.start, sync.to - Overlap))

IInv == TypeInv /\ WindowInv /\ ExactInv

-----------------------------------------------------------------------------
\* The operators of a sync.

\* The constants are numbers.
LEMMA Numbers ==
    /\ {Window, Overlap, Chunk, Lateness, FirstDay, LastDay, MaxCount, MaxFaults, MaxCrashes}
           \subseteq Nat
    /\ Window > 0 /\ Overlap > 0 /\ Chunk > 0 /\ FirstDay >= Window /\ FirstDay >= Overlap
BY ConnectorAssumption

\* What maps days to counts is a set of buckets.
LEMMA IsBuckets ==
    ASSUME NEW b, DOMAIN b \subseteq Days, b = [d \in DOMAIN b |-> b[d]],
           \A d \in DOMAIN b : b[d] \in 0 .. MaxCount
    PROVE  b \in Buckets
<1>1. b \in [DOMAIN b -> 0 .. MaxCount]
  OBVIOUS
<1>2. QED
  BY <1>1 DEF Buckets

\* Buckets map days to counts.
LEMMA BucketsAre ==
    ASSUME NEW b \in Buckets
    PROVE  /\ DOMAIN b \subseteq Days
           /\ b = [d \in DOMAIN b |-> b[d]]
           /\ \A d \in DOMAIN b : b[d] \in 0 .. MaxCount
           /\ \A d : CountOn(b, d) \in 0 .. MaxCount
<1>1. PICK D \in SUBSET Days : b \in [D -> 0 .. MaxCount]
  BY DEF Buckets
<1>2. DOMAIN b = D
  BY <1>1
<1>3. QED
  BY <1>1, <1>2, Numbers DEF CountOn

\* Nothing is held at the start.
LEMMA NoneHeld == None \in Buckets /\ \A d : CountOn(None, d) = 0
<1>1. DOMAIN None = {} /\ None = [d \in DOMAIN None |-> None[d]]
  BY DEF None
<1>2. QED
  BY <1>1, IsBuckets DEF CountOn

\* A chunk is the vendor's counts of its days.
LEMMA Fetched ==
    ASSUME vendor \in [Days -> 0 .. MaxCount], NEW from \in Nat, NEW to \in Nat
    PROVE  /\ PhaseA(from, to) \in Buckets
           /\ \A d \in Days : from <= d /\ d < to => CountOn(PhaseA(from, to), d) = vendor[d]
           /\ \A d \in DOMAIN PhaseA(from, to) :
                  from <= d /\ d < to /\ PhaseA(from, to)[d] = vendor[d]
<1> DEFINE f == PhaseA(from, to)
           D == {d \in Days : from <= d /\ d < to /\ vendor[d] > 0}
<1>1. f = [d \in D |-> vendor[d]]
  BY DEF PhaseA, Restrict
<1>2. DOMAIN f = D /\ \A d \in D : f[d] = vendor[d]
  BY <1>1
<1>3. f \in Buckets
  BY <1>1, <1>2, IsBuckets
<1>4. \A d \in Days : from <= d /\ d < to => CountOn(f, d) = vendor[d]
  BY <1>2, Numbers DEF CountOn, Days
<1>5. QED
  BY <1>2, <1>3, <1>4

\* A bucket fetched replaces the one held.
LEMMA Merged ==
    ASSUME NEW held \in Buckets, NEW fresh \in Buckets
    PROVE  /\ Merge(held, fresh) \in Buckets
           /\ \A d : CountOn(Merge(held, fresh), d) =
                         IF d \in DOMAIN fresh THEN fresh[d] ELSE CountOn(held, d)
<1> DEFINE m == Merge(held, fresh)
<1>1. DOMAIN m = DOMAIN held \cup DOMAIN fresh
  BY DEF Merge
<1>2. \A d \in DOMAIN m : m[d] = IF d \in DOMAIN fresh THEN fresh[d] ELSE held[d]
  BY DEF Merge
<1>3. m = [d \in DOMAIN m |-> m[d]]
  BY DEF Merge
<1>4. m \in Buckets
  <2>1. DOMAIN m \subseteq Days
    BY <1>1, BucketsAre
  <2>2. \A d \in DOMAIN m : m[d] \in 0 .. MaxCount
    BY <1>1, <1>2, BucketsAre
  <2>3. QED
    BY <1>3, <2>1, <2>2, IsBuckets
<1>5. \A d : CountOn(m, d) = IF d \in DOMAIN fresh THEN fresh[d] ELSE CountOn(held, d)
  BY <1>1, <1>2 DEF CountOn
<1>6. QED
  BY <1>4, <1>5

\* Trimming leaves the days of the window as they are.
LEMMA Trimmed ==
    ASSUME NEW b \in Buckets, NEW from \in Nat, NEW to \in Nat
    PROVE  /\ Trim(b, from, to) \in Buckets
           /\ \A d \in Days : CountOn(Trim(b, from, to), d) =
                                  IF from <= d /\ d < to THEN CountOn(b, d) ELSE 0
<1> DEFINE t == Trim(b, from, to)
           D == {d \in DOMAIN b : from <= d /\ d < to}
<1>1. t = [d \in D |-> b[d]]
  BY DEF Trim, Restrict
<1>2. DOMAIN t = D /\ \A d \in D : t[d] = b[d]
  BY <1>1
<1>3. t \in Buckets
  BY <1>1, <1>2, IsBuckets, BucketsAre
<1>4. \A d \in Days : CountOn(t, d) = IF from <= d /\ d < to THEN CountOn(b, d) ELSE 0
  BY <1>2 DEF CountOn
<1>5. QED
  BY <1>3, <1>4

-----------------------------------------------------------------------------
\* Exactness, step by step.

\* The overlap keeps the days behind it out of the reach of late events.
LEMMA ExactStays ==
    ASSUME Lateness < Overlap, TypeInv, NEW b \in Buckets, NEW upTo \in Int,
           upTo + Overlap <= today + 1, Exact(b, upTo),
           NextDay \/ \E d \in Days : Arrive(d)
    PROVE  Exact(b, upTo)'
<1>1. CASE NextDay
  BY <1>1, Numbers DEF NextDay, Exact, TypeInv, Days
<1>2. ASSUME NEW d \in Days, Arrive(d)
      PROVE  Exact(b, upTo)'
  <2>1. d >= upTo
    BY <1>2, Numbers DEF Arrive, TypeInv, Days
  <2>2. /\ today' = today
        /\ vendor'[d] = vendor[d] + 1
        /\ \A c \in Days \ {d} : vendor'[c] = vendor[c]
    BY <1>2, Numbers DEF Arrive, TypeInv
  <2>3. vendor[d] \in Nat /\ CountOn(b, d) \in Nat
    BY Numbers, BucketsAre DEF TypeInv
  <2>4. ASSUME NEW c \in Days
        PROVE  /\ CountOn(b, c) <= vendor'[c]
               /\ today' + 1 <= c + Window /\ c < upTo => CountOn(b, c) = vendor'[c]
    <3>1. CASE c = d
      BY <2>1, <2>2, <2>3, <3>1, Numbers DEF Exact, Days
    <3>2. CASE c # d
      BY <2>2, <3>2 DEF Exact
    <3>3. QED
      BY <3>1, <3>2
  <2>5. QED
    BY <2>4 DEF Exact
<1>3. QED
  BY <1>1, <1>2

\* With a chunk merged, the days before its end are as exact as those before its start were.
LEMMA ExactMerged ==
    ASSUME TypeInv, NEW held \in Buckets, NEW from \in Nat, NEW to \in Nat, NEW far \in Int,
           Exact(held, Smaller(from, far))
    PROVE  Exact(Merge(held, PhaseA(from, to)), Smaller(to, far))
<1> DEFINE f == PhaseA(from, to)
           m == Merge(held, f)
<1>1. ASSUME NEW d \in Days
      PROVE  /\ CountOn(m, d) <= vendor[d]
             /\ today + 1 <= d + Window /\ d < Smaller(to, far) => CountOn(m, d) = vendor[d]
  <2>1. vendor[d] \in Nat /\ CountOn(held, d) \in Nat /\ CountOn(held, d) <= vendor[d]
    BY Numbers, BucketsAre DEF TypeInv, Exact
  <2>2. f \in Buckets
    BY Fetched DEF TypeInv
  <2>3. CountOn(m, d) = IF d \in DOMAIN f THEN f[d] ELSE CountOn(held, d)
    BY <2>2, Merged
  <2>4. d \in DOMAIN f => f[d] = vendor[d]
    BY Fetched DEF TypeInv
  <2>5. CASE d \in DOMAIN f
    BY <2>1, <2>3, <2>4, <2>5
  <2>6. CASE d \notin DOMAIN f /\ from <= d /\ d < to
    <3>1. CountOn(f, d) = vendor[d]
      BY <2>6, Fetched DEF TypeInv
    <3>2. vendor[d] = 0
      BY <2>6, <3>1 DEF CountOn
    <3>3. QED
      BY <2>1, <2>3, <2>6, <3>2
  <2>7. CASE d \notin DOMAIN f /\ ~(from <= d /\ d < to)
    <3>1. d < Smaller(to, far) => d < Smaller(from, far)
      BY <2>7 DEF Smaller, Days
    <3>2. QED
      BY <2>1, <2>3, <2>7, <3>1 DEF Exact
  <2>8. QED
    BY <2>5, <2>6, <2>7
<1>2. QED
  BY <1>1 DEF Exact

\* Trimming to the window of the sync loses no day of today's window.
LEMMA ExactTrimmed ==
    ASSUME TypeInv, NEW b \in Buckets, NEW upTo \in Int, NEW oldest \in Nat, NEW to \in Nat,
           oldest + Window = to, to <= today + 1, upTo <= to, Exact(b, upTo)
    PROVE  Exact(Trim(b, oldest, to), upTo)
<1> DEFINE t == Trim(b, oldest, to)
<1>1. ASSUME NEW d \in Days
      PROVE  /\ CountOn(t, d) <= vendor[d]
             /\ today + 1 <= d + Window /\ d < upTo => CountOn(t, d) = vendor[d]
  <2>1. CountOn(t, d) = IF oldest <= d /\ d < to THEN CountOn(b, d) ELSE 0
    BY Trimmed
  <2>2. vendor[d] \in Nat /\ CountOn(b, d) <= vendor[d]
    BY Numbers DEF TypeInv, Exact
  <2>3. today + 1 <= d + Window /\ d < upTo => oldest <= d /\ d < to
    BY Numbers DEF TypeInv, Days
  <2>4. QED
    BY <2>1, <2>2, <2>3 DEF Exact
<1>2. QED
  BY <1>1 DEF Exact

\* Less far, no less exact.
LEMMA ExactLess ==
    ASSUME NEW b, NEW upTo \in Int, NEW less \in Int, less <= upTo, Exact(b, upTo)
    PROVE  Exact(b, less)
BY DEF Exact, Days

\* A save of exact buckets leaves memory and the file exact, whether it reaches the file or not.
LEMMA ExactSaved ==
    ASSUME IInv, NEW b \in Buckets, NEW mark \in Nat, mark <= today + 1,
           Exact(b, mark - Overlap), Save(b, mark), UNCHANGED <<today, vendor, crashes>>
    PROVE  /\ data' \in Saves /\ disk' \in Saves /\ faults' \in 0 .. MaxFaults
           /\ data'.mark <= today + 1 /\ disk'.mark <= today + 1
           /\ Exact(data.buckets, data.mark - Overlap)'
           /\ Exact(disk.buckets, disk.mark - Overlap)'
<1>1. data' = [buckets |-> b, mark |-> mark]
  BY DEF Save
<1>2. disk' \in {data', disk} /\ faults' \in 0 .. MaxFaults
  BY Numbers DEF Save, IInv, TypeInv
<1>3. data' \in Saves /\ disk' \in Saves
  BY <1>1, <1>2 DEF Saves, IInv, TypeInv
<1>4. data'.buckets = b /\ data'.mark = mark
  BY <1>1
<1>5. \A s \in {data', disk'} : s.mark <= today + 1 /\ Exact(s.buckets, s.mark - Overlap)
  BY <1>2, <1>4 DEF IInv, WindowInv, ExactInv
<1>6. Exact(data.buckets, data.mark - Overlap)' /\ Exact(disk.buckets, disk.mark - Overlap)'
  BY <1>5 DEF Exact
<1>7. QED
  BY <1>2, <1>3, <1>5, <1>6

-----------------------------------------------------------------------------
\* The invariant holds.

\* The connector starts with nothing and a watermark of zero.
LEMMA InitIInv == Init => IInv
<1> SUFFICES ASSUME Init PROVE IInv
  OBVIOUS
<1>1. None \in Buckets /\ Nothing \in Saves /\ Nothing.buckets = None /\ Nothing.mark = 0
  BY NoneHeld DEF Nothing, Saves
<1>2. vendor \in [Days -> 0 .. MaxCount]
  BY Numbers DEF Init
<1>3. Idle \in [busy : BOOLEAN, oldest : Nat, to : Nat, start : Nat, held : Buckets,
                fetched : BOOLEAN] /\ Idle.busy = FALSE
  BY NoneHeld DEF Idle
<1>4. TypeInv
  BY <1>1, <1>2, <1>3, Numbers DEF Init, TypeInv
<1>5. WindowInv
  BY <1>1, <1>3, Numbers DEF Init, WindowInv
<1>6. Exact(None, 0 - Overlap)
  BY <1>2, NoneHeld, Numbers DEF Exact, Days
<1>7. QED
  <2>1. Exact(data.buckets, data.mark - Overlap) /\ Exact(disk.buckets, disk.mark - Overlap)
    BY <1>1, <1>6 DEF Init
  <2>2. ~sync.busy
    BY <1>3 DEF Init
  <2>3. QED
    BY <1>4, <1>5, <2>1, <2>2 DEF IInv, ExactInv

\* The day turns, or an event reaches the vendor.
LEMMA EnvironmentIInv ==
    ASSUME Lateness < Overlap, IInv, NextDay \/ \E d \in Days : Arrive(d)
    PROVE  IInv'
<1>1. UNCHANGED <<data, disk, sync, faults, crashes>> /\ today' \in {today, today + 1}
  BY DEF NextDay, Arrive
<1>2. TypeInv'
  <2>1. CASE NextDay
    BY <2>1, Numbers DEF NextDay, IInv, TypeInv
  <2>2. ASSUME NEW d \in Days, Arrive(d) PROVE TypeInv'
    <3>1. vendor[d] + 1 \in 0 .. MaxCount
      BY <2>2, Numbers DEF Arrive, IInv, TypeInv
    <3>2. vendor' \in [Days -> 0 .. MaxCount] /\ today' = today
      BY <2>2, <3>1 DEF Arrive, IInv, TypeInv
    <3>3. QED
      BY <1>1, <3>2 DEF IInv, TypeInv
  <2>3. QED
    BY <2>1, <2>2
<1>3. WindowInv'
  BY <1>1 DEF IInv, WindowInv, TypeInv, Saves
<1>4. ASSUME NEW s \in {data, disk} PROVE Exact(s.buckets, s.mark - Overlap)'
  <2>1. s.buckets \in Buckets /\ s.mark \in Nat /\ s.mark <= today + 1
    BY DEF IInv, TypeInv, Saves, WindowInv
  <2>2. Exact(s.buckets, s.mark - Overlap)
    BY DEF IInv, ExactInv
  <2>3. s.mark - Overlap \in Int /\ s.mark - Overlap + Overlap <= today + 1
    BY <2>1, Numbers DEF IInv, TypeInv
  <2>4. QED
    BY <1>1, <2>1, <2>2, <2>3, ExactStays DEF IInv
<1>5. ASSUME sync.busy PROVE Exact(sync.held, Smaller(sync.start, sync.to - Overlap))'
  <2>1. Exact(sync.held, Smaller(sync.start, sync.to - Overlap)) /\ sync.held \in Buckets
    BY <1>5 DEF IInv, TypeInv, ExactInv
  <2>2. sync.start \in Nat /\ sync.to \in Nat /\ sync.to <= today + 1 /\ today \in Nat
    BY <1>5 DEF IInv, TypeInv, WindowInv
  <2>3. /\ Smaller(sync.start, sync.to - Overlap) \in Int
        /\ Smaller(sync.start, sync.to - Overlap) + Overlap <= today + 1
    BY <2>2, Numbers DEF Smaller
  <2>4. QED
    BY <1>1, <2>1, <2>3, ExactStays DEF IInv
<1>6. ExactInv'
  <2>1. Exact(data.buckets, data.mark - Overlap)' /\ Exact(disk.buckets, disk.mark - Overlap)'
    BY <1>4, <1>1
  <2>2. QED
    BY <1>1, <1>5, <2>1 DEF ExactInv
<1>7. QED
  BY <1>2, <1>3, <1>6 DEF IInv

\* A sync begins at the watermark less the overlap, or at the start of its window.
LEMMA BeginIInv == ASSUME IInv, BeginSync PROVE IInv'
<1> DEFINE to     == today + 1
           oldest == to - Window
           from   == ResumeFrom(data.mark, oldest)
<1>1. UNCHANGED <<today, vendor, data, disk, faults, crashes>>
  BY DEF BeginSync
<1>2. /\ today \in Nat /\ oldest \in Nat /\ to \in Nat /\ oldest + Window = to
      /\ data.mark \in Nat /\ data.buckets \in Buckets
  BY Numbers DEF IInv, TypeInv, Saves
<1>3. from \in Nat /\ oldest <= from
  BY <1>2, Numbers DEF ResumeFrom, Larger
<1>4. \A b, upTo : Exact(b, upTo) => Exact(b, upTo)'
  BY <1>1 DEF Exact
<1>5. CASE sync' = Idle
  <2>1. Idle \in [busy : BOOLEAN, oldest : Nat, to : Nat, start : Nat, held : Buckets,
                  fetched : BOOLEAN] /\ Idle.busy = FALSE
    BY NoneHeld DEF Idle
  <2>2. QED
    BY <1>1, <1>4, <1>5, <2>1 DEF IInv, TypeInv, WindowInv, ExactInv
<1>6. CASE from < to /\ sync' = [busy |-> TRUE, oldest |-> oldest, to |-> to, start |-> from,
                                 held |-> data.buckets, fetched |-> FALSE]
  <2>1. /\ sync'.busy /\ sync'.oldest = oldest /\ sync'.to = to /\ sync'.start = from
        /\ sync'.held = data.buckets
    BY <1>6
  <2>2. TypeInv'
    BY <1>1, <1>2, <1>3, <1>6 DEF IInv, TypeInv
  <2>3. WindowInv'
    BY <1>1, <1>2, <1>3, <1>6, <2>1, Numbers DEF IInv, WindowInv
  <2>4. ASSUME NEW d \in Days
        PROVE  /\ CountOn(data.buckets, d) <= vendor[d]
               /\ today + 1 <= d + Window /\ d < Smaller(from, to - Overlap)
                      => CountOn(data.buckets, d) = vendor[d]
    <3>1. d < Smaller(from, to - Overlap) => d < from
      BY <1>2, <1>3, Numbers DEF Smaller, Days
    <3>2. today + 1 <= d + Window /\ d < from => d < data.mark - Overlap
      BY <1>2, Numbers DEF ResumeFrom, Larger, Days
    <3>3. QED
      BY <3>1, <3>2 DEF IInv, ExactInv, Exact
  <2>5. Exact(data.buckets, Smaller(from, to - Overlap))
    BY <2>4 DEF Exact
  <2>6. ExactInv'
    BY <1>1, <1>4, <2>1, <2>5 DEF IInv, ExactInv
  <2>7. QED
    BY <2>2, <2>3, <2>6 DEF IInv
<1>7. QED
  BY <1>5, <1>6 DEF BeginSync

\* A chunk is read and saved, or only saved.
LEMMA ChunkIInv == ASSUME IInv, ReadChunk PROVE IInv'
<1> DEFINE end   == ChunkEnd(sync)
           fresh == PhaseA(sync.start, end)
           held  == Merge(sync.held, fresh)
           far   == sync.to - Overlap
           more  == [sync EXCEPT !.start = end, !.held = held,
                                 !.fetched = @ \/ fresh # None]
<1>1. /\ sync.busy /\ UNCHANGED <<today, vendor, crashes>>
      /\ Save(Trim(held, sync.oldest, sync.to), end)
      /\ sync' = Idle \/ (end # sync.to /\ sync' = more)
  BY DEF ReadChunk
<1>2. /\ sync.start \in Nat /\ sync.to \in Nat /\ sync.oldest \in Nat /\ sync.held \in Buckets
      /\ sync.oldest + Window = sync.to /\ sync.oldest <= sync.start /\ sync.start < sync.to
      /\ sync.to <= today + 1 /\ today \in Nat
  BY <1>1 DEF IInv, TypeInv, WindowInv
<1>3. end \in Nat /\ sync.start < end /\ end <= sync.to /\ far \in Int
  BY <1>2, Numbers DEF ChunkEnd, Smaller
<1>4. fresh \in Buckets /\ held \in Buckets
  BY <1>2, <1>3, Fetched, Merged DEF IInv, TypeInv
<1>5. Exact(held, Smaller(end, far))
  BY <1>1, <1>2, <1>3, ExactMerged DEF IInv, ExactInv
<1>6. Exact(Trim(held, sync.oldest, sync.to), end - Overlap)
  <2>1. Smaller(end, far) \in Int /\ end - Overlap <= Smaller(end, far) /\ Smaller(end, far) <= sync.to
    BY <1>2, <1>3, Numbers DEF Smaller
  <2>2. end - Overlap \in Int
    BY <1>3, Numbers
  <2>3. Exact(Trim(held, sync.oldest, sync.to), Smaller(end, far))
    BY <1>2, <1>4, <1>5, <2>1, ExactTrimmed DEF IInv
  <2>4. QED
    BY <2>1, <2>2, <2>3, ExactLess
<1>7. Trim(held, sync.oldest, sync.to) \in Buckets
  BY <1>2, <1>4, Trimmed
<1>8. /\ data' \in Saves /\ disk' \in Saves /\ faults' \in 0 .. MaxFaults
      /\ data'.mark <= today + 1 /\ disk'.mark <= today + 1
      /\ Exact(data.buckets, data.mark - Overlap)'
      /\ Exact(disk.buckets, disk.mark - Overlap)'
  <2> HIDE DEF end, held
  <2>1. end <= today + 1
    BY <1>2, <1>3
  <2>2. QED
    BY <1>1, <1>3, <1>6, <1>7, <2>1, ExactSaved
<1>9. CASE sync' = Idle
  <2>1. Idle \in [busy : BOOLEAN, oldest : Nat, to : Nat, start : Nat, held : Buckets,
                  fetched : BOOLEAN] /\ Idle.busy = FALSE
    BY NoneHeld DEF Idle
  <2>2. QED
    BY <1>1, <1>8, <1>9, <2>1 DEF IInv, TypeInv, WindowInv, ExactInv
<1>10. CASE end # sync.to /\ sync' = more
  <2>1. (sync.fetched \/ fresh # None) \in BOOLEAN
    OBVIOUS
  <2>2. sync \in [busy : BOOLEAN, oldest : Nat, to : Nat, start : Nat, held : Buckets,
                  fetched : BOOLEAN]
    BY DEF IInv, TypeInv
  <2>3. /\ sync' \in [busy : BOOLEAN, oldest : Nat, to : Nat, start : Nat, held : Buckets,
                      fetched : BOOLEAN]
        /\ sync'.oldest = sync.oldest /\ sync'.to = sync.to /\ sync'.start = end
        /\ sync'.held = held /\ sync'.busy = sync.busy
    <3>1. \A a, b, f : LET s == [sync EXCEPT !.start = a, !.held = b, !.fetched = f]
                       IN /\ s.oldest = sync.oldest /\ s.to = sync.to /\ s.start = a
                          /\ s.held = b /\ s.busy = sync.busy
                          /\ a \in Nat /\ b \in Buckets /\ f \in BOOLEAN =>
                                 s \in [busy : BOOLEAN, oldest : Nat, to : Nat, start : Nat,
                                       held : Buckets, fetched : BOOLEAN]
      BY <2>2
    <3>2. \E f \in BOOLEAN : sync' = [sync EXCEPT !.start = end, !.held = held, !.fetched = f]
      BY <1>10, <2>1
    <3> HIDE DEF end, fresh, held
    <3>3. QED
      BY <1>3, <1>4, <3>1, <3>2
  <2>4. TypeInv'
    BY <1>1, <1>8, <2>3 DEF IInv, TypeInv
  <2>5. WindowInv'
    <3> HIDE DEF end, fresh, held
    <3>1. QED
      BY <1>1, <1>2, <1>3, <1>8, <1>10, <2>3 DEF WindowInv
  <2>6. Exact(sync.held, Smaller(sync.start, sync.to - Overlap))'
    <3>1. PICK b, upTo : b = held /\ upTo = Smaller(end, far)
      OBVIOUS
    <3>2. Exact(b, upTo)
      BY <1>5, <3>1
    <3>3. b = sync'.held /\ upTo = Smaller(sync'.start, sync'.to - Overlap)
      BY <2>3, <3>1
    <3>4. QED
      BY <1>1, <3>2, <3>3 DEF Exact
  <2>7. ExactInv'
    <3> HIDE DEF end, fresh, held, more
    <3>1. QED
      BY <1>8, <2>6 DEF ExactInv
  <2>8. QED
    BY <2>4, <2>5, <2>7 DEF IInv
<1>11. QED
  BY <1>1, <1>9, <1>10

\* A chunk is not answered: what was fetched before it is saved up to where it ended.
LEMMA FetchFailsIInv == ASSUME IInv, FetchFails PROVE IInv'
<1> DEFINE kept == Trim(sync.held, sync.oldest, sync.to)
<1>1. sync.busy /\ sync' = Idle /\ UNCHANGED <<today, vendor, crashes>>
  BY DEF FetchFails
<1>2. /\ sync.start \in Nat /\ sync.to \in Nat /\ sync.oldest \in Nat /\ sync.held \in Buckets
      /\ sync.oldest + Window = sync.to /\ sync.oldest <= sync.start /\ sync.start < sync.to
      /\ sync.to <= today + 1 /\ today \in Nat
  BY <1>1 DEF IInv, TypeInv, WindowInv
<1>3. Exact(kept, sync.start - Overlap)
  <2>1. /\ sync.start - Overlap \in Int /\ sync.start - Overlap <= sync.to
        /\ Smaller(sync.start, sync.to - Overlap) \in Int
        /\ sync.start - Overlap <= Smaller(sync.start, sync.to - Overlap)
    BY <1>2, Numbers DEF Smaller
  <2>2. Exact(sync.held, sync.start - Overlap)
    BY <1>1, <2>1, ExactLess DEF IInv, ExactInv
  <2>3. QED
    BY <1>2, <2>1, <2>2, ExactTrimmed DEF IInv
<1>4. kept \in Buckets
  BY <1>2, Trimmed
<1>5. /\ data' \in Saves /\ disk' \in Saves /\ faults' \in 0 .. MaxFaults
      /\ data'.mark <= today + 1 /\ disk'.mark <= today + 1
      /\ Exact(data.buckets, data.mark - Overlap)'
      /\ Exact(disk.buckets, disk.mark - Overlap)'
  <2>1. CASE sync.fetched
    <3>1. Save(kept, sync.start) /\ sync.start <= today + 1
      BY <1>2, <2>1 DEF FetchFails
    <3> HIDE DEF kept
    <3>2. QED
      BY <1>1, <1>2, <1>3, <1>4, <3>1, ExactSaved
  <2>2. CASE ~sync.fetched
    <3>1. UNCHANGED <<data, disk, faults>>
      BY <2>2 DEF FetchFails
    <3>2. QED
      BY <1>1, <3>1 DEF IInv, TypeInv, WindowInv, ExactInv, Exact
  <2>3. QED
    BY <2>1, <2>2
<1>6. Idle \in [busy : BOOLEAN, oldest : Nat, to : Nat, start : Nat, held : Buckets,
                fetched : BOOLEAN] /\ Idle.busy = FALSE
  BY NoneHeld DEF Idle
<1>7. QED
  BY <1>1, <1>5, <1>6 DEF IInv, TypeInv, WindowInv, ExactInv

\* The file is read back, or found broken: then everything is read again.
LEMMA RestartIInv == ASSUME IInv, Restart PROVE IInv'
<1>1. /\ disk' \in {disk, Nothing} /\ data' = disk' /\ sync' = Idle
      /\ UNCHANGED <<today, vendor, faults>> /\ crashes' \in 0 .. MaxCrashes
  BY Numbers DEF Restart, IInv, TypeInv
<1>2. None \in Buckets /\ Nothing \in Saves /\ Nothing.buckets = None /\ Nothing.mark = 0
  BY NoneHeld DEF Nothing, Saves
<1>3. Idle \in [busy : BOOLEAN, oldest : Nat, to : Nat, start : Nat, held : Buckets,
                fetched : BOOLEAN] /\ Idle.busy = FALSE
  BY NoneHeld DEF Idle
<1>4. Exact(None, 0 - Overlap)
  BY NoneHeld, Numbers DEF IInv, TypeInv, Exact, Days
<1>5. disk' \in Saves /\ disk'.mark <= today + 1 /\ Exact(disk'.buckets, disk'.mark - Overlap)
  BY <1>1, <1>2, <1>4, Numbers DEF IInv, TypeInv, WindowInv, ExactInv
<1>6. TypeInv' /\ WindowInv'
  BY <1>1, <1>3, <1>5 DEF IInv, TypeInv, WindowInv
<1>7. ExactInv'
  BY <1>1, <1>3, <1>5 DEF ExactInv, Exact
<1>8. QED
  BY <1>6, <1>7 DEF IInv

\* Every step preserves the invariant, because the overlap is longer than events are late.
LEMMA NextIInv == ASSUME Lateness < Overlap, IInv, [Next]_vars PROVE IInv'
<1>1. CASE UNCHANGED vars
  BY <1>1 DEF vars, IInv, TypeInv, WindowInv, ExactInv, Exact
<1>2. QED
  BY <1>1, EnvironmentIInv, BeginIInv, ChunkIInv, FetchFailsIInv, RestartIInv DEF Next

-----------------------------------------------------------------------------
\* The theorems.

\* The state of the poller, in memory and on disk, is well formed, and every sync works
\* inside its window.
THEOREM TypeCorrect ==
    ASSUME Lateness < Overlap, FirstDay <= LastDay
    PROVE  Spec => []TypeOK
<1>1. ASSUME IInv PROVE TypeOK
  <2>1. today \in FirstDay .. LastDay
    BY <1>1, Numbers DEF IInv, TypeInv
  <2>2. ASSUME NEW s \in {data, disk}
        PROVE  DOMAIN s.buckets \subseteq Days /\ s.mark \in 0 .. LastDay + 1
    <3>1. s.buckets \in Buckets /\ s.mark \in Nat /\ s.mark <= today + 1
      BY <1>1 DEF IInv, TypeInv, WindowInv, Saves
    <3>2. QED
      BY <2>1, <3>1, BucketsAre, Numbers
  <2>3. QED
    BY <1>1, <2>1, <2>2 DEF TypeOK, IInv, TypeInv, WindowInv
<1>2. QED
  BY <1>1, InitIInv, NextIInv, PTL DEF Spec

\* A day more than the overlap behind the watermark is exact, in memory and in the file, and
\* no day is ever counted twice: whatever chunk fails, wherever a save is lost or the process
\* restarts, and however often a day is read again.  The vendor must take late events for
\* fewer days than the overlap: with as many, a day would change behind the watermark.
THEOREM BehindWatermarkExact ==
    ASSUME Lateness < Overlap
    PROVE  Spec => []DaysExact
<1>1. ASSUME IInv PROVE DaysExact
  <2>1. ASSUME NEW s \in {data, disk}, NEW d \in Days
        PROVE  /\ HeldOn(s, d) <= vendor[d]
               /\ today + 1 <= d + Window /\ d + Overlap < s.mark => HeldOn(s, d) = vendor[d]
    <3>1. Exact(s.buckets, s.mark - Overlap) /\ s.mark \in Nat
      BY <1>1 DEF IInv, TypeInv, ExactInv, Saves
    <3>2. HeldOn(s, d) = CountOn(s.buckets, d)
      BY DEF HeldOn, CountOn
    <3>3. d + Overlap < s.mark => d < s.mark - Overlap
      BY <3>1, Numbers DEF Days
    <3>4. QED
      BY <3>1, <3>2, <3>3 DEF Exact
  <2>2. QED
    BY <2>1 DEF DaysExact
<1>2. QED
  BY <1>1, InitIInv, NextIInv, PTL DEF Spec
=============================================================================

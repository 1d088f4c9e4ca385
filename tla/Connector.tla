------------------------------ MODULE Connector ------------------------------
(***************************************************************************)
(* The poller that keeps a copy of another vendor's daily counts:          *)
(* internal/connector/sync.go over filestore.go.                           *)
(*                                                                         *)
(* A bucket is the count of one event on one day; the vendor returns none  *)
(* for a day without events.  A sync reads the days from the watermark,    *)
(* less an overlap, to the end of today, one chunk of days at a time, and  *)
(* saves after every chunk.  The day may turn, events may arrive late, a   *)
(* fetch or a save may fail and the process may restart between any two    *)
(* chunks.  Syncer.mu makes a sync single-flight; when the loop runs one   *)
(* (interval, back-off, jitter) is left open.                              *)
(***************************************************************************)
EXTENDS Naturals, FiniteSets, Functions

CONSTANTS
    Window,     \* SyncOpts.Window, in days
    Overlap,    \* SyncOpts.Overlap
    Chunk,      \* SyncOpts.Chunk
    Lateness,   \* how many days late the vendor still accepts an event
    FirstDay,   \* the day the connector is set up
    LastDay,    \* bound: days
    MaxCount,   \* bound: events of a day
    MaxFaults,  \* bound: saves that fail
    MaxCrashes  \* bound: restarts

ASSUME ConnectorAssumption ==
    /\ {Window, Overlap, Chunk, Lateness, FirstDay, LastDay, MaxCount, MaxFaults, MaxCrashes}
           \subseteq Nat
    /\ FirstDay >= Window /\ FirstDay >= Overlap
    /\ Window > 0 /\ Overlap > 0 /\ Chunk > 0

VARIABLES
    today,      \* the current UTC day
    vendor,     \* day -> how many events the vendor has
    data,       \* FileStore.data: [buckets, mark]; mark 0 is the zero time
    disk,       \* the file
    sync,       \* the running Sync: its locals
    faults, crashes

vars == <<today, vendor, data, disk, sync, faults, crashes>>

Days == 0 .. LastDay

None == [d \in {} |-> 0]

Nothing == [buckets |-> None, mark |-> 0]

Idle == [busy |-> FALSE, oldest |-> 0, to |-> 0, start |-> 0, held |-> None, fetched |-> FALSE]

Larger(m, n) == IF m > n THEN m ELSE n

Smaller(m, n) == IF m < n THEN m ELSE n

-----------------------------------------------------------------------------
\* What Sync computes.

\* Fetcher.PhaseA over [from, to).
PhaseA(from, to) == Restrict(vendor, {d \in Days : from <= d /\ d < to /\ vendor[d] > 0})

\* A day is a key: a bucket fetched again replaces the one held.
Merge(held, fresh) ==
    [d \in DOMAIN held \cup DOMAIN fresh |-> IF d \in DOMAIN fresh THEN fresh[d] ELSE held[d]]

Trim(buckets, from, to) == Restrict(buckets, {d \in DOMAIN buckets : from <= d /\ d < to})

\* Mutant: the watermark is not resumed from.
ResumeFromScratch(mark, oldest) == oldest

\* The watermark less the overlap, or all of the window.
ResumeFrom(mark, oldest) == IF mark = 0 THEN oldest ELSE Larger(mark - Overlap, oldest)

ChunkEnd(s) == Smaller(s.start + Chunk, s.to)

-----------------------------------------------------------------------------
\* The environment.

NextDay ==
    /\ today < LastDay
    /\ today' = today + 1
    /\ UNCHANGED <<vendor, data, disk, sync, faults, crashes>>

\* An event reaches the vendor, up to Lateness days after it happened.
Arrive(d) ==
    /\ d <= today /\ today <= d + Lateness
    /\ vendor[d] < MaxCount
    /\ vendor' = [vendor EXCEPT ![d] = @ + 1]
    /\ UNCHANGED <<today, data, disk, sync, faults, crashes>>

-----------------------------------------------------------------------------
\* Sync.

BeginSync ==
    /\ ~sync.busy
    /\ LET to     == today + 1
           oldest == to - Window
           from   == ResumeFrom(data.mark, oldest)
       IN sync' = IF from < to
                  THEN [busy |-> TRUE, oldest |-> oldest, to |-> to, start |-> from,
                        held |-> data.buckets, fetched |-> FALSE]
                  ELSE Idle
    /\ UNCHANGED <<today, vendor, data, disk, faults, crashes>>

\* FileStore.Save: memory first; the file may not follow.
Save(buckets, mark) ==
    /\ data' = [buckets |-> buckets, mark |-> mark]
    /\ \/ disk' = data' /\ UNCHANGED faults
       \/ faults < MaxFaults /\ faults' = faults + 1 /\ UNCHANGED disk

\* Mutant: a failed chunk moves the watermark past itself.
FetchFailsSkips ==
    /\ sync.busy
    /\ Save(Trim(sync.held, sync.oldest, sync.to), ChunkEnd(sync))
    /\ sync' = Idle
    /\ UNCHANGED <<today, vendor, crashes>>

\* One chunk is fetched, merged and saved, and the watermark is where it ends;
\* a failed save ends the sync.
ReadChunk ==
    /\ sync.busy
    /\ LET end   == ChunkEnd(sync)
           fresh == PhaseA(sync.start, end)
           held  == Merge(sync.held, fresh)
       IN /\ Save(Trim(held, sync.oldest, sync.to), end)
          /\ sync' = IF end = sync.to \/ faults' # faults THEN Idle
                     ELSE [sync EXCEPT !.start = end, !.held = held,
                                       !.fetched = @ \/ fresh # None]
    /\ UNCHANGED <<today, vendor, crashes>>

\* The vendor does not answer.  What earlier chunks brought is saved again, with
\* the watermark where they reached.
FetchFails ==
    /\ sync.busy
    /\ IF sync.fetched
       THEN Save(Trim(sync.held, sync.oldest, sync.to), sync.start)
       ELSE UNCHANGED <<data, disk, faults>>
    /\ sync' = Idle
    /\ UNCHANGED <<today, vendor, crashes>>

\* The file is read back; one that cannot be parsed starts empty.
Restart ==
    /\ crashes < MaxCrashes
    /\ crashes' = crashes + 1
    /\ disk' \in {disk, Nothing}
    /\ data' = disk'
    /\ sync' = Idle
    /\ UNCHANGED <<today, vendor, faults>>

-----------------------------------------------------------------------------
Init ==
    /\ today = FirstDay
    /\ vendor = [d \in Days |-> IF d < FirstDay THEN MaxCount ELSE 0]
    /\ data = Nothing
    /\ disk = Nothing
    /\ sync = Idle
    /\ faults = 0
    /\ crashes = 0

Next ==
    \/ NextDay
    \/ \E d \in Days : Arrive(d)
    \/ BeginSync \/ ReadChunk \/ FetchFails
    \/ Restart

\* The loop never stops, and the vendor, asked again and again, answers again
\* and again, though it may refuse the second chunk of every sync.
Spec ==
    /\ Init /\ [][Next]_vars
    /\ WF_vars(BeginSync)
    /\ SF_vars(ReadChunk)
-----------------------------------------------------------------------------
\* Properties.

\* The variables hold values of their types; a sync works inside its window.
TypeOK ==
    /\ today \in FirstDay .. LastDay
    /\ vendor \in [Days -> 0 .. MaxCount]
    /\ \A s \in {data, disk} :
           /\ DOMAIN s.buckets \subseteq Days
           /\ s.mark \in 0 .. LastDay + 1
    /\ sync.busy => sync.oldest <= sync.start /\ sync.start < sync.to /\ sync.to <= today + 1
    /\ faults \in 0 .. MaxFaults /\ crashes \in 0 .. MaxCrashes

HeldOn(s, d) == IF d \in DOMAIN s.buckets THEN s.buckets[d] ELSE 0

\* In memory and in the file, a day is exact for good once the watermark is more
\* than the overlap past it, and a day held is never more than the vendor has:
\* no failed chunk, restart, late event or second read of a day leaves a hole
\* behind the watermark or inflates a count (sync.go:18, sync.go:21).
DaysExact ==
    \A s \in {data, disk}, d \in Days :
        /\ HeldOn(s, d) <= vendor[d]
        /\ today + 1 <= d + Window /\ d + Overlap < s.mark => HeldOn(s, d) = vendor[d]

\* A failed backfill resumes where it got to: whatever fails, the watermark
\* reaches the end of today (sync.go:158, "a backfill that starts over on every
\* failure never finishes").
CatchesUp == []<>(data.mark = today + 1)
=============================================================================

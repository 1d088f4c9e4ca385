------------------------------- MODULE HotLog -------------------------------
(***************************************************************************)
(* The durable append-only event log of internal/store/file/file.go: the   *)
(* default backend, and the hot tier of SegmentStore.                      *)
(*                                                                         *)
(* The file is a sequence of lines.  A line is a whole record, a record    *)
(* that lost its newline (bare), a torn record, or junk: two writes that   *)
(* ended up on one line, which no replay can parse.  Only the last line    *)
(* can be bare or torn.  stable is what a power cut cannot take away; a    *)
(* process crash leaves the file as written.                               *)
(*                                                                         *)
(* Store.mu is held through Ingest, Prune, DeleteUser and Clear: pc names  *)
(* the holder's next I/O call, and a crash can fall before any of them.    *)
(***************************************************************************)
EXTENDS Naturals, Logs

CONSTANTS
    Events,     \* event records [id, user, name, ts]; ids are distinct
    Batches,    \* the batches clients send: sequences of events
    Cutoffs,    \* retention cutoffs
    MaxEvents,  \* Store.maxEvents: 0, or how many of the newest events to keep
    Slack,      \* how far beyond MaxEvents the log may grow before a trim
    Faults,     \* which I/O calls may fail
    Crashes,    \* subset of {"process", "power"}
    MayClear,   \* does anyone call Clear?
    MaxWrites,  \* bound: appends to the log
    MaxCrashes  \* bound: crashes

ASSUME HotLogAssumption ==
    /\ \A e, f \in Events : e.id = f.id => e = f
    /\ Batches \subseteq Seq(Events)
    /\ {MaxEvents, Slack, MaxWrites, MaxCrashes} \cup Cutoffs \subseteq Nat
    /\ Faults \subseteq {"write", "sync", "truncate", "compact", "rename", "dirSync", "reopen"}
    /\ Crashes \subseteq {"process", "power"}
    /\ MayClear \in BOOLEAN

VARIABLES
    file,       \* the log as the operating system shows it
    stable,     \* the log a power cut is bound to leave
    up,         \* is the process running?
    evs,        \* Store.evs; Store.seen is always the set of their ids
    w,          \* Store.w: "open", "broken" (closed under us) or "nil"
    pc,         \* "free" or the mutex holder's next I/O call
    buf,        \* the events being appended, or those compaction keeps
    target,     \* the events the running Prune or DeleteUser is to remove
    \* bookkeeping
    acked,      \* events acknowledged and not removed since
    erased,     \* events a Prune or DeleteUser that returned nil answers for
    writes,     \* appends so far
    crashes,    \* crashes so far
    failed      \* has a call, or a write cut by a crash, failed?

vars == <<file, stable, up, evs, w, pc, buf, target, acked, erased, writes, crashes, failed>>

-----------------------------------------------------------------------------
\* Lines and replay.

Line(state, e) == [state |-> state, ev |-> e]

Whole(es) == [i \in 1 .. Len(es) |-> Line("whole", es[i])]

Ends(f, states) == f # <<>> /\ Last(f).state \in states

\* O_APPEND: records written behind an unterminated line join that line.
Appended(f, lines) ==
    IF lines # <<>> /\ Ends(f, {"bare", "torn"})
    THEN Front(f) \o <<Line("junk", Head(lines).ev)>> \o Tail(lines)
    ELSE f \o lines

\* What n whole records of es and a cut one look like on disk.
Cut(es, n, state) ==
    Whole(SubSeq(es, 1, n)) \o
        IF state = "none" \/ n = Len(es) THEN <<>> ELSE <<Line(state, es[n + 1])>>

Parses(line) == line.state \in {"whole", "bare"}

\* The records of the lines that parse.
Records(f) == FoldLeft(LAMBDA es, line : IF Parses(line) THEN Append(es, line.ev) ELSE es, <<>>, f)

\* enforceCapLocked and trimDuringReplay agree on when to trim and to what.
OverCap(n) == MaxEvents > 0 /\ n > MaxEvents + Slack

Newest(es) == SubSeq(es, Len(es) - MaxEvents + 1, Len(es))

\* Mutants: a replay that gives up at the first line it cannot parse; one that
\* keeps the oldest events.
ReplayStopsAtDamage(f) ==
    LET bad == {i \in DOMAIN f : ~Parses(f[i])}
        upTo == CHOOSE n \in 0 .. Len(f) : n + 1 \in bad \cup {Len(f) + 1} /\ \A i \in bad : n < i
    IN Records(SubSeq(f, 1, upTo))
ReplayKeepsOldest(f) ==
    LET es == Records(f)
    IN IF OverCap(Len(es)) THEN SubSeq(es, 1, MaxEvents) ELSE es

\* Open trims after every record it indexes.
Indexed(records) ==
    LET Index(es, e) == IF OverCap(Len(es) + 1) THEN Newest(Append(es, e)) ELSE Append(es, e)
    IN FoldLeft(Index, <<>>, records)

Replay(f) == Indexed(Records(f))

\* Mutant: no repair, the next record joins the torn line.
RepairedNot(f) == f

\* Open drops a torn tail and gives a bare one its newline back.
Repaired(f) ==
    CASE Ends(f, {"torn"}) -> Front(f)
      [] Ends(f, {"bare"}) -> Front(f) \o <<Line("whole", Last(f).ev)>>
      [] OTHER -> f

\* Mutant: the batch is compared with the index alone.
NotSeenInBatch(batch) == Without(batch, ToSet(evs))

\* Without the events already indexed and the repeats inside the batch.
NotSeen(batch) ==
    LET Add(es, e) == IF e \in ToSet(es) \cup ToSet(evs) THEN es ELSE Append(es, e)
    IN FoldLeft(Add, <<>>, batch)

\* Files a power cut can leave.  A rename happened or did not.  Otherwise the
\* change since the last sync is lost, or present up to some point.
AfterPowerCut ==
    LET same == Len(LongestCommonPrefix({stable, file}))
    IN IF pc \in {"swap", "swapCap"}
       THEN {stable, file}
       ELSE {stable, file}
            \cup {SubSeq(file, 1, n) : n \in same .. Len(file)}
            \cup {SubSeq(file, 1, n) \o <<Line(s, file[n + 1].ev)>> :
                     n \in same .. Len(file) - 1, s \in {"torn", "bare"}}

-----------------------------------------------------------------------------
\* Ingest.

Return == pc' = "free" /\ buf' = <<>> /\ target' = {}

\* A closed or broken handle makes the append fail: an error, and no change.
Ingest(batch) ==
    /\ up /\ pc = "free" /\ w # "nil"
    /\ IF NotSeen(batch) = <<>>
       THEN /\ acked' = acked \cup ToSet(batch)
            /\ UNCHANGED <<pc, buf>>
       ELSE /\ w = "open"
            /\ writes < MaxWrites
            /\ pc' = "write"
            /\ buf' = NotSeen(batch)
            /\ UNCHANGED acked
    /\ erased' = erased \ ToSet(batch)
    /\ UNCHANGED <<file, stable, up, evs, w, target, writes, crashes, failed>>

Write ==
    /\ pc = "write"
    /\ file' = Appended(file, Whole(buf))
    /\ writes' = writes + 1
    /\ pc' = "sync"
    /\ UNCHANGED <<stable, up, evs, w, buf, target, acked, erased, crashes, failed>>

\* Some of the records of buf, then perhaps a piece of one more.
ShortWrite ==
    \E n \in 0 .. Len(buf) - 1, s \in {"none", "torn", "bare"} :
        file' = Appended(file, Cut(buf, n, s))

\* A full disk.
WriteFails ==
    /\ pc = "write"
    /\ "write" \in Faults
    /\ ShortWrite
    /\ writes' = writes + 1
    /\ Return
    /\ failed' = TRUE
    /\ UNCHANGED <<stable, up, evs, w, acked, erased, crashes>>

\* Mutant: the batch is acknowledged without a sync.
SyncSkipped ==
    /\ pc = "sync"
    /\ evs' = evs \o buf
    /\ acked' = acked \cup ToSet(buf)
    /\ Return
    /\ UNCHANGED <<file, stable, up, w, erased, writes, crashes, failed>>

\* The events count as acknowledged from here on: when the compaction for the
\* cap fails the call returns its error, and they are in the log all the same.
Sync ==
    /\ pc = "sync"
    /\ stable' = file
    /\ evs' = evs \o buf
    /\ acked' = acked \cup ToSet(buf)
    /\ IF OverCap(Len(evs'))
       THEN pc' = "compactCap" /\ buf' = Newest(evs') /\ UNCHANGED target
       ELSE Return
    /\ UNCHANGED <<file, up, w, erased, writes, crashes, failed>>

\* The events are indexed already when Sync fails.
SyncFails ==
    /\ pc = "sync"
    /\ "sync" \in Faults
    /\ evs' = evs \o buf
    /\ Return
    /\ failed' = TRUE
    /\ UNCHANGED <<file, stable, up, w, acked, erased, writes, crashes>>

-----------------------------------------------------------------------------
\* Prune, DeleteUser and the cap: one compaction path.

\* With nothing to remove the call returns nil at once.
Discard(events) ==
    LET kept == Without(evs, events)
    IN /\ up /\ pc = "free" /\ w # "nil"
       /\ IF Len(kept) < Len(evs)
          THEN /\ pc' = "compact"
               /\ buf' = kept
               /\ target' = events
               /\ UNCHANGED erased
          ELSE /\ erased' = erased \cup events
               /\ UNCHANGED <<pc, buf, target>>
       /\ UNCHANGED <<file, stable, up, evs, w, acked, writes, crashes, failed>>

Prune(cutoff) == Discard({e \in Events : e.ts < cutoff})

DeleteUser(user) == Discard({e \in Events : e.user = user})

Compacting == pc \in {"compact", "compactCap"}

\* The temporary file cannot be written, or the old handle not closed.
CompactFails ==
    /\ Compacting
    /\ \/ w = "broken" /\ UNCHANGED w
       \/ "compact" \in Faults /\ w' \in {w, "broken"}
    /\ Return
    /\ failed' = TRUE
    /\ UNCHANGED <<file, stable, up, evs, acked, erased, writes, crashes>>

\* What a compaction takes out of the log on purpose.
Dropped == IF pc = "compact" THEN target ELSE ToSet(evs) \ ToSet(buf)

\* The temporary file is complete and synced; it replaces the log.
Rename ==
    /\ Compacting
    /\ w = "open"
    /\ file' = Whole(buf)
    /\ pc' = IF pc = "compact" THEN "swap" ELSE "swapCap"
    /\ acked' = acked \ Dropped
    /\ UNCHANGED <<stable, up, evs, w, buf, target, erased, writes, crashes, failed>>

\* The log is reopened as it was, if it can be.
RenameFails ==
    /\ Compacting
    /\ w = "open"
    /\ "rename" \in Faults
    /\ w' \in {"open", "nil"}
    /\ Return
    /\ failed' = TRUE
    /\ UNCHANGED <<file, stable, up, evs, acked, erased, writes, crashes>>

\* Mutant: the directory is not synced.
SwapUnsynced ==
    /\ pc \in {"swap", "swapCap"}
    /\ evs' = buf
    /\ erased' = erased \cup target
    /\ Return
    /\ UNCHANGED <<file, stable, up, w, acked, writes, crashes, failed>>

\* The directory is synced (a failure is ignored), the new log opened, and the
\* index swapped.
Swap ==
    /\ pc \in {"swap", "swapCap"}
    /\ stable' = file \/ ("dirSync" \in Faults /\ UNCHANGED stable)
    /\ evs' = buf
    /\ erased' = erased \cup target
    /\ Return
    /\ UNCHANGED <<file, up, w, acked, writes, crashes, failed>>

\* The new log is in place and cannot be opened: the index keeps what the log
\* no longer holds, and the handle is closed.
ReopenFails ==
    /\ pc \in {"swap", "swapCap"}
    /\ "reopen" \in Faults
    /\ stable' = file
    /\ w' = "broken"
    /\ Return
    /\ failed' = TRUE
    /\ UNCHANGED <<file, up, evs, acked, erased, writes, crashes>>

\* The index goes first; the truncation is not synced.
Clear ==
    /\ MayClear
    /\ up /\ pc = "free"
    /\ evs' = <<>>
    /\ \/ w = "open" /\ file' = <<>> /\ UNCHANGED failed
       \/ (w # "open" \/ "truncate" \in Faults) /\ failed' = TRUE /\ UNCHANGED file
    /\ acked' = {}
    /\ UNCHANGED <<stable, up, w, pc, buf, target, erased, writes, crashes>>

-----------------------------------------------------------------------------
\* Close, crashes and Open.

Stop == up /\ up' = FALSE /\ evs' = <<>> /\ w' = "nil" /\ Return

Close ==
    /\ pc = "free"
    /\ Stop
    /\ stable' = IF w = "open" THEN file ELSE stable
    /\ UNCHANGED <<file, acked, erased, writes, crashes, failed>>

\* The process dies; a write it was in may be cut.
Crash ==
    /\ "process" \in Crashes
    /\ crashes < MaxCrashes
    /\ crashes' = crashes + 1
    /\ \/ UNCHANGED <<file, failed>>
       \/ pc = "write" /\ ShortWrite /\ failed' = TRUE
    /\ Stop
    /\ UNCHANGED <<stable, acked, erased, writes>>

PowerCut ==
    /\ "power" \in Crashes
    /\ crashes < MaxCrashes
    /\ crashes' = crashes + 1
    /\ file' \in AfterPowerCut
    /\ stable' = file'
    /\ Stop
    /\ UNCHANGED <<acked, erased, writes, failed>>

\* What a replay under the cap need not serve.
BeyondCap(es) ==
    IF MaxEvents = 0 \/ Len(es) <= MaxEvents
    THEN {}
    ELSE ToSet(SubSeq(es, 1, Len(es) - MaxEvents))

\* Only the newline repair is synced.
Open ==
    /\ ~up
    /\ up' = TRUE
    /\ w' = "open"
    /\ evs' = Replay(file)
    /\ file' = Repaired(file)
    /\ stable' = IF Ends(file, {"bare"}) THEN file' ELSE stable
    /\ acked' = acked \ BeyondCap(Records(file))
    /\ UNCHANGED <<pc, buf, target, erased, writes, crashes, failed>>

-----------------------------------------------------------------------------
Init ==
    /\ file = <<>>
    /\ stable = <<>>
    /\ up = TRUE
    /\ evs = <<>>
    /\ w = "open"
    /\ pc = "free"
    /\ buf = <<>>
    /\ target = {}
    /\ acked = {}
    /\ erased = {}
    /\ writes = 0
    /\ crashes = 0
    /\ failed = FALSE

Next ==
    \/ \E batch \in Batches : Ingest(batch)
    \/ Write \/ WriteFails \/ Sync \/ SyncFails
    \/ \E cutoff \in Cutoffs : Prune(cutoff)
    \/ \E e \in Events : DeleteUser(e.user)
    \/ CompactFails \/ Rename \/ RenameFails \/ Swap \/ ReopenFails
    \/ Clear
    \/ Close \/ Crash \/ PowerCut \/ Open

Spec == Init /\ [][Next]_vars
-----------------------------------------------------------------------------
\* Properties.

\* The variables hold values of their types, and only the last line of the
\* log can be unterminated.
TypeOK ==
    /\ \A f \in {file, stable} : \A i \in DOMAIN f :
           /\ f[i].state \in {"whole", "bare", "torn", "junk"}
           /\ f[i].ev \in Events
           /\ f[i].state \in {"bare", "torn"} => i = Len(f)
    /\ up \in BOOLEAN
    /\ evs \in Seq(Events) /\ buf \in Seq(Events)
    /\ w \in {"open", "broken", "nil"}
    /\ pc \in {"free", "write", "sync", "compact", "compactCap", "swap", "swapCap"}
    /\ target \cup acked \cup erased \subseteq Events
    /\ writes \in 0 .. MaxWrites /\ crashes \in 0 .. MaxCrashes /\ failed \in BOOLEAN

\* An acknowledged event is on disk, period: no power cut can take it away
\* (docs/design/storage.md rule 1).
AckDurable == acked \subseteq ToSet(Records(stable))

\* The process holds the newest events of the log: under a cap no fewer than it
\* allows and no more than the slack on top, without one all of them.
HoldsNewest ==
    /\ IsSuffix(evs, Records(file))
    /\ ~OverCap(Len(evs))
    /\ Len(evs) < MaxEvents \/ MaxEvents = 0 => evs = Records(file)

\* As long as no call fails, an acknowledged event is served while the process
\* lives, and a restart on the log as it is serves it again; what is served are
\* the newest.
AckServed ==
    ~failed =>
        /\ up /\ pc = "free" => acked \subseteq ToSet(evs) /\ HoldsNewest
        /\ acked \subseteq ToSet(Records(file))

\* A damaged line costs the one record on it: what the process serves and a
\* restart would not is what was written onto the fragment of a short write, or
\* what the cap trims.
OnJunkLines == {file[i].ev : i \in {j \in DOMAIN file : file[j].state = "junk"}}

DamageIsLocal ==
    w = "open" /\ up /\ pc = "free" =>
        ToSet(evs) \subseteq OnJunkLines \cup
            ToSet(IF OverCap(Len(Records(file))) THEN Records(file) ELSE Replay(file))

\* Between calls a restart would serve exactly what the process serves, in the
\* same order; and no event is counted twice, now or after a restart, whatever
\* clients retry.
MemoryMatchesFile ==
    /\ up /\ pc = "free" => evs = Replay(file)
    /\ IsInjective(evs) /\ IsInjective(Replay(file))

\* What a Prune or DeleteUser that returned nil was to remove is in neither
\* the log nor what a power cut can bring back, unless it was sent again.
ErasedGone == erased \cap ToSet(Records(file) \o Records(stable)) = {}

\* The log implements the promise of the Store interface; while the process is
\* down it holds what the next Open will replay.
Promise ==
    INSTANCE EventStore WITH stored <- ToSet(IF up THEN evs ELSE Replay(file)),
                             leaving <- target

ImplementsEventStore == Promise!Spec
=============================================================================

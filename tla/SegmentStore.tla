---------------------------- MODULE SegmentStore ----------------------------
(***************************************************************************)
(* The scale tier of smolanalytics, internal/store/segment/segment.go: a   *)
(* durable hot log that seals into immutable segments on a blob backend,   *)
(* indexed by a manifest that is itself one blob.                          *)
(*                                                                         *)
(* Store.mu is the variable pc: "free", or the step its exclusive holder   *)
(* will take next.  A read lock is a guard pc = "free".  Every durable     *)
(* effect (a blob Put, the manifest Put, the Deletes, the hot log's own    *)
(* rewrite) is a step of its own, so a crash, a reader's unlocked blob     *)
(* read, or the unlocked second half of Prune and DeleteUser can fall      *)
(* between any two of them.  A crash ends the process and leaves the file  *)
(* of the hot log as written; HotLog has power cuts, appends that fail     *)
(* before they index anything, and logs that cannot be reopened.           *)
(*                                                                         *)
(* A segment is identified by the sequence number in its key.  The         *)
(* manifest is a function from slots to entries: a slot is the sequence    *)
(* number under which the segment was first sealed, which keeps the order  *)
(* of the code's slice when DeleteUser gives an entry a fresh key.         *)
(***************************************************************************)
EXTENDS Naturals, FiniteSets, Functions

CONSTANTS
    Events,     \* event records [id, user, name, ts]; ids are distinct
    SealAt,     \* events in the hot block that trigger a seal
    Readers,    \* goroutines inside Scan
    Windows,    \* the [from, to) pairs queries ask for
    Cutoffs,    \* retention cutoffs
    Ops,        \* which of the operations below the environment uses
    Faults,     \* which I/O calls may fail
    Resend,     \* may a client resend an event that has left the hot block?
    MaxSeq,     \* bound: sequence numbers handed out
    MaxCrashes  \* bound: crashes

OpNames == {"flush", "prune", "erase", "clear", "verify", "scrub", "offlineScrub"}
FaultNames == {"get", "put", "manifest", "delete", "lostReply", "sync", "truncate", "compact"}

ASSUME EventsAssumption ==
    /\ IsFiniteSet(Events)
    /\ \A e \in Events : e.ts \in Nat
    /\ \A e, f \in Events : e.id = f.id => e = f
ASSUME BoundsAssumption ==
    /\ SealAt \in Nat \ {0}
    /\ MaxSeq \in Nat
    /\ MaxCrashes \in Nat
    /\ Cutoffs \subseteq Nat
    /\ Windows \subseteq Nat \X Nat
    /\ Resend \in BOOLEAN
    /\ Ops \subseteq OpNames
    /\ Faults \subseteq FaultNames

VARIABLES
    \* durable: survives a crash
    blobs,      \* sequence number -> set of events: the objects under seg/
    disk,       \* the manifest object
    wal,        \* the file of the hot log: the events a replay would load
    \* the process
    hot,        \* the hot log's memory; when no process runs, what one would load
    up,         \* is the server running?
    manifest,   \* Store.manifest
    names,      \* Store.names
    seq,        \* Store.seq
    garbage,    \* Store.garbage
    \* locals of whoever holds Store.mu
    pc,         \* "free" or the holder's next step
    next,       \* the manifest it is about to persist
    todo,       \* slots DeleteUser has still to look at
    drop,       \* keys to retire once the manifest is persisted
    \* the goroutines
    pruner,     \* pruneLoop inside Prune
    eraser,     \* a request inside DeleteUser
    reader,     \* Readers -> the state of their Scan
    checker,    \* Verify and Scrub
    \* bookkeeping
    sent,       \* events some client has sent
    refused,    \* events held since an Ingest that returned an error
    gone,       \* events a DeleteUser that returned nil has answered for
    crashes     \* crashes so far

log     == <<hot, wal>>
durable == <<blobs, disk, log>>
memory  == <<manifest, names, seq, garbage>>
locals  == <<pc, next, todo, drop>>
actors  == <<pruner, eraser, reader, checker>>
notes   == <<sent, gone, crashes>>
ghosts  == <<refused, notes>>
vars    == <<durable, up, memory, locals, actors, ghosts>>

-----------------------------------------------------------------------------
\* Entries, contents and names.

Keys == 0 .. MaxSeq

Write(f, k, v) == [x \in DOMAIN f \cup {k} |-> IF x = k THEN v ELSE f[x]]

Without(f, S) == Restrict(f, DOMAIN f \ S)

Empty == [k \in {} |-> {}]

Times(evs) == {e.ts : e \in evs}

NamesOf(evs) == {e.name : e \in evs}

Of(user) == {e \in Events : e.user = user}

Users == {e.user : e \in Events}

IsMin(t, T) == t \in T /\ \A u \in T : t <= u
IsMax(t, T) == t \in T /\ \A u \in T : u <= t

\* encodeSegment's index entry for the events it was given.
MetaOf(k, evs) ==
    [key   |-> k,
     count |-> Cardinality(evs),
     min   |-> CHOOSE t \in Times(evs) : IsMin(t, Times(evs)),
     max   |-> CHOOSE t \in Times(evs) : IsMax(t, Times(evs)),
     names |-> NamesOf(evs)]

KeysOf(m) == {m[i].key : i \in DOMAIN m}

Content(k) == IF k \in DOMAIN blobs THEN blobs[k] ELSE {}

Cold(m) == UNION {Content(k) : k \in KeysOf(m)}

\* Everything a query would be answered from; after a crash, everything the
\* next Open would find.
Held == Cold(IF up THEN manifest ELSE disk) \cup hot

ManifestNames(m) == UNION {m[i].names : i \in DOMAIN m}
-----------------------------------------------------------------------------
\* Decisions the handlers share.

\* Mutant: Verify is not counted among the scans.
ScanningQueries == \E r \in Readers : reader[r].stage \in {"begun", "reading"}

\* scans.Load() > 0: someone is between registering and its last blob read.
Scanning ==
    \/ \E r \in Readers : reader[r].stage \in {"begun", "reading"}
    \/ checker.stage \in {"begun", "checking"}

\* The key Open resumes from: one past the highest key the manifest names.
IsNextSeq(n, m) ==
    /\ \A i \in DOMAIN m : m[i].key < n
    /\ n = 0 \/ \E i \in DOMAIN m : m[i].key + 1 = n

\* The hot log is exactly the last sealed segment: a seal that persisted its
\* manifest and did not get to clear the log.
IsCrashWindow(m) ==
    \E i \in DOMAIN m :
        /\ IsMax(i, DOMAIN m)
        /\ m[i].count = Cardinality(hot)
        /\ m[i].key \in DOMAIN blobs
        /\ hot \subseteq blobs[m[i].key]

\* What recovery leaves of the hot log; it gives up when it cannot read the
\* segment.
Recovered(m) == {IF IsCrashWindow(m) THEN {} ELSE hot} \cup IF "get" \in Faults THEN {hot} ELSE {}

\* Mutant: a segment goes as soon as one of its events is old.
ExpiredByOldest(meta, cutoff) == meta.min < cutoff

\* A whole segment is past the retention cutoff.
Expired(meta, cutoff) == meta.max < cutoff

\* Mutant: a window that starts on a segment's last event skips it.
OverlapsExclusive(meta, w) == meta.max > w[1] /\ meta.min < w[2]

\* A segment that may hold events of [w[1], w[2]).
Overlaps(meta, w) == meta.max >= w[1] /\ meta.min < w[2]

InWindow(evs, w) == {e \in evs : w[1] <= e.ts /\ e.ts < w[2]}

\* Keys whose Delete failed stay behind.
DeleteBlobs(retired) ==
    \E kept \in SUBSET (retired \cap DOMAIN blobs) :
        /\ kept = {} \/ "delete" \in Faults
        /\ blobs' = Without(blobs, retired \ kept)

\* dropBlobsLocked: retired keys are deleted at once, or queued for a later
\* mutation while a scan is registered.
DropBlobs(retired) ==
    \/ /\ Scanning
       /\ garbage' = garbage \cup retired
       /\ UNCHANGED blobs
    \/ /\ ~Scanning
       /\ DeleteBlobs(garbage \cup retired)
       /\ garbage' = {}

\* persistManifestLocked: m is on disk, or it failed and disk is what it was,
\* or it was stored and only the reply was lost.
Persisted(m) == disk' = m

PersistFailed(m) ==
    /\ "manifest" \in Faults
    /\ \/ disk' = disk
       \/ "lostReply" \in Faults /\ disk' = m

\* The hot log's Clear empties its memory first; truncating the file may fail.
LogCleared ==
    /\ hot' = {}
    /\ \/ wal' = {}
       \/ "truncate" \in Faults /\ UNCHANGED wal

\* Its compaction, which rewrites the file when there is something to remove:
\* both change, or neither.
LogKeeps(kept) ==
    /\ hot' = kept
    /\ wal' = IF kept = hot THEN wal ELSE kept

CompactFails(kept) ==
    /\ "compact" \in Faults
    /\ kept # hot
    /\ UNCHANGED log

Unlock ==
    /\ pc' = "free"
    /\ next' = Empty
    /\ todo' = {}
    /\ drop' = {}

Lock(step) == up /\ pc = "free" /\ pc' = step

-----------------------------------------------------------------------------
\* Ingest and seal.

\* What a client may send now.
MaySend(batch) == Resend \/ batch \cap sent \subseteq hot

\* The hot log has written the batch and indexed it: the events are served.
Indexed(batch) ==
    /\ up
    /\ pc = "free"
    /\ MaySend(batch)
    /\ hot' = hot \cup batch
    /\ wal' = wal \cup batch
    /\ sent' = sent \cup batch
    /\ gone' = [cold |-> gone.cold \ batch, hot |-> gone.hot \ batch]
    /\ eraser' = [stage |-> eraser.stage, user |-> eraser.user,
                  cold |-> eraser.cold \ batch, hot |-> eraser.hot \ batch]
    /\ UNCHANGED <<blobs, disk, up, manifest, seq, garbage, next, todo, drop,
                   pruner, reader, checker, crashes>>

Ingest(batch) ==
    /\ batch # {}
    /\ Indexed(batch)
    /\ names' = names \cup NamesOf(batch)
    /\ refused' = refused \ batch
    /\ IF Cardinality(hot') >= SealAt THEN seq < MaxSeq /\ pc' = "sealPut" ELSE pc' = pc

\* It fails at Sync, after that: no name is noted, no seal considered.
IngestUnsynced(batch) ==
    /\ "sync" \in Faults
    /\ ~(batch \subseteq hot)
    /\ Indexed(batch)
    /\ refused' = refused \cup (batch \ hot)
    /\ UNCHANGED <<names, pc>>

\* Flush and the first step of Close.
Flush ==
    /\ "flush" \in Ops
    /\ Lock("sealPut")
    /\ seq < MaxSeq
    /\ UNCHANGED <<durable, up, memory, next, todo, drop, actors, ghosts>>

SealNothing ==
    /\ pc = "sealPut"
    /\ hot = {}
    /\ Unlock
    /\ UNCHANGED <<durable, up, memory, actors, ghosts>>

SealPut ==
    /\ pc = "sealPut"
    /\ hot # {}
    /\ blobs' = Write(blobs, seq, hot)
    /\ next' = Write(manifest, seq, MetaOf(seq, hot))
    /\ pc' = "sealPersist"
    /\ UNCHANGED <<disk, log, up, memory, todo, drop, actors, ghosts>>

SealPutFails ==
    /\ pc = "sealPut"
    /\ hot # {}
    /\ "put" \in Faults
    /\ \/ UNCHANGED blobs
       \/ "lostReply" \in Faults /\ blobs' = Write(blobs, seq, hot)
    /\ Unlock
    /\ UNCHANGED <<disk, log, up, memory, actors, ghosts>>

\* Mutants: the key is not advanced; it is advanced twice.
SealPersistSameSeq ==
    /\ pc = "sealPersist"
    /\ Persisted(next)
    /\ manifest' = next
    /\ pc' = "sealClear"
    /\ UNCHANGED <<blobs, log, up, names, seq, garbage, next, todo, drop, actors, ghosts>>
SealPersistTwice ==
    /\ pc = "sealPersist"
    /\ Persisted(next)
    /\ manifest' = next
    /\ seq' = seq + 2
    /\ pc' = "sealClear"
    /\ UNCHANGED <<blobs, log, up, names, garbage, next, todo, drop, actors, ghosts>>

SealPersist ==
    /\ pc = "sealPersist"
    /\ Persisted(next)
    /\ manifest' = next
    /\ seq' = seq + 1
    /\ pc' = "sealClear"
    /\ UNCHANGED <<blobs, log, up, names, garbage, next, todo, drop, actors, ghosts>>

SealPersistFails ==
    /\ pc = "sealPersist"
    /\ PersistFailed(next)
    /\ Unlock
    /\ UNCHANGED <<blobs, log, up, memory, actors, ghosts>>

\* Mutant: the hot log is not cleared.
SealClearNothing ==
    /\ pc = "sealClear"
    /\ Unlock
    /\ UNCHANGED <<durable, up, memory, actors, ghosts>>

\* An error of Clear is the call's: nothing is left to do.
SealClear ==
    /\ pc = "sealClear"
    /\ LogCleared
    /\ Unlock
    /\ UNCHANGED <<blobs, disk, up, memory, actors, ghosts>>

-----------------------------------------------------------------------------
\* Prune: whole cold segments under the lock, then the hot log without it.

PruneIdle == [stage |-> "idle", cutoff |-> 0, cut |-> FALSE]

PruneLocked(cutoff) ==
    /\ "prune" \in Ops
    /\ pruner = PruneIdle
    /\ up /\ pc = "free"
    /\ LET dead == {i \in DOMAIN manifest : Expired(manifest[i], cutoff)}
       IN IF dead = {}
          THEN /\ pruner' = [stage |-> "hot", cutoff |-> cutoff, cut |-> FALSE]
               /\ UNCHANGED locals
          ELSE /\ pruner' = [stage |-> "locked", cutoff |-> cutoff, cut |-> TRUE]
               /\ pc' = "prunePersist"
               /\ next' = Without(manifest, dead)
               /\ drop' = {manifest[i].key : i \in dead}
               /\ UNCHANGED todo
    /\ UNCHANGED <<durable, up, memory, eraser, reader, checker, ghosts>>

PrunePersist ==
    /\ pc = "prunePersist"
    /\ Persisted(next)
    /\ manifest' = next
    /\ pc' = "pruneDrop"
    /\ UNCHANGED <<blobs, log, up, names, seq, garbage, next, todo, drop, actors, ghosts>>

\* Mutant: the error is ignored and the blobs are dropped.
PrunePersistFailsIgnored ==
    /\ pc = "prunePersist"
    /\ PersistFailed(next)
    /\ manifest' = next
    /\ pc' = "pruneDrop"
    /\ UNCHANGED <<blobs, log, up, names, seq, garbage, next, todo, drop, actors, ghosts>>

PrunePersistFails ==
    /\ pc = "prunePersist"
    /\ PersistFailed(next)
    /\ pruner' = PruneIdle
    /\ Unlock
    /\ UNCHANGED <<blobs, log, up, memory, eraser, reader, checker, ghosts>>

PruneDrop ==
    /\ pc = "pruneDrop"
    /\ DropBlobs(drop)
    /\ pruner' = [pruner EXCEPT !.stage = "hot"]
    /\ Unlock
    /\ UNCHANGED <<disk, log, up, manifest, names, seq, eraser, reader, checker, ghosts>>

Recent(cutoff) == {e \in hot : e.ts >= cutoff}

\* The hot log's own Prune; it does not take Store.mu.
PruneHot ==
    /\ pruner.stage = "hot"
    /\ LogKeeps(Recent(pruner.cutoff))
    /\ pruner' = IF pruner.cut \/ hot' # hot
                 THEN [pruner EXCEPT !.stage = "rebuild"]
                 ELSE PruneIdle
    /\ UNCHANGED <<blobs, disk, up, memory, locals, eraser, reader, checker, ghosts>>

\* The names are not rebuilt, though the cold half may be gone.
PruneHotFails ==
    /\ pruner.stage = "hot"
    /\ CompactFails(Recent(pruner.cutoff))
    /\ pruner' = PruneIdle
    /\ UNCHANGED <<blobs, disk, up, memory, locals, eraser, reader, checker, ghosts>>

RebuiltNames(m) == ManifestNames(m) \cup NamesOf(hot)

PruneRebuild ==
    /\ pruner.stage = "rebuild"
    /\ pc = "free"
    /\ names' = RebuiltNames(manifest)
    /\ refused' = {}
    /\ pruner' = PruneIdle
    /\ UNCHANGED <<durable, up, manifest, seq, garbage, locals, eraser, reader, checker, notes>>

-----------------------------------------------------------------------------
\* DeleteUser: rewrite the affected segments under the lock, one Put each,
\* persist once, then erase from the hot log without the lock.  The code
\* edits Store.manifest in place and restores it on failure; nobody can read
\* it meanwhile, so the edit is made in next.

EraseIdle == [stage |-> "idle", user |-> "", cold |-> {}, hot |-> {}]

EraseLocked(user) ==
    /\ "erase" \in Ops
    /\ eraser = EraseIdle
    /\ Lock("eraseSegment")
    /\ seq + Cardinality(DOMAIN manifest) <= MaxSeq
    /\ next' = manifest
    /\ todo' = DOMAIN manifest
    /\ eraser' = [stage |-> "locked", user |-> user,
                  cold |-> Cold(manifest) \cap Of(user), hot |-> hot \cap Of(user)]
    /\ UNCHANGED <<durable, up, memory, drop, pruner, reader, checker, ghosts>>

\* What a rewrite keeps of a segment, and its new entry.
Kept(k, user) == blobs[k] \ Of(user)

\* Mutant: the old entry under the new key.
RewrittenStale(i, kept) == [manifest[i] EXCEPT !.key = seq]

Rewritten(i, kept) == MetaOf(seq, kept)

\* The next segment in manifest order holds some of the user's events, or not.
EraseSegment(i) ==
    /\ pc = "eraseSegment"
    /\ i \in todo
    /\ \A j \in todo : i <= j
    /\ manifest[i].key \in DOMAIN blobs
    /\ LET k    == manifest[i].key
           kept == Kept(k, eraser.user)
       IN \/ /\ kept = blobs[k]
             /\ UNCHANGED <<blobs, seq, next, drop>>
          \/ /\ kept = {}
             /\ next' = Without(next, {i})
             /\ drop' = drop \cup {k}
             /\ UNCHANGED <<blobs, seq>>
          \/ /\ kept \notin {{}, blobs[k]}
             /\ blobs' = Write(blobs, seq, kept)
             /\ next' = Write(next, i, Rewritten(i, kept))
             /\ drop' = drop \cup {k}
             /\ seq' = seq + 1
    /\ todo' = todo \ {i}
    /\ UNCHANGED <<disk, log, up, manifest, names, garbage, pc, actors, ghosts>>

\* A Get that finds nothing, or a Put that fails, ends the call with an error.
EraseSegmentFails(i) ==
    /\ pc = "eraseSegment"
    /\ i \in todo
    /\ \A j \in todo : i <= j
    /\ \/ /\ manifest[i].key \notin DOMAIN blobs \/ "get" \in Faults
          /\ UNCHANGED blobs
       \/ /\ manifest[i].key \in DOMAIN blobs
          /\ "put" \in Faults
          /\ LET kept == Kept(manifest[i].key, eraser.user)
             IN /\ kept \notin {{}, blobs[manifest[i].key]}
                /\ \/ UNCHANGED blobs
                   \/ "lostReply" \in Faults /\ blobs' = Write(blobs, seq, kept)
    /\ eraser' = EraseIdle
    /\ Unlock
    /\ UNCHANGED <<disk, log, up, memory, pruner, reader, checker, ghosts>>

ErasePersist ==
    /\ pc = "eraseSegment"
    /\ todo = {}
    /\ drop # {}
    /\ Persisted(next)
    /\ manifest' = next
    /\ pc' = "eraseDrop"
    /\ UNCHANGED <<blobs, log, up, names, seq, garbage, next, todo, drop, actors, ghosts>>

\* Mutant: the error is ignored and the call goes on to succeed.
ErasePersistFailsIgnored ==
    /\ pc = "eraseSegment"
    /\ todo = {}
    /\ drop # {}
    /\ PersistFailed(next)
    /\ eraser' = [eraser EXCEPT !.stage = "hot"]
    /\ Unlock
    /\ UNCHANGED <<blobs, log, up, memory, pruner, reader, checker, ghosts>>

ErasePersistFails ==
    /\ pc = "eraseSegment"
    /\ todo = {}
    /\ drop # {}
    /\ PersistFailed(next)
    /\ eraser' = EraseIdle
    /\ Unlock
    /\ UNCHANGED <<blobs, log, up, memory, pruner, reader, checker, ghosts>>

EraseDrop ==
    /\ pc = "eraseDrop"
    /\ DropBlobs(drop)
    /\ names' = RebuiltNames(manifest)
    /\ refused' = {}
    /\ eraser' = [eraser EXCEPT !.stage = "hot"]
    /\ Unlock
    /\ UNCHANGED <<disk, log, up, manifest, seq, pruner, reader, checker, notes>>

EraseNoSegment ==
    /\ pc = "eraseSegment"
    /\ todo = {}
    /\ drop = {}
    /\ eraser' = [eraser EXCEPT !.stage = "hot"]
    /\ Unlock
    /\ UNCHANGED <<durable, up, memory, pruner, reader, checker, ghosts>>

\* The hot log's own DeleteUser; the call then returns nil.
EraseHot ==
    /\ eraser.stage = "hot"
    /\ LogKeeps(hot \ Of(eraser.user))
    /\ gone' = [cold |-> gone.cold \cup eraser.cold, hot |-> gone.hot \cup eraser.hot]
    /\ eraser' = EraseIdle
    /\ UNCHANGED <<blobs, disk, up, memory, locals, pruner, reader, checker,
                   refused, sent, crashes>>

EraseHotFails ==
    /\ eraser.stage = "hot"
    /\ CompactFails(hot \ Of(eraser.user))
    /\ eraser' = EraseIdle
    /\ UNCHANGED <<blobs, disk, up, memory, locals, pruner, reader, checker, ghosts>>

-----------------------------------------------------------------------------
\* Clear retires every blob first and persists the empty manifest after.

ClearDrop ==
    /\ "clear" \in Ops
    /\ Lock("clearPersist")
    /\ DropBlobs(KeysOf(manifest))
    /\ manifest' = Empty
    /\ names' = {}
    /\ UNCHANGED <<disk, log, up, seq, next, todo, drop, actors, ghosts>>

ClearPersist ==
    /\ pc = "clearPersist"
    /\ Persisted(Empty)
    /\ pc' = "clearHot"
    /\ UNCHANGED <<blobs, log, up, memory, next, todo, drop, actors, ghosts>>

ClearPersistFails ==
    /\ pc = "clearPersist"
    /\ PersistFailed(Empty)
    /\ Unlock
    /\ UNCHANGED <<blobs, log, up, memory, actors, ghosts>>

ClearHot ==
    /\ pc = "clearHot"
    /\ LogCleared
    /\ Unlock
    /\ UNCHANGED <<blobs, disk, up, memory, actors, ghosts>>
-----------------------------------------------------------------------------
\* Scan: register, snapshot the manifest and the hot block as one
\* observation, then read the overlapping blobs without the lock.

ScanIdle == [stage |-> "idle", todo |-> {}, got |-> {}, want |-> {}, window |-> <<0, 0>>]

ScanBegin(r, w) ==
    /\ up
    /\ reader[r].stage \in {"idle", "done", "missing"}
    /\ reader' = [reader EXCEPT ![r] =
           [stage |-> "begun", todo |-> {}, got |-> {}, want |-> {}, window |-> w]]
    /\ UNCHANGED <<durable, up, memory, locals, pruner, eraser, checker, ghosts>>

\* The segments a query has to open.
ToRead(m, w) == {m[i].key : i \in {j \in DOMAIN m : Overlaps(m[j], w)}}

HotPart(w) == InWindow(hot, w)

\* want is what the query should answer: bookkeeping, read by nothing else.
ScanSnapshot(r) ==
    /\ reader[r].stage = "begun"
    /\ pc = "free"
    /\ LET w == reader[r].window
       IN reader' = [reader EXCEPT ![r] =
              [stage |-> "reading", todo |-> ToRead(manifest, w), got |-> HotPart(w),
               want |-> InWindow(Held, w), window |-> w]]
    /\ UNCHANGED <<durable, up, memory, locals, pruner, eraser, checker, ghosts>>

ScanRead(r, k) ==
    /\ reader[r].stage = "reading"
    /\ k \in reader[r].todo
    /\ LET scan == reader[r]
           read == k \in DOMAIN blobs
       IN reader' = [reader EXCEPT ![r] =
              [stage |-> IF read THEN "reading" ELSE "missing", todo |-> scan.todo \ {k},
               got |-> scan.got \cup InWindow(Content(k), scan.window),
               want |-> scan.want, window |-> scan.window]]
    /\ UNCHANGED <<durable, up, memory, locals, pruner, eraser, checker, ghosts>>

\* Any other error of the backend ends the query with that error.
ScanReadFails(r) ==
    /\ reader[r].stage = "reading"
    /\ reader[r].todo # {}
    /\ "get" \in Faults
    /\ reader' = [reader EXCEPT ![r] = ScanIdle]
    /\ UNCHANGED <<durable, up, memory, locals, pruner, eraser, checker, ghosts>>

ScanEnd(r) ==
    /\ reader[r].stage = "reading"
    /\ reader[r].todo = {}
    /\ reader' = [reader EXCEPT ![r].stage = "done"]
    /\ UNCHANGED <<durable, up, memory, locals, pruner, eraser, checker, ghosts>>

-----------------------------------------------------------------------------
\* Verify and Scrub.

CheckIdle == [stage |-> "idle", entries |-> {}, refs |-> {}, orphans |-> {}, problem |-> FALSE]

VerifyBegin ==
    /\ Ops \cap {"verify", "scrub"} # {}
    /\ up
    /\ checker.stage \in {"idle", "checked"}
    /\ checker' = [stage |-> "begun", entries |-> {}, refs |-> {}, orphans |-> {},
                   problem |-> FALSE]
    /\ UNCHANGED <<durable, up, memory, locals, pruner, eraser, reader, ghosts>>

VerifySnapshot ==
    /\ checker.stage = "begun"
    /\ pc = "free"
    /\ checker' = [stage |-> "checking", entries |-> {manifest[i] : i \in DOMAIN manifest},
                   refs |-> KeysOf(manifest), orphans |-> {}, problem |-> FALSE]
    /\ UNCHANGED <<durable, up, memory, locals, pruner, eraser, reader, ghosts>>

\* What Verify asks of one entry: readable, and as the manifest describes it.
Healthy(meta) ==
    /\ meta.key \in DOMAIN blobs
    /\ Cardinality(blobs[meta.key]) = meta.count
    /\ \A e \in blobs[meta.key] : meta.min <= e.ts /\ e.ts <= meta.max

VerifyRead(meta) ==
    /\ checker.stage = "checking"
    /\ meta \in checker.entries
    /\ \E failed \in {FALSE, "get" \in Faults} :
           checker' = [stage |-> "checking", entries |-> checker.entries \ {meta},
                       refs |-> checker.refs, orphans |-> {},
                       problem |-> checker.problem \/ failed \/ ~Healthy(meta)]
    /\ UNCHANGED <<durable, up, memory, locals, pruner, eraser, reader, ghosts>>

\* Mutant: everything listed is an orphan.
VerifyListAll ==
    /\ checker.stage = "checking"
    /\ checker.entries = {}
    /\ checker' = [stage |-> "checked", entries |-> {}, refs |-> checker.refs,
                   orphans |-> DOMAIN blobs, problem |-> checker.problem]
    /\ UNCHANGED <<durable, up, memory, locals, pruner, eraser, reader, ghosts>>

VerifyList ==
    /\ checker.stage = "checking"
    /\ checker.entries = {}
    /\ checker' = [stage |-> "checked", entries |-> {}, refs |-> checker.refs,
                   orphans |-> DOMAIN blobs \ checker.refs, problem |-> checker.problem]
    /\ UNCHANGED <<durable, up, memory, locals, pruner, eraser, reader, ghosts>>

\* Scrub goes on where Verify returned.
ScrubSweep ==
    /\ "scrub" \in Ops
    /\ up
    /\ pc = "free"
    /\ checker.stage = "checked"
    /\ DropBlobs(checker.orphans)
    /\ checker' = CheckIdle
    /\ UNCHANGED <<disk, log, up, manifest, names, seq, locals, pruner, eraser, reader, ghosts>>

-----------------------------------------------------------------------------
\* Crashes, Open, and the scrub command on a stopped instance.

Crash ==
    /\ up
    /\ crashes < MaxCrashes
    /\ crashes' = crashes + 1
    /\ up' = FALSE
    /\ hot' = wal
    /\ manifest' = Empty
    /\ names' = {}
    /\ seq' = 0
    /\ garbage' = {}
    /\ Unlock
    /\ pruner' = PruneIdle
    /\ eraser' = EraseIdle
    /\ reader' = [r \in Readers |-> ScanIdle]
    /\ checker' = CheckIdle
    /\ refused' = {}
    /\ UNCHANGED <<blobs, disk, wal, sent, gone>>

Open ==
    /\ ~up
    /\ up' = TRUE
    /\ manifest' = disk
    /\ names' = RebuiltNames(disk)
    /\ seq' \in {n \in Keys : IsNextSeq(n, disk)}
    /\ hot' \in Recovered(disk)
    /\ wal' = hot'
    /\ UNCHANGED <<blobs, disk, garbage, locals, actors, ghosts>>

OfflineScrub ==
    /\ "offlineScrub" \in Ops
    /\ ~up
    /\ hot' \in Recovered(disk)
    /\ wal' = hot'
    /\ DeleteBlobs(DOMAIN blobs \ KeysOf(disk))
    /\ UNCHANGED <<disk, up, memory, locals, actors, ghosts>>

-----------------------------------------------------------------------------
Init ==
    /\ blobs = Empty
    /\ disk = Empty
    /\ wal = {}
    /\ hot = {}
    /\ up = TRUE
    /\ manifest = Empty
    /\ names = {}
    /\ seq = 0
    /\ garbage = {}
    /\ pc = "free"
    /\ next = Empty
    /\ todo = {}
    /\ drop = {}
    /\ pruner = PruneIdle
    /\ eraser = EraseIdle
    /\ reader = [r \in Readers |-> ScanIdle]
    /\ checker = CheckIdle
    /\ sent = {}
    /\ refused = {}
    /\ gone = [cold |-> {}, hot |-> {}]
    /\ crashes = 0

Append(batch) == Ingest(batch) \/ IngestUnsynced(batch)

Seal == SealNothing \/ SealPut \/ SealPutFails \/ SealPersist \/ SealPersistFails \/ SealClear

Prune ==
    \/ \E cutoff \in Cutoffs : PruneLocked(cutoff)
    \/ PrunePersist \/ PrunePersistFails \/ PruneDrop \/ PruneHot \/ PruneHotFails \/ PruneRebuild

DeleteUser ==
    \/ \E user \in Users : EraseLocked(user)
    \/ \E i \in todo : EraseSegment(i) \/ EraseSegmentFails(i)
    \/ ErasePersist \/ ErasePersistFails \/ EraseDrop \/ EraseNoSegment
    \/ EraseHot \/ EraseHotFails

Clear == ClearDrop \/ ClearPersist \/ ClearPersistFails \/ ClearHot

Scan(r) ==
    \/ \E w \in Windows : ScanBegin(r, w)
    \/ ScanSnapshot(r)
    \/ \E k \in reader[r].todo : ScanRead(r, k)
    \/ ScanReadFails(r)
    \/ ScanEnd(r)

Verify ==
    \/ VerifyBegin \/ VerifySnapshot \/ VerifyList
    \/ \E meta \in checker.entries : VerifyRead(meta)

Next ==
    \/ \E batch \in SUBSET Events : Append(batch)
    \/ Flush
    \/ Seal
    \/ Prune
    \/ DeleteUser
    \/ Clear
    \/ \E r \in Readers : Scan(r)
    \/ Verify
    \/ ScrubSweep
    \/ Crash
    \/ Open
    \/ OfflineScrub

Spec == Init /\ [][Next]_vars
-----------------------------------------------------------------------------
\* Properties.

\* The variables hold values of their types: keys that were handed out,
\* manifests that map slots to entries, a mutex that is free or at a step of
\* one of the handlers.
Steps == {"free", "sealPut", "sealPersist", "sealClear", "prunePersist", "pruneDrop",
          "eraseSegment", "eraseDrop", "clearPersist", "clearHot"}

Entries == [key : Keys, count : Nat, min : Nat, max : Nat, names : SUBSET NamesOf(Events)]

IsManifest(m) == DOMAIN m \subseteq Keys /\ \A i \in DOMAIN m : m[i] \in Entries

TypeDurable ==
    /\ DOMAIN blobs \subseteq Keys
    /\ \A k \in DOMAIN blobs : blobs[k] \subseteq Events
    /\ IsManifest(disk)
    /\ hot \subseteq Events
    /\ wal \subseteq Events

TypeProcess ==
    /\ up \in BOOLEAN
    /\ IsManifest(manifest)
    /\ names \subseteq NamesOf(Events)
    /\ seq \in Keys
    /\ garbage \subseteq Keys

TypeLocals ==
    /\ pc \in Steps
    /\ IsManifest(next)
    /\ todo \subseteq Keys
    /\ drop \subseteq Keys

TypeActors ==
    /\ pruner \in [stage : {"idle", "locked", "hot", "rebuild"}, cutoff : Nat, cut : BOOLEAN]
    /\ eraser \in [stage : {"idle", "locked", "hot"}, user : Users \cup {""},
                   cold : SUBSET Events, hot : SUBSET Events]
    /\ reader \in [Readers -> [stage : {"idle", "begun", "reading", "done", "missing"},
                               todo : SUBSET Keys, got : SUBSET Events,
                               want : SUBSET Events, window : Nat \X Nat]]
    /\ checker \in [stage : {"idle", "begun", "checking", "checked"}, entries : SUBSET Entries,
                    refs : SUBSET Keys, orphans : SUBSET Keys, problem : BOOLEAN]

TypeGhosts ==
    /\ sent \subseteq Events
    /\ refused \subseteq Events
    /\ gone \in [cold : SUBSET Events, hot : SUBSET Events]
    /\ crashes \in 0 .. MaxCrashes

TypeOK == TypeDurable /\ TypeProcess /\ TypeLocals /\ TypeActors /\ TypeGhosts

\* Neither the manifest on disk nor the one in memory ever names a segment
\* that is not on the blob backend, whatever step fails or is cut off
\* (docs/design/storage.md rule 4).
Resolves(m) == KeysOf(m) \subseteq DOMAIN blobs

NoDanglingRef == Resolves(disk) /\ Resolves(manifest)

\* A manifest entry describes the segment it names: its count, its time range
\* and its event names are those of the events inside (what Verify checks);
\* and the cached event names cover everything the store holds, whatever call
\* rebuilds or drops them, but for what an ingest that failed after indexing left
\* behind since they were last rebuilt (segment.go:145).
Describes(m) ==
    \A i \in DOMAIN m : m[i].key \in DOMAIN blobs => m[i] = MetaOf(m[i].key, blobs[m[i].key])

NamesCover == up /\ pc = "free" => NamesOf(Held \ refused) \subseteq names

SegmentsIntact == Describes(disk) /\ Describes(manifest) /\ NamesCover

\* While the mutex is free no event is in two places, so Count() and every
\* query count it once.
OneCopy ==
    up /\ pc = "free" =>
        /\ hot \cap Cold(manifest) = {}
        /\ \A i, j \in DOMAIN manifest :
               i # j => Content(manifest[i].key) \cap Content(manifest[j].key) = {}

\* A sealed segment is never modified in place: as long as the manifest on
\* disk goes on naming a key, the object under it stays what it was
\* (docs/design/storage.md rule 2).
KeepsSegments ==
    \A k \in KeysOf(disk) \cap KeysOf(disk') :
        k \in DOMAIN blobs => k \in DOMAIN blobs' /\ blobs'[k] = blobs[k]

Immutable == [][KeepsSegments]_vars

\* What waits in Store.garbage is retired for good: no later seal will reuse
\* its key and no manifest names it.  Only Clear, which queues first and
\* persists after, has queued keys the stored manifest still names.
GarbageIsRetired ==
    \A k \in garbage :
        /\ k < seq
        /\ k \notin KeysOf(manifest)
        /\ pc # "clearPersist" => k \notin KeysOf(disk)

\* A query that finishes has seen exactly the events of its window that the
\* store held when it took its snapshot, sealed or not, and none fails on a
\* segment that a concurrent mutation took away.
ScanExact ==
    \A r \in Readers :
        /\ reader[r].stage = "done" => reader[r].got = reader[r].want
        /\ reader[r].stage # "missing"

\* Verify calls no healthy instance corrupt, whatever runs beside it.
VerifyFindsNoProblem == ~checker.problem

\* A scrub sweep removes no segment the manifest names, as long as the
\* manifest gained none since the snapshot the sweep's orphans come from, and
\* none waits in the queue from an earlier sweep that was deferred.
QuietScrubIsSafe ==
    [][/\ ScrubSweep
       /\ KeysOf(manifest) \subseteq checker.refs
       /\ KeysOf(manifest) \cap garbage = {}
       /\ Resolves(manifest)
       => Resolves(manifest)']_vars

\* What a DeleteUser that returned nil found in sealed segments is gone for
\* good: no crash, rollback or later seal brings it back.
ColdErasureFinal == up /\ pc = "free" => gone.cold \cap Held = {}

\* After a DeleteUser that returned nil, no event of the user that the store
\* held when the call took the lock is left in either tier.
ErasureComplete == up /\ pc = "free" => (gone.cold \cup gone.hot) \cap Held = {}

\* What the calls in progress are to remove.
Leaving ==
    (IF pruner = PruneIdle THEN {} ELSE {e \in Events : e.ts < pruner.cutoff})
        \cup (IF eraser = EraseIdle THEN {} ELSE Of(eraser.user))
        \cup IF pc \in {"clearPersist", "clearHot"} THEN Events ELSE {}

\* The store implements the promise of the Store interface: nothing is lost
\* or comes back by sealing, retention, erasure, failures or crashes.
Promise ==
    INSTANCE EventStore WITH stored <- Held, leaving <- Leaving, MayClear <- "clear" \in Ops

ImplementsEventStore == Promise!Spec
=============================================================================

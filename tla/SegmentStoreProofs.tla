-------------------------- MODULE SegmentStoreProofs --------------------------
(***************************************************************************)
(* Theorems about SegmentStore, for every set of events, readers, windows  *)
(* and cutoffs, and every bound: types and references; then what the       *)
(* segments hold and what queries are answered; then that the store        *)
(* implements EventStore, counts no event twice and forgets what was       *)
(* erased.  Each theorem names the operations and failures it excludes,    *)
(* and the README says why it must.                                        *)
(***************************************************************************)
EXTENDS SegmentStore, FiniteSetTheorems, WellFoundedInduction, TLAPS

\* Tuples of variables, and operators that only share what actions have in common.
USE DEF log, notes, Indexed, LogKeeps, CompactFails, LogCleared

-----------------------------------------------------------------------------
\* Extrema of finite sets.

\* A non-empty set of natural numbers has a least element.
LEMMA LeastNat ==
    ASSUME NEW T \in SUBSET Nat, T # {}
    PROVE  \E n \in T : \A m \in T : n <= m
<1>1. \E n \in T : \A m \in T : ~(<<m, n>> \in OpToRel(<, Nat))
  BY NatLessThanWellFounded, WFMin
<1>2. ASSUME NEW n \in T, NEW m \in T, ~(<<m, n>> \in OpToRel(<, Nat))
      PROVE  n <= m
  BY <1>2 DEF OpToRel
<1>3. QED
  BY <1>1, <1>2

\* A finite, non-empty set of events has a latest one: a smallest set without
\* one would still lack one after losing an element.
LEMMA LatestEvent ==
    ASSUME NEW S \in SUBSET Events, S # {}
    PROVE  \E e \in S : \A f \in S : f.ts <= e.ts
<1> DEFINE Latest(T) == \E e \in T : \A f \in T : f.ts <= e.ts
           Sizes == {n \in Nat : \E T \in SUBSET Events :
                        T # {} /\ n = Cardinality(T) /\ ~Latest(T)}
<1>1. ASSUME Sizes # {} PROVE FALSE
  <2>1. PICK n \in Sizes : \A m \in Sizes : n <= m
    BY <1>1, LeastNat
  <2>2. PICK T \in SUBSET Events : T # {} /\ n = Cardinality(T) /\ ~Latest(T)
    OBVIOUS
  <2>3. PICK x \in T : TRUE
    BY <2>2
  <2>4. IsFiniteSet(T) /\ Cardinality(T \ {x}) = n - 1 /\ IsFiniteSet(T \ {x})
    BY <2>2, FS_Subset, FS_RemoveElement, EventsAssumption
  <2>5. T \ {x} # {}
    BY <2>2, <2>3, EventsAssumption
  <2>6. Cardinality(T \ {x}) \in Nat /\ n - 1 \notin Sizes
    BY <2>1, <2>4, FS_CardinalityType
  <2>7. Latest(T \ {x})
    BY <2>4, <2>5, <2>6
  <2>8. PICK e \in T \ {x} : \A f \in T \ {x} : f.ts <= e.ts
    BY <2>7
  <2>9. \A f \in T : f.ts \in Nat
    BY EventsAssumption
  <2>10. CASE x.ts <= e.ts
    BY <2>2, <2>8, <2>9, <2>10
  <2>11. CASE ~(x.ts <= e.ts)
    <3>1. \A f \in T : f.ts <= x.ts
      BY <2>8, <2>9, <2>11
    <3>2. QED
      BY <3>1, <2>2, <2>3
  <2>12. QED
    BY <2>10, <2>11
<1>2. IsFiniteSet(S) /\ Cardinality(S) \in Nat
  BY EventsAssumption, FS_Subset, FS_CardinalityType
<1>3. QED
  BY <1>1, <1>2

\* The index entry of a segment describes a non-empty set of events.
LEMMA MetaOfType ==
    ASSUME NEW k \in Keys, NEW S \in SUBSET Events, S # {}
    PROVE  MetaOf(k, S) \in Entries
<1>1. Times(S) \in SUBSET Nat /\ Times(S) # {}
  BY EventsAssumption DEF Times
<1>2. \E t \in Times(S) : IsMin(t, Times(S))
  BY <1>1, LeastNat DEF IsMin
<1>3. \E t \in Times(S) : IsMax(t, Times(S))
  BY <1>1, LatestEvent DEF IsMax, Times
<1>4. Cardinality(S) \in Nat
  BY EventsAssumption, FS_Subset, FS_CardinalityType
<1>5. NamesOf(S) \in SUBSET NamesOf(Events)
  BY DEF NamesOf
<1>6. (CHOOSE t \in Times(S) : IsMin(t, Times(S))) \in Nat
  BY <1>1, <1>2
<1>7. (CHOOSE t \in Times(S) : IsMax(t, Times(S))) \in Nat
  BY <1>1, <1>3
<1>8. QED
  BY <1>4, <1>5, <1>6, <1>7 DEF MetaOf, Entries

-----------------------------------------------------------------------------
\* What the helpers on manifests and blobs return.

\* Write sets one value and keeps the others.
LEMMA WriteType ==
    ASSUME NEW f, NEW k, NEW v
    PROVE  /\ DOMAIN Write(f, k, v) = DOMAIN f \cup {k}
           /\ Write(f, k, v)[k] = v
           /\ \A x \in DOMAIN f \ {k} : Write(f, k, v)[x] = f[x]
BY DEF Write

\* Without removes what it is given and keeps the other values.
LEMMA WithoutType ==
    ASSUME NEW f, NEW S
    PROVE  /\ DOMAIN Without(f, S) = DOMAIN f \ S
           /\ \A x \in DOMAIN f \ S : Without(f, S)[x] = f[x]
BY DEF Without, Restrict

\* Deleting retires no more than it was asked to, and changes no object.
LEMMA DeleteBlobsType ==
    ASSUME NEW R, DeleteBlobs(R)
    PROVE  /\ DOMAIN blobs' \subseteq DOMAIN blobs
           /\ DOMAIN blobs \ R \subseteq DOMAIN blobs'
           /\ \A k \in DOMAIN blobs' : blobs'[k] = blobs[k]
<1>1. PICK kept \in SUBSET (R \cap DOMAIN blobs) : blobs' = Without(blobs, R \ kept)
  BY DEF DeleteBlobs
<1>2. DOMAIN blobs' = DOMAIN blobs \ (R \ kept)
  BY <1>1, WithoutType
<1>3. \A k \in DOMAIN blobs' : blobs'[k] = blobs[k]
  BY <1>1 DEF Without, Restrict
<1>4. QED
  BY <1>2, <1>3

\* Retiring deletes or queues no more than the queue and what is retired.
LEMMA DropBlobsType ==
    ASSUME NEW R, DropBlobs(R)
    PROVE  /\ DOMAIN blobs' \subseteq DOMAIN blobs
           /\ DOMAIN blobs \ (garbage \cup R) \subseteq DOMAIN blobs'
           /\ \A k \in DOMAIN blobs' : blobs'[k] = blobs[k]
           /\ garbage' \subseteq garbage \cup R
<1>1. CASE UNCHANGED blobs /\ garbage' = garbage \cup R
  BY <1>1
<1>2. CASE DeleteBlobs(garbage \cup R) /\ garbage' = {}
  BY <1>2, DeleteBlobsType
<1>3. QED
  BY <1>1, <1>2 DEF DropBlobs

\* A manifest names keys.
LEMMA KeysOfType == ASSUME NEW m, IsManifest(m) PROVE KeysOf(m) \subseteq Keys
BY DEF IsManifest, KeysOf, Entries

\* The names of events, and of a manifest's entries, are names of events.
LEMMA NamesType ==
    /\ \A S \in SUBSET Events : NamesOf(S) \subseteq NamesOf(Events)
    /\ \A m : IsManifest(m) => ManifestNames(m) \subseteq NamesOf(Events)
BY DEF NamesOf, ManifestNames, IsManifest, Entries

\* The empty manifest is a manifest.
LEMMA EmptyIsManifest == IsManifest(Empty) /\ KeysOf(Empty) = {} /\ DOMAIN Empty = {}
BY DEF IsManifest, Empty, KeysOf

\* A manifest with one more entry is a manifest.
LEMMA WriteIsManifest ==
    ASSUME NEW m, IsManifest(m), NEW i \in Keys, NEW entry \in Entries
    PROVE  IsManifest(Write(m, i, entry))
BY DEF IsManifest, Write

\* A manifest with fewer entries is a manifest.
LEMMA WithoutIsManifest ==
    ASSUME NEW m, IsManifest(m), NEW S
    PROVE  IsManifest(Without(m, S))
BY DEF IsManifest, Without, Restrict

\* The state of the blob backend after a segment is written.
BlobsType == DOMAIN blobs \subseteq Keys /\ \A k \in DOMAIN blobs : blobs[k] \subseteq Events

\* Writing a segment keeps the type of the blob backend.
LEMMA WriteBlobsType ==
    ASSUME BlobsType, NEW k \in Keys, NEW S \in SUBSET Events, blobs' = Write(blobs, k, S)
    PROVE  BlobsType'
BY DEF BlobsType, Write

\* Deleting segments keeps the type of the blob backend.
LEMMA LessBlobsType ==
    ASSUME BlobsType, DOMAIN blobs' \subseteq DOMAIN blobs,
           \A k \in DOMAIN blobs' : blobs'[k] = blobs[k]
    PROVE  BlobsType'
BY DEF BlobsType

\* A key below the bound has a successor.
LEMMA SuccessorIsKey == ASSUME NEW n \in Keys, n < MaxSeq PROVE n + 1 \in Keys
BY BoundsAssumption DEF Keys

\* With room for c keys, one can be handed out and c - 1 are left.
LEMMA RoomForOne ==
    ASSUME NEW n \in Nat, NEW c \in Nat, c - 1 \in Nat, n + c <= MaxSeq
    PROVE  n < MaxSeq /\ n + (c - 1) <= MaxSeq /\ (n + 1) + (c - 1) <= MaxSeq
BY BoundsAssumption

\* Below their bound, one more crash can be counted.
LEMMA CrashCount == ASSUME NEW n \in 0 .. MaxCrashes, n < MaxCrashes PROVE n + 1 \in 0 .. MaxCrashes
BY BoundsAssumption

\* Zero is a key.
LEMMA FirstKey == 0 \in Keys
BY BoundsAssumption DEF Keys

\* Keys are finitely many natural numbers.
LEMMA KeysFinite == IsFiniteSet(Keys) /\ Keys \subseteq Nat
BY FS_Interval, BoundsAssumption DEF Keys

-----------------------------------------------------------------------------
\* Type correctness.

\* Whoever is about to use sequence numbers has as many left as it needs, and
\* nobody holds the mutex of a process that is down.
SeqRoom ==
    /\ pc \in {"sealPut", "sealPersist"} => seq < MaxSeq
    /\ pc = "eraseSegment" => seq + Cardinality(todo) <= MaxSeq
    /\ ~up => pc = "free"

TypeInv == TypeOK /\ SeqRoom

\* The store starts empty.
LEMMA InitType == Init => TypeInv
<1> SUFFICES ASSUME Init PROVE TypeInv
  OBVIOUS
<1>1. TypeDurable /\ TypeProcess /\ TypeLocals /\ TypeGhosts
  BY EmptyIsManifest, BoundsAssumption
     DEF Init, TypeDurable, TypeProcess, TypeLocals, TypeGhosts, Keys, Steps, Empty
<1>2. TypeActors
  BY DEF Init, TypeActors, PruneIdle, EraseIdle, ScanIdle, CheckIdle
<1>3. SeqRoom
  BY DEF Init, SeqRoom
<1>4. QED
  BY <1>1, <1>2, <1>3 DEF TypeInv, TypeOK

\* Ingest keeps the types.
LEMMA IngestType == ASSUME TypeInv, NEW batch \in SUBSET Events, Append(batch) PROVE TypeInv'
<1>1. TypeDurable'
  BY DEF Append, Ingest, IngestUnsynced, TypeInv, TypeOK, TypeDurable
<1>2. TypeProcess'
  BY NamesType DEF Append, Ingest, IngestUnsynced, TypeInv, TypeOK, TypeProcess, IsManifest
<1>3. TypeLocals'
  BY DEF Append, Ingest, IngestUnsynced, TypeInv, TypeOK, TypeLocals, Steps
<1>4. TypeActors'
  <2>1. Indexed(batch)
    BY DEF Append, Ingest, IngestUnsynced
  <2>2. QED
    BY <2>1 DEF TypeInv, TypeOK, TypeActors
<1>5. TypeGhosts'
  BY DEF Append, Ingest, IngestUnsynced, TypeInv, TypeOK, TypeGhosts
<1>6. SeqRoom'
  BY DEF Append, Ingest, IngestUnsynced, TypeInv, SeqRoom
<1>7. QED
  BY <1>1, <1>2, <1>3, <1>4, <1>5, <1>6 DEF TypeInv, TypeOK

\* A manifest Put that fails leaves one of two manifests.
LEMMA PersistFailedType ==
    ASSUME NEW m, IsManifest(m), IsManifest(disk), PersistFailed(m)
    PROVE  IsManifest(disk')
BY DEF PersistFailed, IsManifest

\* The steps of a seal keep the types.
LEMMA SealType == ASSUME TypeInv, Seal PROVE TypeInv'
<1> USE DEF TypeInv, TypeOK, TypeDurable, TypeProcess, TypeLocals, TypeActors, TypeGhosts,
            SeqRoom, Steps, durable, memory, actors, ghosts
<1>1. CASE SealNothing
  BY <1>1, EmptyIsManifest DEF SealNothing, Unlock, IsManifest
<1>2. CASE SealPut
  <2>1. BlobsType'
    BY <1>2, WriteBlobsType DEF SealPut, BlobsType
  <2>2. IsManifest(next')
    BY <1>2, WriteIsManifest, MetaOfType DEF SealPut
  <2>3. QED
    BY <1>2, <2>1, <2>2 DEF SealPut, BlobsType, IsManifest
<1>3. CASE SealPutFails
  <2>1. BlobsType'
    BY <1>3, WriteBlobsType DEF SealPutFails, BlobsType
  <2>2. QED
    BY <1>3, <2>1, EmptyIsManifest DEF SealPutFails, Unlock, BlobsType, IsManifest
<1>4. CASE SealPersist
  <2>1. seq' \in Keys
    BY <1>4, SuccessorIsKey DEF SealPersist
  <2>2. QED
    BY <1>4, <2>1 DEF SealPersist, Persisted, IsManifest
<1>5. CASE SealPersistFails
  <2>1. IsManifest(disk')
    BY <1>5, PersistFailedType DEF SealPersistFails
  <2>2. QED
    BY <1>5, <2>1, EmptyIsManifest DEF SealPersistFails, Unlock, IsManifest
<1>6. CASE SealClear
  BY <1>6, EmptyIsManifest DEF SealClear, Unlock, IsManifest
<1>7. QED
  BY <1>1, <1>2, <1>3, <1>4, <1>5, <1>6 DEF Seal

\* The steps of Prune keep the types.
LEMMA PruneType == ASSUME TypeInv, Prune PROVE TypeInv'
<1> USE DEF TypeInv, TypeOK, TypeDurable, TypeProcess, TypeLocals, TypeActors, TypeGhosts,
            SeqRoom, Steps, durable, memory, locals, ghosts
<1>1. ASSUME NEW cutoff \in Cutoffs, PruneLocked(cutoff) PROVE TypeInv'
  <2> DEFINE dead == {i \in DOMAIN manifest : Expired(manifest[i], cutoff)}
  <2>1. IsManifest(next') /\ drop' \subseteq Keys
    <3>1. CASE UNCHANGED locals
      BY <3>1 DEF IsManifest
    <3>2. CASE next' = Without(manifest, dead) /\ drop' = {manifest[i].key : i \in dead}
      <4>1. drop' \subseteq KeysOf(manifest)
        BY <3>2 DEF KeysOf
      <4>2. QED
        BY <3>2, <4>1, WithoutIsManifest, KeysOfType
    <3>3. QED
      BY <1>1, <3>1, <3>2 DEF PruneLocked
  <2>2. TypeActors'
    <3>1. cutoff \in Nat
      BY BoundsAssumption
    <3>2. pruner' \in [stage : {"idle", "locked", "hot", "rebuild"}, cutoff : Nat, cut : BOOLEAN]
      <4>1. CASE pruner' = [stage |-> "hot", cutoff |-> cutoff, cut |-> FALSE]
        BY <3>1, <4>1
      <4>2. CASE pruner' = [stage |-> "locked", cutoff |-> cutoff, cut |-> TRUE]
        BY <3>1, <4>2
      <4>3. QED
        BY <1>1, <4>1, <4>2 DEF PruneLocked
    <3>3. QED
      BY <1>1, <3>2 DEF PruneLocked
  <2>3. pc' \in {pc, "prunePersist"}
    BY <1>1 DEF PruneLocked
  <2>4. QED
    BY <1>1, <2>1, <2>2, <2>3 DEF PruneLocked, IsManifest
<1>2. CASE PrunePersist
  BY <1>2 DEF PrunePersist, Persisted, IsManifest, actors
<1>3. CASE PrunePersistFails
  <2>1. IsManifest(disk')
    BY <1>3, PersistFailedType DEF PrunePersistFails
  <2>2. QED
    BY <1>3, <2>1, EmptyIsManifest DEF PrunePersistFails, PruneIdle, Unlock, IsManifest
<1>4. CASE PruneDrop
  <2>1. BlobsType' /\ garbage' \subseteq Keys
    BY <1>4, DropBlobsType, LessBlobsType DEF PruneDrop, BlobsType
  <2>2. QED
    BY <1>4, <2>1, EmptyIsManifest DEF PruneDrop, Unlock, BlobsType, IsManifest
<1>5. CASE PruneHot
  <2>1. hot' \subseteq Events /\ wal' \subseteq Events
    BY <1>5 DEF PruneHot, Recent
  <2>2. QED
    BY <1>5, <2>1 DEF PruneHot, PruneIdle, IsManifest
<1>8. CASE PruneHotFails
  BY <1>8 DEF PruneHotFails, PruneIdle, IsManifest
<1>6. CASE PruneRebuild
  <2>1. names' \subseteq NamesOf(Events)
    BY <1>6, NamesType DEF PruneRebuild, RebuiltNames
  <2>2. QED
    BY <1>6, <2>1 DEF PruneRebuild, PruneIdle, IsManifest
<1>7. QED
  BY <1>1, <1>2, <1>3, <1>4, <1>5, <1>6, <1>8 DEF Prune

\* DeleteUser takes no more sequence numbers than it has slots to look at.
LEMMA EraseSegmentType == ASSUME TypeInv, NEW i \in todo, EraseSegment(i) PROVE TypeInv'
<1> USE DEF TypeInv, TypeOK, TypeDurable, TypeProcess, TypeLocals, TypeActors, TypeGhosts,
            Steps, actors, ghosts
<1>1. seq + Cardinality(todo) <= MaxSeq /\ pc = "eraseSegment" /\ todo' = todo \ {i}
      /\ pc' = pc /\ seq' \in {seq, seq + 1}
  BY DEF EraseSegment, SeqRoom
<1>2. Cardinality(todo') = Cardinality(todo) - 1 /\ Cardinality(todo) \in Nat
      /\ Cardinality(todo') \in Nat
  BY <1>1, KeysFinite, FS_Subset, FS_RemoveElement, FS_CardinalityType
<1>3. seq \in Nat /\ MaxSeq \in Nat
  BY KeysFinite, BoundsAssumption
<1>4. seq < MaxSeq /\ seq' + Cardinality(todo') <= MaxSeq
  <2> HIDE DEF TypeInv
  <2> DEFINE c == Cardinality(todo)
  <2>1. c \in Nat /\ c - 1 \in Nat /\ Cardinality(todo') = c - 1 /\ seq + c <= MaxSeq
    BY <1>1, <1>2
  <2> HIDE DEF c
  <2>2. seq < MaxSeq /\ seq + (c - 1) <= MaxSeq /\ (seq + 1) + (c - 1) <= MaxSeq
    BY <2>1, <1>3, RoomForOne
  <2>3. QED
    BY <1>1, <2>1, <2>2
<1>5. SeqRoom' /\ seq' \in Keys
  BY <1>1, <1>4, SuccessorIsKey DEF EraseSegment, SeqRoom
<1>6. BlobsType' /\ IsManifest(next') /\ drop' \subseteq Keys
  <2> DEFINE k == manifest[i].key
             kept == Kept(k, eraser.user)
  <2>1. k \in Keys /\ kept \in SUBSET Events /\ seq \in Keys /\ BlobsType
    BY DEF EraseSegment, Kept, BlobsType
  <2>2. CASE UNCHANGED <<blobs, next, drop>>
    BY <2>2 DEF BlobsType, IsManifest
  <2>3. CASE next' = Without(next, {i}) /\ drop' = drop \cup {k} /\ UNCHANGED blobs
    BY <2>1, <2>3, WithoutIsManifest DEF BlobsType, IsManifest
  <2>4. CASE /\ kept # {}
             /\ blobs' = Write(blobs, seq, kept)
             /\ next' = Write(next, i, Rewritten(i, kept))
             /\ drop' = drop \cup {k}
    <3>1. Rewritten(i, kept) \in Entries
      BY <2>1, <2>4, MetaOfType DEF Rewritten
    <3>2. IsManifest(next')
      BY <2>4, <3>1, WriteIsManifest
    <3>3. BlobsType'
      BY <2>1, <2>4, WriteBlobsType
    <3>4. QED
      BY <2>1, <2>4, <3>2, <3>3
  <2>5. QED
    BY <2>2, <2>3, <2>4 DEF EraseSegment
<1>7. QED
  BY <1>1, <1>5, <1>6 DEF EraseSegment, BlobsType, IsManifest

\* A rewrite that fails keeps the types, stored or not.
LEMMA EraseSegmentFailsType ==
    ASSUME TypeInv, NEW i \in todo, EraseSegmentFails(i) PROVE TypeInv'
<1> USE DEF TypeInv, TypeOK, TypeDurable, TypeProcess, TypeLocals, TypeActors, TypeGhosts,
            SeqRoom, Steps, memory, ghosts
<1>1. BlobsType'
  <2> DEFINE kept == Kept(manifest[i].key, eraser.user)
  <2>1. CASE UNCHANGED blobs
    BY <2>1 DEF BlobsType
  <2>2. CASE manifest[i].key \in DOMAIN blobs /\ blobs' = Write(blobs, seq, kept)
    <3>1. kept \in SUBSET Events /\ seq \in Keys /\ BlobsType
      BY <2>2 DEF Kept, BlobsType
    <3>2. QED
      BY <2>2, <3>1, WriteBlobsType
  <2>3. QED
    BY <2>1, <2>2 DEF EraseSegmentFails
<1>2. QED
  BY <1>1, EmptyIsManifest DEF EraseSegmentFails, EraseIdle, Unlock, BlobsType, IsManifest

\* The steps of DeleteUser keep the types.
LEMMA DeleteUserType == ASSUME TypeInv, DeleteUser PROVE TypeInv'
<1> USE DEF TypeInv, TypeOK, TypeDurable, TypeProcess, TypeLocals, TypeActors, TypeGhosts,
            SeqRoom, Steps, durable, memory, locals, ghosts
<1>1. ASSUME NEW user \in Users, EraseLocked(user) PROVE TypeInv'
  BY <1>1 DEF EraseLocked, Lock, Of, IsManifest
<1>2. ASSUME NEW i \in todo, EraseSegment(i) PROVE TypeInv'
  BY <1>2, EraseSegmentType
<1>3. ASSUME NEW i \in todo, EraseSegmentFails(i) PROVE TypeInv'
  BY <1>3, EraseSegmentFailsType
<1>4. CASE ErasePersist
  BY <1>4 DEF ErasePersist, Persisted, IsManifest, actors
<1>5. CASE ErasePersistFails
  <2>1. IsManifest(disk')
    BY <1>5, PersistFailedType DEF ErasePersistFails
  <2>2. QED
    BY <1>5, <2>1, EmptyIsManifest DEF ErasePersistFails, EraseIdle, Unlock, IsManifest
<1>6. CASE EraseDrop
  <2>1. BlobsType' /\ garbage' \subseteq Keys
    BY <1>6, DropBlobsType, LessBlobsType DEF EraseDrop, BlobsType
  <2>2. names' \subseteq NamesOf(Events)
    BY <1>6, NamesType DEF EraseDrop, RebuiltNames
  <2>3. QED
    BY <1>6, <2>1, <2>2, EmptyIsManifest DEF EraseDrop, Unlock, BlobsType, IsManifest
<1>7. CASE EraseNoSegment
  BY <1>7, EmptyIsManifest DEF EraseNoSegment, Unlock, IsManifest
<1>8. CASE EraseHot
  <2>1. hot' \subseteq Events /\ wal' \subseteq Events
    BY <1>8 DEF EraseHot
  <2>2. QED
    BY <1>8, <2>1 DEF EraseHot, EraseIdle, IsManifest
<1>9. CASE EraseHotFails
  BY <1>9 DEF EraseHotFails, EraseIdle, IsManifest
<1>10. QED
  BY <1>1, <1>2, <1>3, <1>4, <1>5, <1>6, <1>7, <1>8, <1>9 DEF DeleteUser

\* The steps of Clear keep the types.
LEMMA ClearType == ASSUME TypeInv, Clear PROVE TypeInv'
<1> USE DEF TypeInv, TypeOK, TypeDurable, TypeProcess, TypeLocals, TypeActors, TypeGhosts,
            SeqRoom, Steps, memory, actors, ghosts
<1>1. CASE ClearDrop
  <2>1. BlobsType' /\ garbage' \subseteq Keys
    BY <1>1, DropBlobsType, LessBlobsType, KeysOfType DEF ClearDrop, BlobsType
  <2>2. QED
    BY <1>1, <2>1, EmptyIsManifest DEF ClearDrop, Lock, BlobsType, IsManifest
<1>2. CASE ClearPersist
  BY <1>2, EmptyIsManifest DEF ClearPersist, Persisted, IsManifest
<1>3. CASE ClearPersistFails
  <2>1. IsManifest(disk')
    BY <1>3, PersistFailedType, EmptyIsManifest DEF ClearPersistFails
  <2>2. QED
    BY <1>3, <2>1, EmptyIsManifest DEF ClearPersistFails, Unlock, IsManifest
<1>4. CASE ClearHot
  BY <1>4, EmptyIsManifest DEF ClearHot, Unlock, IsManifest
<1>5. QED
  BY <1>1, <1>2, <1>3, <1>4 DEF Clear

Scans == [stage : {"idle", "begun", "reading", "done", "missing"}, todo : SUBSET Keys,
          got : SUBSET Events, want : SUBSET Events, window : Nat \X Nat]

\* What the store holds is made of events.
LEMMA HeldType == ASSUME TypeOK PROVE Held \subseteq Events
BY DEF TypeOK, TypeDurable, Held, Cold, Content

\* A step of a scan changes nothing but the reader's own state.
LEMMA ScanType == ASSUME TypeInv, NEW r \in Readers, Scan(r) PROVE TypeInv'
<1> USE DEF Scans
<1>1. reader \in [Readers -> Scans] /\ reader[r] \in Scans
  BY DEF TypeInv, TypeOK, TypeActors
<1>2. ASSUME NEW w \in Windows, ScanBegin(r, w) PROVE reader' \in [Readers -> Scans]
  BY <1>1, <1>2, BoundsAssumption DEF ScanBegin
<1>3. ASSUME ScanSnapshot(r) PROVE reader' \in [Readers -> Scans]
  <2>1. ToRead(manifest, reader[r].window) \subseteq Keys
    BY KeysOfType DEF TypeInv, TypeOK, TypeProcess, ToRead, KeysOf
  <2>2. HotPart(reader[r].window) \subseteq Events
    BY DEF TypeInv, TypeOK, TypeDurable, HotPart, InWindow
  <2>3. InWindow(Held, reader[r].window) \subseteq Events
    BY HeldType DEF TypeInv, InWindow
  <2>4. QED
    BY <1>1, <1>3, <2>1, <2>2, <2>3 DEF ScanSnapshot
<1>4. ASSUME NEW k \in reader[r].todo, ScanRead(r, k) PROVE reader' \in [Readers -> Scans]
  <2>1. InWindow(Content(k), reader[r].window) \subseteq Events
    BY DEF TypeInv, TypeOK, TypeDurable, Content, InWindow
  <2>2. QED
    BY <1>1, <1>4, <2>1 DEF ScanRead
<1>5. ASSUME ScanReadFails(r) PROVE reader' \in [Readers -> Scans]
  BY <1>1, <1>5 DEF ScanReadFails, ScanIdle
<1>6. ASSUME ScanEnd(r) PROVE reader' \in [Readers -> Scans]
  BY <1>1, <1>6 DEF ScanEnd
<1>7. reader' \in [Readers -> Scans]
      /\ UNCHANGED <<durable, up, memory, locals, pruner, eraser, checker, ghosts>>
  BY <1>1, <1>2, <1>3, <1>4, <1>5, <1>6
     DEF Scan, ScanBegin, ScanSnapshot, ScanRead, ScanReadFails, ScanEnd
<1>8. QED
  BY <1>7 DEF TypeInv, TypeOK, TypeDurable, TypeProcess, TypeLocals, TypeActors, TypeGhosts,
              SeqRoom, IsManifest, durable, memory, locals, ghosts

Checks == [stage : {"idle", "begun", "checking", "checked"}, entries : SUBSET Entries,
           refs : SUBSET Keys, orphans : SUBSET Keys, problem : BOOLEAN]

\* A step of a health check changes nothing but its own state.
LEMMA VerifyType == ASSUME TypeInv, Verify PROVE TypeInv'
<1> USE DEF Checks
<1>1. checker \in Checks
  BY DEF TypeInv, TypeOK, TypeActors
<1>2. ASSUME VerifyBegin PROVE checker' \in Checks
  BY <1>2 DEF VerifyBegin
<1>3. ASSUME VerifySnapshot PROVE checker' \in Checks
  <2>1. KeysOf(manifest) \subseteq Keys /\ {manifest[i] : i \in DOMAIN manifest} \subseteq Entries
    BY KeysOfType DEF TypeInv, TypeOK, TypeProcess, IsManifest
  <2>2. QED
    BY <1>3, <2>1 DEF VerifySnapshot
<1>4. ASSUME NEW meta \in checker.entries, VerifyRead(meta) PROVE checker' \in Checks
  BY <1>1, <1>4 DEF VerifyRead
<1>5. ASSUME VerifyList PROVE checker' \in Checks
  <2>1. DOMAIN blobs \subseteq Keys
    BY DEF TypeInv, TypeOK, TypeDurable
  <2>2. QED
    BY <1>1, <1>5, <2>1 DEF VerifyList
<1>6. checker' \in Checks
      /\ UNCHANGED <<durable, up, memory, locals, pruner, eraser, reader, ghosts>>
  BY <1>2, <1>3, <1>4, <1>5 DEF Verify, VerifyBegin, VerifySnapshot, VerifyRead, VerifyList
<1>7. QED
  BY <1>6 DEF TypeInv, TypeOK, TypeDurable, TypeProcess, TypeLocals, TypeActors, TypeGhosts,
              SeqRoom, IsManifest, durable, memory, locals, ghosts

\* Crashes, Open and the scrub of a stopped instance keep the types.
LEMMA RestartType == ASSUME TypeInv, Crash \/ Open \/ OfflineScrub PROVE TypeInv'
<1> USE DEF TypeInv, TypeOK, TypeDurable, TypeProcess, TypeLocals, TypeActors, TypeGhosts,
            SeqRoom, Steps
<1>1. CASE Crash
  <2>1. crashes' \in 0 .. MaxCrashes
    BY <1>1, CrashCount DEF Crash
  <2>2. TypeActors'
    BY <1>1 DEF Crash, PruneIdle, EraseIdle, ScanIdle, CheckIdle
  <2>3. QED
    BY <1>1, <2>1, <2>2, FirstKey, EmptyIsManifest DEF Crash, Unlock, durable, IsManifest
<1>2. CASE Open
  <2>1. hot' \subseteq Events
    BY <1>2 DEF Open, Recovered
  <2>2. names' \subseteq NamesOf(Events)
    BY <1>2, NamesType DEF Open, RebuiltNames
  <2>3. QED
    BY <1>2, <2>1, <2>2 DEF Open, locals, actors, ghosts, IsManifest
<1>3. CASE OfflineScrub
  <2>1. hot' \subseteq Events
    BY <1>3 DEF OfflineScrub, Recovered
  <2>2. BlobsType'
    BY <1>3, DeleteBlobsType, LessBlobsType DEF OfflineScrub, BlobsType
  <2>3. QED
    BY <1>3, <2>1, <2>2 DEF OfflineScrub, BlobsType, memory, locals, actors, ghosts, IsManifest
<1>4. QED
  BY <1>1, <1>2, <1>3

\* Every step of the store keeps the types.
LEMMA NextType == TypeInv /\ [Next]_vars => TypeInv'
<1> SUFFICES ASSUME TypeInv, [Next]_vars PROVE TypeInv'
  OBVIOUS
<1> USE DEF TypeInv, TypeOK, TypeDurable, TypeProcess, TypeLocals, TypeActors, TypeGhosts,
            SeqRoom, Steps
<1>1. ASSUME NEW batch \in SUBSET Events, Append(batch) PROVE TypeInv'
  BY <1>1, IngestType
<1>2. CASE Flush
  BY <1>2 DEF Flush, Lock, durable, memory, actors, ghosts, IsManifest
<1>3. CASE Seal \/ Prune \/ DeleteUser \/ Clear
  BY <1>3, SealType, PruneType, DeleteUserType, ClearType
<1>4. ASSUME NEW r \in Readers, Scan(r) PROVE TypeInv'
  BY <1>4, ScanType
<1>5. CASE Verify
  BY <1>5, VerifyType
<1>6. CASE ScrubSweep
  <2>1. BlobsType' /\ garbage' \subseteq Keys
    BY <1>6, DropBlobsType, LessBlobsType DEF ScrubSweep, BlobsType
  <2>2. QED
    BY <1>6, <2>1 DEF ScrubSweep, CheckIdle, BlobsType, locals, ghosts, IsManifest
<1>7. CASE Crash \/ Open \/ OfflineScrub
  BY <1>7, RestartType
<1>8. CASE UNCHANGED vars
  <2>1. TypeDurable' /\ TypeProcess' /\ TypeLocals'
    BY <1>8 DEF vars, durable, memory, locals, IsManifest
  <2>2. TypeActors' /\ TypeGhosts'
    BY <1>8 DEF vars, actors, ghosts
  <2>3. SeqRoom'
    BY <1>8 DEF vars, memory, locals
  <2>4. QED
    BY <2>1, <2>2, <2>3
<1>9. QED
  BY <1>1, <1>2, <1>3, <1>4, <1>5, <1>6, <1>7, <1>8 DEF Next

\* The types of TypeOK hold in every reachable state, for every set of events,
\* readers and windows: in particular no handler hands out a key beyond those
\* it made sure of.
THEOREM TypeCorrect == Spec => []TypeOK
<1>1. TypeInv => TypeOK
  BY DEF TypeInv
<1>2. QED
  BY <1>1, InitType, NextType, PTL DEF Spec

-----------------------------------------------------------------------------
\* The inductive invariant.

\* A manifest that names each segment once, and only segments that are there.
Distinct(m) == \A i, j \in DOMAIN m : m[i].key = m[j].key => i = j

Sound(m) == Resolves(m) /\ Distinct(m)

\* Keys that come before key n.
Below(S, n) == \A k \in S : k < n

\* While DeleteUser edits the manifest, a slot keeps its key or has a new one.
Edited ==
    \A i \in DOMAIN next :
        /\ i \in DOMAIN manifest
        /\ next[i].key = manifest[i].key \/ next[i].key \notin KeysOf(manifest)

SoundManifests == Sound(disk) /\ Sound(manifest) /\ Sound(next)

Retired ==
    /\ garbage \cap KeysOf(disk) = {}
    /\ garbage \cap KeysOf(manifest) = {}
    /\ garbage \cap KeysOf(next) = {}

HandedOut ==
    /\ up => Below(KeysOf(manifest), seq) /\ Below(garbage, seq)
    /\ up /\ "lostReply" \notin Faults => Below(KeysOf(disk), seq)
    /\ ~up => manifest = Empty /\ garbage = {} /\ pc = "free"

Holding ==
    /\ pc \notin {"clearPersist", "clearHot"}
    /\ pc \in {"free", "sealPut"} => next = Empty /\ drop = {}
    /\ pc = "sealPersist" => Below(KeysOf(next), seq + 1)
    /\ pc \in {"prunePersist", "eraseSegment"} =>
           Below(KeysOf(next), seq) /\ Below(drop, seq) /\ drop \cap KeysOf(next) = {}
    /\ pc = "eraseSegment" =>
           drop \subseteq KeysOf(manifest) /\ todo \subseteq DOMAIN manifest /\ Edited
    /\ pc \in {"pruneDrop", "eraseDrop"} =>
           Below(drop, seq) /\ drop \cap KeysOf(manifest) = {} /\ drop \cap KeysOf(disk) = {}

RefInv == SoundManifests /\ Retired /\ HandedOut /\ Holding

-----------------------------------------------------------------------------
\* What writing and removing an entry does to the keys a manifest names.

\* A written entry adds its key; a fresh key keeps the keys distinct.
LEMMA WriteKeys ==
    ASSUME NEW m, NEW i, NEW entry
    PROVE  /\ KeysOf(Write(m, i, entry)) \subseteq KeysOf(m) \cup {entry.key}
           /\ Distinct(m) /\ entry.key \notin KeysOf(m) => Distinct(Write(m, i, entry))
BY DEF KeysOf, Write, Distinct

\* A removed entry's key is gone when keys are distinct.
LEMMA WithoutKeys ==
    ASSUME NEW m, NEW S
    PROVE  /\ KeysOf(Without(m, S)) \subseteq KeysOf(m)
           /\ Distinct(m) => Distinct(Without(m, S))
           /\ Distinct(m) =>
                  \A i \in S \cap DOMAIN m : m[i].key \notin KeysOf(Without(m, S))
BY DEF KeysOf, Without, Restrict, Distinct

\* The empty manifest names nothing.
LEMMA EmptySound == KeysOf(Empty) = {} /\ Distinct(Empty) /\ DOMAIN Empty = {}
BY DEF KeysOf, Empty, Distinct

\* What comes before n comes before n + 1, and n is not among it.
LEMMA BelowNext ==
    ASSUME NEW S \in SUBSET Nat, NEW n \in Nat, Below(S, n)
    PROVE  Below(S, n + 1) /\ n \notin S
BY DEF Below

\* With n added it still comes before n + 1.
LEMMA BelowAdd ==
    ASSUME NEW S \in SUBSET Nat, NEW n \in Nat, Below(S, n)
    PROVE  Below(S \cup {n}, n + 1)
BY DEF Below

\* The numbers and keys the steps below compute with.
LEMMA KeyNumbers ==
    ASSUME TypeInv
    PROVE  /\ seq \in Nat /\ garbage \subseteq Nat /\ drop \subseteq Nat
           /\ KeysOf(disk) \subseteq Nat /\ KeysOf(manifest) \subseteq Nat
           /\ KeysOf(next) \subseteq Nat
BY KeysOfType, KeysFinite DEF TypeInv, TypeOK, TypeDurable, TypeProcess, TypeLocals

-----------------------------------------------------------------------------
\* Steps several handlers share.

\* A step that touches no key: the mutex may go from free to a seal's start.
LEMMA IdleRefs ==
    ASSUME RefInv, UNCHANGED <<blobs, disk, manifest, seq, garbage, up, next, drop>>,
           todo' \subseteq todo, pc' = pc \/ (up /\ pc = "free" /\ pc' = "sealPut")
    PROVE  RefInv'
<1> USE DEF RefInv
<1>1. SoundManifests' /\ Retired'
  BY DEF SoundManifests, Sound, Resolves, Retired
<1>2. HandedOut' /\ Holding'
  BY DEF HandedOut, Holding, Edited
<1>3. QED
  BY <1>1, <1>2

\* A handler that gives up, or is done, and unlocks.
LEMMA UnlockRefs ==
    ASSUME RefInv, up, Unlock, UNCHANGED <<manifest, seq, garbage, up>>,
           DOMAIN blobs \subseteq DOMAIN blobs',
           disk' = disk \/ (disk' = next /\ "lostReply" \in Faults)
    PROVE  RefInv'
<1> USE DEF RefInv
<1>1. SoundManifests'
  BY EmptySound DEF SoundManifests, Sound, Resolves, Unlock
<1>2. Retired'
  BY EmptySound DEF Retired, Unlock
<1>3. HandedOut' /\ Holding'
  BY DEF HandedOut, Holding, Unlock
<1>4. QED
  BY <1>1, <1>2, <1>3

\* Prune and DeleteUser persist the manifest they prepared.
LEMMA PersistRefs ==
    ASSUME TypeInv, RefInv, pc \in {"prunePersist", "eraseSegment"},
           Persisted(next), manifest' = next, pc' \in {"pruneDrop", "eraseDrop"},
           UNCHANGED <<blobs, up, seq, garbage, next, drop>>
    PROVE  RefInv'
<1> USE DEF RefInv
<1>1. up /\ up'
  BY DEF TypeInv, SeqRoom
<1>2. SoundManifests' /\ Retired'
  BY DEF SoundManifests, Sound, Resolves, Retired, Persisted
<1>3. HandedOut' /\ Holding'
  BY <1>1 DEF HandedOut, Holding, Persisted
<1>4. QED
  BY <1>2, <1>3

\* Then they retire the keys it no longer names, and unlock.
LEMMA DropRefs ==
    ASSUME TypeInv, RefInv, pc \in {"pruneDrop", "eraseDrop"}, DropBlobs(drop), Unlock,
           UNCHANGED <<disk, up, manifest, seq>>
    PROVE  RefInv'
<1> USE DEF RefInv
<1>1. up /\ up'
  BY DEF TypeInv, SeqRoom
<1>2. /\ DOMAIN blobs \ (garbage \cup drop) \subseteq DOMAIN blobs'
      /\ garbage' \subseteq garbage \cup drop
  BY DropBlobsType
<1>3. SoundManifests'
  BY <1>2, EmptySound DEF SoundManifests, Sound, Resolves, Retired, Holding, Unlock
<1>4. Retired'
  BY <1>2, EmptySound DEF Retired, Holding, Unlock
<1>5. HandedOut' /\ Holding'
  BY <1>1, <1>2 DEF HandedOut, Holding, Unlock, Below
<1>6. QED
  BY <1>3, <1>4, <1>5

-----------------------------------------------------------------------------
\* The handlers.

\* The steps of a seal: the new key is above all others.
LEMMA SealRefs == ASSUME TypeInv, RefInv, Seal PROVE RefInv'
<1> USE DEF RefInv
<1>1. CASE SealNothing
  BY <1>1, UnlockRefs DEF SealNothing, durable, memory, TypeInv, SeqRoom
<1>2. CASE SealPut
  <2>1. KeysOf(next') \subseteq KeysOf(manifest) \cup {seq} /\ up /\ up' /\ next = Empty /\ drop = {}
    BY <1>2, WriteKeys DEF SealPut, MetaOf, TypeInv, SeqRoom, Holding
  <2>2. seq \notin KeysOf(manifest) /\ seq \notin garbage /\ Below(KeysOf(manifest) \cup {seq},
  seq + 1)
    BY <2>1, KeyNumbers, BelowNext, BelowAdd DEF HandedOut
  <2>3. DOMAIN blobs' = DOMAIN blobs \cup {seq}
    BY <1>2, WriteType DEF SealPut
  <2>4. Distinct(next')
    BY <1>2, <2>2, WriteKeys DEF SealPut, MetaOf, SoundManifests, Sound
  <2>5. SoundManifests'
    BY <1>2, <2>1, <2>3, <2>4 DEF SealPut, memory, SoundManifests, Sound, Resolves
  <2>6. Retired'
    BY <1>2, <2>1, <2>2 DEF SealPut, memory, Retired
  <2>7. HandedOut'
    BY <1>2 DEF SealPut, memory, HandedOut
  <2>8. Holding'
    BY <1>2, <2>1, <2>2 DEF SealPut, memory, Holding, Below
  <2>9. QED
    BY <2>5, <2>6, <2>7, <2>8
<1>3. CASE SealPutFails
  <2>1. DOMAIN blobs \subseteq DOMAIN blobs'
    BY <1>3 DEF SealPutFails, Write
  <2>2. QED
    BY <1>3, <2>1, UnlockRefs DEF SealPutFails, memory, TypeInv, SeqRoom
<1>4. CASE SealPersist
  <2>1. up /\ up' /\ Below(KeysOf(next), seq + 1) /\ seq' = seq + 1
    BY <1>4 DEF SealPersist, TypeInv, SeqRoom, Holding
  <2>2. Below(garbage, seq + 1)
    BY <2>1, KeyNumbers, BelowNext DEF HandedOut
  <2>3. SoundManifests' /\ Retired'
    BY <1>4 DEF SealPersist, Persisted, SoundManifests, Sound, Resolves, Retired
  <2>4. HandedOut' /\ Holding'
    BY <1>4, <2>1, <2>2 DEF SealPersist, Persisted, HandedOut, Holding
  <2>5. QED
    BY <2>3, <2>4
<1>5. CASE SealPersistFails
  BY <1>5, UnlockRefs DEF SealPersistFails, PersistFailed, memory, TypeInv, SeqRoom
<1>6. CASE SealClear
  BY <1>6, UnlockRefs DEF SealClear, memory, TypeInv, SeqRoom
<1>7. QED
  BY <1>1, <1>2, <1>3, <1>4, <1>5, <1>6 DEF Seal

\* The steps of Prune: what it retires the new manifest does not name.
LEMMA PruneRefs == ASSUME TypeInv, RefInv, Prune PROVE RefInv'
<1> USE DEF RefInv
<1>1. ASSUME NEW cutoff \in Cutoffs, PruneLocked(cutoff) PROVE RefInv'
  <2> DEFINE dead == {i \in DOMAIN manifest : Expired(manifest[i], cutoff)}
  <2>1. CASE UNCHANGED locals
    BY <1>1, <2>1, IdleRefs DEF PruneLocked, durable, memory, locals
  <2>2. CASE /\ pc' = "prunePersist"
             /\ next' = Without(manifest, dead)
             /\ drop' = {manifest[i].key : i \in dead}
    <3>1. up /\ up' /\ pc = "free" /\ UNCHANGED <<durable, memory>>
      BY <1>1 DEF PruneLocked
    <3>2. KeysOf(next') \subseteq KeysOf(manifest) /\ Distinct(next')
      BY <2>2, WithoutKeys DEF SoundManifests, Sound
    <3>3. drop' \subseteq KeysOf(manifest) /\ drop' \cap KeysOf(next') = {}
      BY <2>2, WithoutKeys DEF SoundManifests, Sound, KeysOf
    <3>4. SoundManifests' /\ Retired'
      BY <3>1, <3>2 DEF durable, memory, SoundManifests, Sound, Resolves, Retired
    <3>5. HandedOut' /\ Holding'
      BY <2>2, <3>1, <3>2, <3>3 DEF durable, memory, HandedOut, Holding, Below
    <3>6. QED
      BY <3>4, <3>5
  <2>3. QED
    BY <1>1, <2>1, <2>2 DEF PruneLocked
<1>2. CASE PrunePersist
  BY <1>2, PersistRefs DEF PrunePersist
<1>3. CASE PrunePersistFails
  BY <1>3, UnlockRefs DEF PrunePersistFails, PersistFailed, memory, TypeInv, SeqRoom
<1>4. CASE PruneDrop
  BY <1>4, DropRefs DEF PruneDrop
<1>5. CASE PruneHot \/ PruneHotFails \/ PruneRebuild
  BY <1>5, IdleRefs DEF PruneHot, PruneHotFails, PruneRebuild, durable, memory, locals
<1>6. QED
  BY <1>1, <1>2, <1>3, <1>4, <1>5 DEF Prune

\* A rewritten segment has a key no manifest names; the old key is retired.
LEMMA EraseSegmentRefs ==
    ASSUME TypeInv, RefInv, NEW i \in todo, EraseSegment(i) PROVE RefInv'
<1> USE DEF RefInv
<1> DEFINE k == manifest[i].key
           kept == Kept(k, eraser.user)
<1>1. /\ up /\ up' /\ pc = "eraseSegment" /\ pc' = pc
      /\ UNCHANGED <<disk, manifest, garbage>> /\ todo' = todo \ {i}
  BY DEF EraseSegment, TypeInv, SeqRoom
<1>2. /\ Below(KeysOf(manifest), seq) /\ Below(garbage, seq) /\ Below(KeysOf(next), seq)
      /\ Below(drop, seq) /\ drop \cap KeysOf(next) = {} /\ drop \subseteq KeysOf(manifest)
      /\ todo \subseteq DOMAIN manifest /\ Edited /\ Distinct(manifest) /\ Distinct(next)
  BY <1>1 DEF HandedOut, Holding, SoundManifests, Sound
<1>3. CASE UNCHANGED <<blobs, seq, next, drop>>
  BY <1>1, <1>3, IdleRefs DEF EraseSegment
<1>4. CASE /\ next' = Without(next, {i})
           /\ drop' = drop \cup {k}
           /\ UNCHANGED <<blobs, seq>>
  <2>1. KeysOf(next') \subseteq KeysOf(next) /\ Distinct(next') /\ k \in KeysOf(manifest)
    BY <1>2, <1>4, WithoutKeys DEF KeysOf
  <2>2. Edited' /\ k \notin KeysOf(next')
    BY <1>1, <1>2, <1>4 DEF Edited, Without, Restrict, KeysOf, Distinct
  <2>3. SoundManifests' /\ Retired'
    BY <1>1, <1>4, <2>1 DEF SoundManifests, Sound, Resolves, Retired
  <2>4. HandedOut' /\ Holding'
    BY <1>1, <1>2, <1>4, <2>1, <2>2 DEF HandedOut, Holding, Below
  <2>5. QED
    BY <2>3, <2>4
<1>5. CASE /\ blobs' = Write(blobs, seq, kept)
           /\ next' = Write(next, i, Rewritten(i, kept))
           /\ drop' = drop \cup {k}
           /\ seq' = seq + 1
  <2>1. seq \notin KeysOf(manifest) /\ seq \notin garbage /\ seq \notin KeysOf(next) /\ seq \notin drop
    BY <1>2, KeyNumbers, BelowNext
  <2>2. /\ Below(KeysOf(manifest), seq + 1) /\ Below(garbage, seq + 1) /\ Below(drop, seq + 1)
        /\ Below(KeysOf(next) \cup {seq}, seq + 1)
        /\ "lostReply" \notin Faults => Below(KeysOf(disk), seq + 1)
    BY <1>1, <1>2, KeyNumbers, BelowNext, BelowAdd DEF HandedOut
  <2>3. Rewritten(i, kept).key = seq
    BY DEF Rewritten, MetaOf
  <2>4. KeysOf(next') \subseteq KeysOf(next) \cup {seq} /\ Distinct(next') /\ k \in KeysOf(manifest)
    BY <1>2, <1>5, <2>1, <2>3, WriteKeys DEF KeysOf
  <2>5. Edited' /\ k \notin KeysOf(next')
    <3>1. DOMAIN next' = DOMAIN next \cup {i} /\ next'[i].key = seq
          /\ \A j \in DOMAIN next \ {i} : next'[j] = next[j]
      BY <1>5, <2>3 DEF Write
    <3>2. QED
      BY <1>1, <1>2, <1>5, <2>1, <3>1 DEF Edited, KeysOf, Distinct
  <2>6. DOMAIN blobs' = DOMAIN blobs \cup {seq}
    BY <1>5, WriteType
  <2>7. SoundManifests' /\ Retired'
    BY <1>1, <2>1, <2>4, <2>6 DEF SoundManifests, Sound, Resolves, Retired
  <2>8. HandedOut' /\ Holding'
    BY <1>1, <1>2, <1>5, <2>1, <2>2, <2>4, <2>5 DEF HandedOut, Holding, Below
  <2>9. QED
    BY <2>7, <2>8
<1>6. QED
  BY <1>3, <1>4, <1>5 DEF EraseSegment

\* The steps of DeleteUser.
LEMMA DeleteUserRefs == ASSUME TypeInv, RefInv, DeleteUser PROVE RefInv'
<1> USE DEF RefInv
<1>1. ASSUME NEW user \in Users, EraseLocked(user) PROVE RefInv'
  <2>1. /\ up /\ up' /\ pc = "free" /\ pc' = "eraseSegment" /\ next' = manifest /\ drop' = {}
        /\ todo' = DOMAIN manifest
        /\ UNCHANGED <<blobs, disk, manifest, seq, garbage>>
    BY <1>1 DEF EraseLocked, Lock, durable, memory, Holding
  <2>2. SoundManifests' /\ Retired'
    BY <2>1 DEF SoundManifests, Sound, Resolves, Retired
  <2>3. HandedOut' /\ Holding'
    BY <2>1 DEF HandedOut, Holding, Edited, Below
  <2>4. QED
    BY <2>2, <2>3
<1>2. ASSUME NEW i \in todo, EraseSegment(i) PROVE RefInv'
  BY <1>2, EraseSegmentRefs
<1>3. ASSUME NEW i \in todo, EraseSegmentFails(i) PROVE RefInv'
  <2>1. DOMAIN blobs \subseteq DOMAIN blobs'
    BY <1>3 DEF EraseSegmentFails, Write
  <2>2. QED
    BY <1>3, <2>1, UnlockRefs DEF EraseSegmentFails, memory, TypeInv, SeqRoom
<1>4. CASE ErasePersist
  BY <1>4, PersistRefs DEF ErasePersist
<1>5. CASE ErasePersistFails
  BY <1>5, UnlockRefs DEF ErasePersistFails, PersistFailed, memory, TypeInv, SeqRoom
<1>6. CASE EraseDrop
  BY <1>6, DropRefs DEF EraseDrop
<1>7. CASE EraseNoSegment
  BY <1>7, UnlockRefs DEF EraseNoSegment, durable, memory, TypeInv, SeqRoom
<1>8. CASE EraseHot \/ EraseHotFails
  BY <1>8, IdleRefs DEF EraseHot, EraseHotFails, memory, locals
<1>9. QED
  BY <1>1, <1>2, <1>3, <1>4, <1>5, <1>6, <1>7, <1>8 DEF DeleteUser

\* A crash forgets the queue; Open resumes above every stored key.
LEMMA RestartRefs == ASSUME TypeInv, RefInv, Crash \/ Open \/ OfflineScrub PROVE RefInv'
<1> USE DEF RefInv
<1>1. CASE Crash
  BY <1>1, EmptySound
     DEF Crash, Unlock, durable, SoundManifests, Sound, Resolves, Retired, HandedOut, Holding
<1>2. CASE Open
  <2>1. Below(KeysOf(disk), seq') /\ ~up /\ garbage = {} /\ pc = "free"
    BY <1>2 DEF Open, IsNextSeq, Below, KeysOf, HandedOut
  <2>2. QED
    BY <1>2, <2>1
       DEF Open, locals, SoundManifests, Sound, Resolves, Retired, HandedOut, Holding, Below
<1>3. CASE OfflineScrub
  <2>1. KeysOf(disk) \subseteq DOMAIN blobs' /\ manifest = Empty /\ next = Empty /\ ~up
    BY <1>3, DeleteBlobsType
       DEF OfflineScrub, SoundManifests, Sound, Resolves, HandedOut, Holding
  <2>2. SoundManifests' /\ Retired'
    BY <1>3, <2>1, EmptySound
       DEF OfflineScrub, memory, locals, SoundManifests, Sound, Resolves, Retired
  <2>3. HandedOut' /\ Holding'
    BY <1>3, <2>1 DEF OfflineScrub, memory, locals, HandedOut, Holding, Edited
  <2>4. QED
    BY <2>2, <2>3
<1>4. QED
  BY <1>1, <1>2, <1>3

\* The empty store satisfies the invariant.
LEMMA InitRefs == Init => RefInv
BY EmptySound
   DEF Init, RefInv, SoundManifests, Sound, Resolves, Retired, HandedOut, Holding, Below

\* Every step keeps the invariant.
LEMMA NextRefs ==
    ASSUME "clear" \notin Ops, "scrub" \notin Ops
    PROVE  TypeInv /\ RefInv /\ [Next]_vars => RefInv'
<1> SUFFICES ASSUME TypeInv, RefInv, [Next]_vars PROVE RefInv'
  OBVIOUS
<1>1. ASSUME NEW batch \in SUBSET Events, Append(batch) PROVE RefInv'
  BY <1>1, IdleRefs DEF Append, Ingest, IngestUnsynced
<1>2. CASE Flush
  BY <1>2, IdleRefs DEF Flush, Lock, durable, memory
<1>3. CASE Seal \/ Prune \/ DeleteUser
  BY <1>3, SealRefs, PruneRefs, DeleteUserRefs
<1>4. CASE Clear
  BY <1>4 DEF Clear, ClearDrop, ClearPersist, ClearPersistFails, ClearHot, RefInv, Holding
<1>5. ASSUME NEW r \in Readers, Scan(r) PROVE RefInv'
  BY <1>5, IdleRefs
     DEF Scan, ScanBegin, ScanSnapshot, ScanRead, ScanReadFails, ScanEnd, durable, memory, locals
<1>6. CASE Verify
  BY <1>6, IdleRefs
     DEF Verify, VerifyBegin, VerifySnapshot, VerifyRead, VerifyList, durable, memory, locals
<1>7. CASE ScrubSweep
  BY <1>7 DEF ScrubSweep
<1>8. CASE Crash \/ Open \/ OfflineScrub
  BY <1>8, RestartRefs
<1>9. CASE UNCHANGED vars
  BY <1>9, IdleRefs DEF vars, durable, memory, locals
<1>10. QED
  BY <1>1, <1>2, <1>3, <1>4, <1>5, <1>6, <1>7, <1>8, <1>9 DEF Next

-----------------------------------------------------------------------------
\* The theorems.

\* The invariant holds on the way, too: types, references, retired keys.
LEMMA RefInvariant ==
    ASSUME "clear" \notin Ops, "scrub" \notin Ops
    PROVE  Spec => [](TypeInv /\ RefInv)
<1>1. Init => TypeInv /\ RefInv
  BY InitType, InitRefs
<1>2. TypeInv /\ RefInv /\ [Next]_vars => (TypeInv /\ RefInv)'
  BY NextType, NextRefs
<1>3. QED
  BY <1>1, <1>2, PTL DEF Spec

\* Sealing, retention and erasure, with any I/O call failing or losing its
\* reply and a crash anywhere, never leave a manifest naming a segment that
\* is not on the backend.
THEOREM ReferencesResolve ==
    ASSUME "clear" \notin Ops, "scrub" \notin Ops
    PROVE  Spec => []NoDanglingRef
<1>1. RefInv => NoDanglingRef
  BY DEF RefInv, SoundManifests, Sound, NoDanglingRef
<1>2. QED
  BY <1>1, RefInvariant, PTL

\* A key queued for deletion is below every key to come and in no manifest.
THEOREM RetiredForGood ==
    ASSUME "clear" \notin Ops, "scrub" \notin Ops
    PROVE  Spec => []GarbageIsRetired
<1>1. RefInv => GarbageIsRetired
  BY DEF RefInv, Retired, HandedOut, Below, GarbageIsRetired
<1>2. QED
  BY <1>1, RefInvariant, PTL

\* Deleting what was retired and queued keeps every segment the stored
\* manifest names.
LEMMA DropKeeps ==
    ASSUME NEW R, DropBlobs(R), UNCHANGED disk,
           garbage \cap KeysOf(disk) = {}, R \cap KeysOf(disk) = {}, Resolves(disk)
    PROVE  KeepsSegments
BY DropBlobsType DEF KeepsSegments, Resolves

\* A write under a key the stored manifest does not name keeps its segments.
LEMMA WriteKeeps ==
    ASSUME NEW k, NEW v, blobs' = Write(blobs, k, v), k \notin KeysOf(disk)
    PROVE  KeepsSegments
BY DEF KeepsSegments, Write

\* Every step keeps the segments the stored manifest goes on naming.
LEMMA NextKeeps ==
    ASSUME "clear" \notin Ops, "scrub" \notin Ops, "lostReply" \notin Faults
    PROVE  TypeInv /\ RefInv /\ [Next]_vars => [KeepsSegments]_vars
<1> SUFFICES ASSUME TypeInv, RefInv, Next PROVE KeepsSegments
  BY DEF vars
<1> USE DEF RefInv
<1>1. ASSUME UNCHANGED blobs PROVE KeepsSegments
  BY <1>1 DEF KeepsSegments
<1>2. ASSUME up PROVE seq \notin KeysOf(disk)
  BY <1>2, KeyNumbers, BelowNext DEF HandedOut
<1>3. CASE Seal
  <2>1. CASE UNCHANGED blobs
    BY <1>1, <2>1
  <2>2. CASE SealPut
    BY <1>2, <2>2, WriteKeeps DEF SealPut, TypeInv, SeqRoom
  <2>3. QED
    BY <1>3, <2>1, <2>2
       DEF Seal, SealNothing, SealPutFails, SealPersist, SealPersistFails, SealClear, durable
<1>4. CASE Prune
  <2>1. CASE UNCHANGED blobs
    BY <1>1, <2>1
  <2>2. CASE PruneDrop
    BY <2>2, DropKeeps DEF PruneDrop, Retired, Holding, SoundManifests, Sound
  <2>3. QED
    BY <1>4, <2>1, <2>2
       DEF Prune, PruneLocked, PrunePersist, PrunePersistFails, PruneHot, PruneHotFails,
           PruneRebuild, durable
<1>5. CASE DeleteUser
  <2>1. CASE UNCHANGED blobs
    BY <1>1, <2>1
  <2>2. ASSUME NEW i \in todo, EraseSegment(i) PROVE KeepsSegments
    BY <1>1, <1>2, <2>2, WriteKeeps DEF EraseSegment, TypeInv, SeqRoom
  <2>3. CASE EraseDrop
    BY <2>3, DropKeeps DEF EraseDrop, Retired, Holding, SoundManifests, Sound
  <2>4. QED
    BY <1>5, <2>1, <2>2, <2>3
       DEF DeleteUser, EraseLocked, EraseSegmentFails, ErasePersist, ErasePersistFails,
           EraseNoSegment, EraseHot, EraseHotFails, durable
<1>6. CASE Clear \/ ScrubSweep
  BY <1>6 DEF Clear, ClearDrop, ClearPersist, ClearPersistFails, ClearHot, ScrubSweep, Holding
<1>7. CASE OfflineScrub
  BY <1>7, DeleteBlobsType DEF OfflineScrub, KeepsSegments
<1>8. QED
  BY <1>1, <1>3, <1>4, <1>5, <1>6, <1>7
     DEF Next, Append, Ingest, IngestUnsynced, Flush, Scan, ScanBegin, ScanSnapshot, ScanRead,
         ScanReadFails, ScanEnd,
         Verify, VerifyBegin, VerifySnapshot, VerifyRead, VerifyList, Crash, Open, durable

\* As long as no reply of the backend is lost, no step changes the segment
\* under a key that the stored manifest goes on naming.
THEOREM SegmentsImmutable ==
    ASSUME "clear" \notin Ops, "scrub" \notin Ops, "lostReply" \notin Faults
    PROVE  Spec => Immutable
<1>1. TypeInv /\ RefInv /\ [Next]_vars => [KeepsSegments]_vars
  BY NextKeeps
<1>2. QED
  BY <1>1, RefInvariant, PTL DEF Spec, Immutable

-----------------------------------------------------------------------------
\* The sweep of the scrub.

\* What a check calls orphans is nothing its snapshot of the manifest named.
OrphansApart == checker.orphans \cap checker.refs = {}

\* Only the listing names orphans; every other step keeps or forgets them.
LEMMA OrphansStayApart ==
    ASSUME OrphansApart, [Next]_vars
    PROVE  OrphansApart'
<1> USE DEF OrphansApart
<1>1. CASE UNCHANGED checker
  BY <1>1
<1>2. CASE checker'.orphans = {}
  BY <1>2
<1>3. CASE VerifyList
  BY <1>3 DEF VerifyList
<1>4. CASE VerifyBegin \/ VerifySnapshot \/ ScrubSweep \/ Crash
  BY <1>2, <1>4 DEF VerifyBegin, VerifySnapshot, ScrubSweep, Crash, CheckIdle
<1>5. ASSUME NEW meta, VerifyRead(meta) PROVE OrphansApart'
  BY <1>2, <1>5 DEF VerifyRead
<1>6. CASE Seal \/ Prune \/ Flush \/ UNCHANGED vars
  BY <1>1, <1>6
     DEF Seal, SealNothing, SealPut, SealPutFails, SealPersist, SealPersistFails, SealClear, Flush,
         Prune, PruneLocked, PrunePersist, PrunePersistFails, PruneDrop, PruneHot, PruneHotFails,
         PruneRebuild,
         actors, vars
<1>7. CASE DeleteUser \/ Clear
  BY <1>1, <1>7
     DEF DeleteUser, EraseLocked, EraseSegment, EraseSegmentFails, ErasePersist,
         ErasePersistFails, EraseNoSegment, EraseDrop, EraseHot, EraseHotFails,
         Clear, ClearDrop, ClearPersist, ClearPersistFails, ClearHot, actors
<1>8. ASSUME NEW batch \in SUBSET Events, Append(batch) PROVE OrphansApart'
  BY <1>1, <1>8 DEF Append, Ingest, IngestUnsynced, actors
<1>9. ASSUME NEW r \in Readers, Scan(r) PROVE OrphansApart'
  BY <1>1, <1>9 DEF Scan, ScanBegin, ScanSnapshot, ScanRead, ScanReadFails, ScanEnd
<1>10. CASE Open \/ OfflineScrub
  BY <1>1, <1>10 DEF Open, OfflineScrub, actors
<1>11. QED
  BY <1>3, <1>4, <1>5, <1>6, <1>7, <1>8, <1>9, <1>10 DEF Next, Verify

\* A sweep that finds the manifest inside the snapshot its orphans come from,
\* and nothing of the manifest queued, takes no segment the manifest names,
\* with any operation, failure and crash.
LEMMA SweepKeepsManifest ==
    ASSUME OrphansApart, ScrubSweep, KeysOf(manifest) \subseteq checker.refs,
           KeysOf(manifest) \cap garbage = {}, Resolves(manifest)
    PROVE  Resolves(manifest)'
<1>1. KeysOf(manifest) \cap (garbage \cup checker.orphans) = {}
  BY DEF OrphansApart
<1>2. KeysOf(manifest) \subseteq DOMAIN blobs'
  BY <1>1, DropBlobsType DEF ScrubSweep, Resolves
<1>3. manifest' = manifest
  BY DEF ScrubSweep
<1>4. QED
  BY <1>2, <1>3 DEF Resolves, KeysOf

\* A scrub removes no segment the manifest names, unless the manifest gained
\* one since the snapshot or an earlier sweep left one of them queued: no
\* assumption on operations, failures or crashes.
THEOREM QuietScrubKeepsSegments == Spec => QuietScrubIsSafe
<1>1. Init => OrphansApart
  BY DEF Init, OrphansApart, CheckIdle
<1>2. OrphansApart /\ [Next]_vars => OrphansApart'
  BY OrphansStayApart
<1>3. OrphansApart /\ [Next]_vars
      => [ScrubSweep /\ KeysOf(manifest) \subseteq checker.refs
                     /\ KeysOf(manifest) \cap garbage = {} /\ Resolves(manifest)
          => Resolves(manifest)']_vars
  BY SweepKeepsManifest
<1>4. QED
  BY <1>1, <1>2, <1>3, PTL DEF Spec, QuietScrubIsSafe

-----------------------------------------------------------------------------
\* The inductive invariant: entries and names.

\* The entries of m describe the segments of b.
Intact(m, b) == \A i \in DOMAIN m : m[i].key \in DOMAIN b => m[i] = MetaOf(m[i].key, b[m[i].key])

Described == Intact(disk, blobs) /\ Intact(manifest, blobs) /\ Intact(next, blobs)

\* Without lost replies the manifest in memory is the stored one.
InStep == up => disk = manifest

NamesHeld ==
    up => /\ NamesOf(hot \ refused) \subseteq names
          /\ \A k \in (KeysOf(manifest) \cup KeysOf(next)) \cap DOMAIN blobs :
                 NamesOf(blobs[k] \ refused) \subseteq names

ContentInv == Described /\ InStep /\ NamesHeld

-----------------------------------------------------------------------------
\* What one step does to the objects and to the manifests.

\* A step of the store adds an object under the next key only, and changes no other.
LEMMA BlobSteps ==
    ASSUME TypeInv, [Next]_vars, NEW k \in DOMAIN blobs'
    PROVE  \/ k \in DOMAIN blobs /\ blobs'[k] = blobs[k]
           \/ up /\ k = seq /\ pc \in {"sealPut", "eraseSegment"}
<1> DEFINE Added == up /\ k = seq /\ pc \in {"sealPut", "eraseSegment"}
           Same  == k \in DOMAIN blobs /\ blobs'[k] = blobs[k]
<1>1. ASSUME UNCHANGED blobs PROVE Same
  BY <1>1
<1>2. ASSUME NEW R, DropBlobs(R) PROVE Same
  BY <1>2, DropBlobsType
<1>3. ASSUME NEW v, blobs' = Write(blobs, seq, v) PROVE Same \/ k = seq
  BY <1>3 DEF Write
<1>4. pc # "free" => up
  BY DEF TypeInv, SeqRoom
<1>5. CASE Seal
  BY <1>1, <1>3, <1>4, <1>5
     DEF Seal, SealNothing, SealPut, SealPutFails, SealPersist, SealPersistFails, SealClear, durable
<1>6. CASE Prune
  BY <1>1, <1>2, <1>6
     DEF Prune, PruneLocked, PrunePersist, PrunePersistFails, PruneDrop, PruneHot, PruneHotFails,
         PruneRebuild,
         durable
<1>7. CASE DeleteUser
  <2>1. ASSUME NEW i \in todo, EraseSegment(i) PROVE Same \/ Added
    BY <1>1, <1>3, <1>4, <2>1 DEF EraseSegment
  <2>2. ASSUME NEW i \in todo, EraseSegmentFails(i) PROVE Same \/ Added
    BY <1>1, <1>3, <1>4, <2>2 DEF EraseSegmentFails
  <2>3. QED
    BY <1>1, <1>2, <1>7, <2>1, <2>2
       DEF DeleteUser, EraseLocked, ErasePersist, ErasePersistFails, EraseDrop, EraseNoSegment,
           EraseHot, EraseHotFails, durable
<1>8. CASE Clear \/ ScrubSweep
  BY <1>1, <1>2, <1>8 DEF Clear, ClearDrop, ClearPersist, ClearPersistFails, ClearHot, ScrubSweep
<1>9. CASE OfflineScrub
  BY <1>9, DeleteBlobsType DEF OfflineScrub
<1>10. CASE UNCHANGED vars
  BY <1>1, <1>10 DEF vars, durable
<1>11. QED
  BY <1>1, <1>5, <1>6, <1>7, <1>8, <1>9, <1>10
     DEF Next, Append, Ingest, IngestUnsynced, Flush, Scan, ScanBegin, ScanSnapshot, ScanRead,
         ScanReadFails, ScanEnd,
         Verify, VerifyBegin, VerifySnapshot, VerifyRead, VerifyList, Crash, Open, durable

\* The entries of a manifest that does not name the next key stay true of their segments.
LEMMA IntactKept ==
    ASSUME TypeInv, [Next]_vars, NEW m, Intact(m, blobs),
           up /\ pc \in {"sealPut", "eraseSegment"} => seq \notin KeysOf(m)
    PROVE  Intact(m, blobs')
BY BlobSteps DEF Intact, KeysOf

\* A written entry describes the segment written with it.
LEMMA IntactWrite ==
    ASSUME NEW m, NEW b, NEW i, NEW k, NEW S, Intact(m, b), k \notin KeysOf(m)
    PROVE  Intact(Write(m, i, MetaOf(k, S)), Write(b, k, S))
BY DEF Intact, Write, KeysOf, MetaOf

\* With entries removed, the others describe their segments.
LEMMA IntactWithout ==
    ASSUME NEW m, NEW b, NEW S, Intact(m, b)
    PROVE  Intact(Without(m, S), b)
BY DEF Intact, Without, Restrict

\* The empty manifest describes every segment it has.
LEMMA IntactEmpty == \A b : Intact(Empty, b)
BY DEF Intact, Empty

\* The manifests move together: a handler persists the one it prepared, a crash forgets
\* the one in memory, Open reads it back.
LEMMA ManifestSteps ==
    ASSUME "clear" \notin Ops, "lostReply" \notin Faults, TypeInv, RefInv, [Next]_vars
    PROVE  \/ UNCHANGED <<disk, manifest, up>>
           \/ disk' = next /\ manifest' = next /\ UNCHANGED <<blobs, up, next, hot, names>>
           \/ disk' = disk /\ manifest' = Empty /\ next' = Empty /\ ~up' /\ UNCHANGED blobs
           \/ Open
<1>1. CASE Seal
  BY <1>1 DEF Seal, SealNothing, SealPut, SealPutFails, SealPersist, SealPersistFails, SealClear,
              PersistFailed, Persisted, durable, memory
<1>2. CASE Prune
  BY <1>2 DEF Prune, PruneLocked, PrunePersist, PrunePersistFails, PruneDrop, PruneHot,
              PruneHotFails,
              PruneRebuild, PersistFailed, Persisted, durable, memory
<1>3. CASE DeleteUser
  BY <1>3 DEF DeleteUser, EraseLocked, EraseSegment, EraseSegmentFails, ErasePersist,
              ErasePersistFails, EraseDrop, EraseNoSegment, EraseHot, EraseHotFails,
              PersistFailed, Persisted,
              durable, memory
<1>4. CASE Clear
  BY <1>4 DEF Clear, ClearDrop, ClearPersist, ClearPersistFails, ClearHot, RefInv, Holding
<1>5. CASE Crash
  BY <1>5 DEF Crash, Unlock, durable
<1>6. CASE UNCHANGED vars
  BY <1>6 DEF vars, durable, memory
<1>7. QED
  BY <1>1, <1>2, <1>3, <1>4, <1>5, <1>6
     DEF Next, Append, Ingest, IngestUnsynced, Flush, Scan, ScanBegin, ScanSnapshot, ScanRead,
         ScanReadFails, ScanEnd,
         Verify, VerifyBegin, VerifySnapshot, VerifyRead, VerifyList, ScrubSweep, OfflineScrub,
         durable, memory

\* The manifest a handler prepares loses entries, or gains the entry of the segment that is
\* written with it.
LEMMA NextManifestSteps ==
    ASSUME "clear" \notin Ops, TypeInv, RefInv, [Next]_vars
    PROVE  \/ next' \in {next, Empty, manifest}
           \/ \E S : next' = Without(manifest, S) \/ next' = Without(next, S)
           \/ /\ pc = "sealPut" /\ up
              /\ next' = Write(manifest, seq, MetaOf(seq, hot))
              /\ blobs' = Write(blobs, seq, hot)
           \/ /\ pc = "eraseSegment" /\ up
              /\ \E i \in DOMAIN manifest : \E S \in SUBSET Content(manifest[i].key) :
                    /\ next' = Write(next, i, MetaOf(seq, S)) /\ blobs' = Write(blobs, seq, S)
<1>1. pc # "free" => up
  BY DEF TypeInv, SeqRoom
<1>2. CASE Seal
  BY <1>1, <1>2
     DEF Seal, SealNothing, SealPut, SealPutFails, SealPersist, SealPersistFails, SealClear,
         Unlock, locals
<1>3. CASE Prune
  BY <1>3 DEF Prune, PruneLocked, PrunePersist, PrunePersistFails, PruneDrop, PruneHot,
              PruneHotFails,
              PruneRebuild, Unlock, locals
<1>4. CASE DeleteUser
  <2>1. ASSUME NEW user \in Users, EraseLocked(user) PROVE next' = manifest
    BY <2>1 DEF EraseLocked
  <2>2. ASSUME NEW i \in todo, EraseSegment(i)
        PROVE  \/ next' = next
               \/ next' = Without(next, {i})
               \/ /\ pc = "eraseSegment" /\ up
                  /\ i \in DOMAIN manifest
                  /\ \E S \in SUBSET Content(manifest[i].key) :
                        /\ next' = Write(next, i, MetaOf(seq, S)) /\ blobs' = Write(blobs, seq, S)
    <3>1. i \in DOMAIN manifest
      BY <2>2 DEF EraseSegment, RefInv, Holding
    <3>2. Kept(manifest[i].key, eraser.user) \subseteq Content(manifest[i].key)
      BY <2>2 DEF EraseSegment, Kept, Content
    <3>3. QED
      BY <1>1, <2>2, <3>1, <3>2 DEF EraseSegment, Rewritten
  <2>3. QED
    BY <1>4, <2>1, <2>2
       DEF DeleteUser, EraseSegmentFails, ErasePersist, ErasePersistFails, EraseDrop,
           EraseNoSegment, EraseHot, EraseHotFails, Unlock, locals
<1>5. CASE Clear
  BY <1>5 DEF Clear, ClearDrop, ClearPersist, ClearPersistFails, ClearHot, RefInv, Holding
<1>6. CASE UNCHANGED vars
  BY <1>6 DEF vars, locals
<1>7. QED
  BY <1>2, <1>3, <1>4, <1>5, <1>6
     DEF Next, Append, Ingest, IngestUnsynced, Flush, Scan, ScanBegin, ScanSnapshot, ScanRead,
         ScanReadFails, ScanEnd,
         Verify, VerifyBegin, VerifySnapshot, VerifyRead, VerifyList, ScrubSweep, Crash, Open,
         OfflineScrub, Unlock, locals

\* Where a segment is written no manifest names its key.
LEMMA FreshKey ==
    ASSUME "lostReply" \notin Faults, TypeInv, RefInv, up, pc \in {"sealPut", "eraseSegment"}
    PROVE  seq \notin KeysOf(disk) /\ seq \notin KeysOf(manifest) /\ seq \notin KeysOf(next)
BY KeyNumbers, BelowNext, EmptySound DEF RefInv, HandedOut, Holding

\* Every step keeps the entries true of their segments.
LEMMA NextDescribed ==
    ASSUME "clear" \notin Ops, "lostReply" \notin Faults, TypeInv, RefInv, Described, InStep,
           [Next]_vars
    PROVE  Described' /\ InStep'
<1>1. Intact(disk, blobs') /\ Intact(manifest, blobs') /\ Intact(next, blobs')
  BY FreshKey, IntactKept DEF Described
<1>2. Intact(next', blobs')
  <2>1. CASE next' \in {next, Empty, manifest}
    BY <1>1, <2>1, IntactEmpty
  <2>2. CASE \E S : next' = Without(manifest, S) \/ next' = Without(next, S)
    BY <1>1, <2>2, IntactWithout
  <2>3. CASE /\ pc = "sealPut" /\ up
             /\ next' = Write(manifest, seq, MetaOf(seq, hot))
             /\ blobs' = Write(blobs, seq, hot)
    BY <2>3, FreshKey, IntactWrite DEF Described
  <2>4. CASE /\ pc = "eraseSegment" /\ up
             /\ \E i, S : next' = Write(next, i, MetaOf(seq, S)) /\ blobs' = Write(blobs, seq, S)
    BY <2>4, FreshKey, IntactWrite DEF Described
  <2>5. QED
    BY <2>1, <2>2, <2>3, <2>4, NextManifestSteps
<1>3. Intact(disk', blobs') /\ Intact(manifest', blobs') /\ InStep'
  <2>1. CASE UNCHANGED <<disk, manifest, up>>
    BY <1>1, <2>1 DEF InStep
  <2>2. CASE disk' = next /\ manifest' = next
    BY <1>1, <2>2 DEF InStep
  <2>3. CASE disk' = disk /\ manifest' = Empty /\ ~up'
    BY <1>1, <2>3, IntactEmpty DEF InStep
  <2>4. CASE Open
    BY <1>1, <2>4 DEF InStep, Open
  <2>5. QED
    BY <2>1, <2>2, <2>3, <2>4, ManifestSteps
<1>4. QED
  BY <1>2, <1>3 DEF Described

\* The names of a manifest cover the segments its entries describe.
LEMMA RebuiltCover ==
    ASSUME NEW m, Intact(m, blobs)
    PROVE  /\ NamesOf(hot) \subseteq RebuiltNames(m)
           /\ \A k \in KeysOf(m) \cap DOMAIN blobs : NamesOf(blobs[k]) \subseteq RebuiltNames(m)
BY DEF Intact, RebuiltNames, ManifestNames, KeysOf, MetaOf

\* A batch's names are noted; what else the hot block gains is refused.
Noted(batch) ==
    /\ names' = names \cup NamesOf(batch)
    /\ hot' \ refused' \subseteq (hot \ refused) \cup batch
    /\ refused \ batch \subseteq refused'

\* The cached names grow with what the hot block accepts, or are rebuilt from a manifest.
LEMMA NamesSteps ==
    ASSUME "clear" \notin Ops, TypeInv, RefInv, [Next]_vars
    PROVE  \/ \E batch : Noted(batch)
           \/ names' = RebuiltNames(manifest) /\ hot' = hot /\ manifest' = manifest /\ next' = Empty
           \/ Open
           \/ ~up'
<1> DEFINE Quiet == names' = names /\ hot' \subseteq hot /\ refused' = refused
           Rebuilt == /\ names' = RebuiltNames(manifest) /\ hot' = hot
                      /\ manifest' = manifest /\ next' = Empty
<1>1. ASSUME Seal PROVE Quiet
  BY <1>1 DEF Seal, SealNothing, SealPut, SealPutFails, SealPersist, SealPersistFails, SealClear,
              durable, memory, ghosts
<1>2. ASSUME Prune PROVE Quiet \/ Rebuilt
  <2>1. CASE PruneHot
    BY <2>1 DEF PruneHot, Recent, memory, ghosts
  <2>2. CASE PruneHotFails
    BY <2>2 DEF PruneHotFails, memory, ghosts
  <2>3. CASE PruneRebuild
    BY <2>3 DEF PruneRebuild, durable, locals, RefInv, Holding
  <2>4. QED
    BY <1>2, <2>1, <2>2, <2>3
       DEF Prune, PruneLocked, PrunePersist, PrunePersistFails, PruneDrop, durable, memory, ghosts
<1>3. ASSUME DeleteUser PROVE Quiet \/ Rebuilt
  <2>1. CASE EraseHot
    BY <2>1 DEF EraseHot, memory
  <2>2. CASE EraseHotFails
    BY <2>2 DEF EraseHotFails, memory, ghosts
  <2>3. CASE EraseDrop
    BY <2>3 DEF EraseDrop, Unlock
  <2>4. QED
    BY <1>3, <2>1, <2>2, <2>3
       DEF DeleteUser, EraseLocked, EraseSegment, EraseSegmentFails, ErasePersist,
           ErasePersistFails, EraseNoSegment, durable, memory, ghosts
<1>4. ASSUME Clear PROVE FALSE
  BY <1>4 DEF Clear, ClearDrop, ClearPersist, ClearPersistFails, ClearHot, RefInv, Holding
<1>5. ASSUME NEW batch \in SUBSET Events, Append(batch)
      PROVE  Noted(batch) \/ Noted({})
  <2>1. CASE Ingest(batch)
    BY <2>1 DEF Ingest, Noted
  <2>2. CASE IngestUnsynced(batch)
    <3>1. names' = names \cup NamesOf({})
      BY <2>2 DEF IngestUnsynced, NamesOf
    <3>2. QED
      BY <2>2, <3>1 DEF IngestUnsynced, Noted
  <2>3. QED
    BY <1>5, <2>1, <2>2 DEF Append
<1>6. ASSUME OfflineScrub PROVE Quiet
  BY <1>6 DEF OfflineScrub, Recovered, memory, ghosts
<1>7. ASSUME UNCHANGED vars PROVE Quiet
  BY <1>7 DEF vars, durable, memory, ghosts
<1>8. Quiet => Noted({})
  BY DEF Noted, NamesOf
<1>9. (\E batch \in SUBSET Events : Append(batch)) \/ Quiet \/ Rebuilt \/ Open \/ ~up'
  <2> HIDE DEF Rebuilt
  <2>1. QED
    BY <1>1, <1>2, <1>3, <1>4, <1>6, <1>7
       DEF Next, Flush, Scan, ScanBegin, ScanSnapshot, ScanRead, ScanReadFails, ScanEnd,
           Verify, VerifyBegin, VerifySnapshot, VerifyRead, VerifyList, ScrubSweep, Crash,
           durable, memory, ghosts
<1>10. QED
  BY <1>5, <1>8, <1>9

\* A key a manifest is about to name, or goes on naming, holds what held names cover.
LEMMA NamedContents ==
    ASSUME "clear" \notin Ops, "lostReply" \notin Faults, TypeInv, RefInv, NamesHeld, up, up',
           [Next]_vars, NEW k \in (KeysOf(manifest') \cup KeysOf(next')) \cap DOMAIN blobs'
    PROVE  NamesOf(blobs'[k] \ refused) \subseteq names
<1>1. ASSUME k \in KeysOf(manifest) \cup KeysOf(next)
      PROVE  NamesOf(blobs'[k] \ refused) \subseteq names
  BY <1>1, BlobSteps, FreshKey DEF NamesHeld
<1>2. KeysOf(manifest') \subseteq KeysOf(manifest) \cup KeysOf(next)
  BY ManifestSteps, EmptySound DEF Open
<1>3. CASE k \in KeysOf(next')
  <2>1. CASE next' \in {next, Empty, manifest}
    BY <1>1, <1>3, <2>1, EmptySound
  <2>2. CASE \E S : next' = Without(manifest, S) \/ next' = Without(next, S)
    BY <1>1, <1>3, <2>2, WithoutKeys
  <2>3. CASE /\ next' = Write(manifest, seq, MetaOf(seq, hot))
             /\ blobs' = Write(blobs, seq, hot)
    <3>1. k \in KeysOf(manifest) \/ k = seq
      BY <1>3, <2>3, WriteKeys DEF MetaOf
    <3>2. QED
      BY <1>1, <2>3, <3>1 DEF NamesHeld, Write
  <2>4. CASE \E i \in DOMAIN manifest : \E S \in SUBSET Content(manifest[i].key) :
                /\ next' = Write(next, i, MetaOf(seq, S)) /\ blobs' = Write(blobs, seq, S)
    <3>1. PICK i \in DOMAIN manifest : \E S \in SUBSET Content(manifest[i].key) :
                next' = Write(next, i, MetaOf(seq, S)) /\ blobs' = Write(blobs, seq, S)
      BY <2>4
    <3> PICK S \in SUBSET Content(manifest[i].key) :
                next' = Write(next, i, MetaOf(seq, S)) /\ blobs' = Write(blobs, seq, S)
      BY <3>1
    <3>2. k \in KeysOf(next) \/ k = seq
      BY <1>3, <3>1, WriteKeys DEF MetaOf
    <3>3. NamesOf(S \ refused) \subseteq names
      BY <3>1 DEF NamesHeld, Content, KeysOf, NamesOf
    <3>4. QED
      BY <1>1, <3>1, <3>2, <3>3 DEF Write
  <2>5. QED
    BY <2>1, <2>2, <2>3, <2>4, NextManifestSteps
<1>4. QED
  BY <1>1, <1>2, <1>3

\* Every step keeps the names over everything held.
LEMMA NextNames ==
    ASSUME "clear" \notin Ops, "lostReply" \notin Faults, TypeInv, RefInv, Described, NamesHeld,
           [Next]_vars
    PROVE  NamesHeld'
<1>1. ASSUME NEW batch, Noted(batch), up, up' PROVE NamesHeld'
  <2>1. NamesOf(hot' \ refused') \subseteq names'
    BY <1>1 DEF NamesHeld, Noted, NamesOf
  <2>2. ASSUME NEW k \in (KeysOf(manifest') \cup KeysOf(next')) \cap DOMAIN blobs'
        PROVE  NamesOf(blobs'[k] \ refused') \subseteq names'
    BY <1>1, <2>2, NamedContents DEF Noted, NamesOf
  <2>3. QED
    BY <2>1, <2>2 DEF NamesHeld
<1>3. CASE names' = RebuiltNames(manifest) /\ hot' = hot /\ manifest' = manifest /\ next' = Empty
  BY <1>3, RebuiltCover, BlobSteps, FreshKey, EmptySound DEF NamesHeld, Described, NamesOf
<1>4. CASE Open
  <2>1. /\ manifest' = disk /\ names' = RebuiltNames(disk) /\ UNCHANGED blobs /\ hot' \subseteq hot
        /\ next' = Empty
    BY <1>4 DEF Open, Recovered, locals, RefInv, HandedOut, Holding
  <2>2. QED
    BY <2>1, RebuiltCover, EmptySound DEF NamesHeld, Described, NamesOf
<1>5. up' => up \/ Open
  BY ManifestSteps
<1>6. QED
  BY <1>1, <1>3, <1>4, <1>5, NamesSteps DEF NamesHeld
-----------------------------------------------------------------------------
\* The inductive invariant: queries and health checks.

\* What a query has and what it has still to read make up what it should answer, and
\* the segments it has still to read stay where they are.
ReaderSound(scan) ==
    /\ scan.stage # "missing"
    /\ scan.stage \in {"begun", "reading"} => up
    /\ scan.stage = "reading" =>
           /\ scan.todo \subseteq DOMAIN blobs /\ Below(scan.todo, seq)
           /\ scan.want = scan.got \cup UNION {InWindow(blobs[k], scan.window) : k \in scan.todo}
    /\ scan.stage = "done" => scan.got = scan.want

ScanInv == \A r \in Readers : ReaderSound(reader[r])

\* The entries a check has still to look at are true of their segments.
CheckInv ==
    /\ checker.stage \in {"begun", "checking"} => up
    /\ checker.stage = "checking" =>
           \A meta \in checker.entries :
               /\ meta.key < seq /\ meta.key \in DOMAIN blobs
               /\ meta = MetaOf(meta.key, blobs[meta.key])
    /\ "get" \notin Faults => ~checker.problem


-----------------------------------------------------------------------------
\* Bounds of an index entry, and what a query may skip.

\* An index entry counts its segment's events and bounds their times.
LEMMA MetaBounds ==
    ASSUME NEW k, NEW S \in SUBSET Events, NEW e \in S
    PROVE  MetaOf(k, S).min <= e.ts /\ e.ts <= MetaOf(k, S).max
<1>1. Times(S) \in SUBSET Nat /\ Times(S) # {} /\ e.ts \in Times(S)
  BY EventsAssumption DEF Times
<1>2. \E t \in Times(S) : IsMin(t, Times(S))
  BY <1>1, LeastNat DEF IsMin
<1>3. \E t \in Times(S) : IsMax(t, Times(S))
  BY <1>1, LatestEvent DEF IsMax, Times
<1>4. IsMin(CHOOSE t \in Times(S) : IsMin(t, Times(S)), Times(S))
  BY <1>2
<1>5. IsMax(CHOOSE t \in Times(S) : IsMax(t, Times(S)), Times(S))
  BY <1>3
<1>6. QED
  BY <1>1, <1>4, <1>5 DEF MetaOf, IsMin, IsMax

\* A segment whose entry does not overlap a window has no event of it.
LEMMA SkippedIsOutside ==
    ASSUME NEW k, NEW S \in SUBSET Events, NEW w \in Nat \X Nat, ~Overlaps(MetaOf(k, S), w)
    PROVE  InWindow(S, w) = {}
<1> SUFFICES ASSUME NEW e \in S, w[1] <= e.ts, e.ts < w[2] PROVE FALSE
  BY DEF InWindow
<1> DEFINE meta == MetaOf(k, S)
<1>1. meta.min \in Nat /\ meta.max \in Nat /\ w[1] \in Nat /\ w[2] \in Nat /\ e.ts \in Nat
  <2>1. Times(S) \in SUBSET Nat /\ Times(S) # {} /\ e.ts \in Nat
    BY EventsAssumption DEF Times
  <2>2. \E t \in Times(S) : IsMin(t, Times(S))
    BY <2>1, LeastNat DEF IsMin
  <2>3. \E t \in Times(S) : IsMax(t, Times(S))
    BY LatestEvent DEF IsMax, Times
  <2>4. QED
    BY <2>1, <2>2, <2>3 DEF MetaOf
<1>2. meta.min <= e.ts /\ e.ts <= meta.max
  BY MetaBounds
<1>3. ~(meta.max >= w[1] /\ meta.min < w[2])
  BY DEF Overlaps
<1> HIDE DEF meta
<1>4. QED
  BY <1>1, <1>2, <1>3

\* The hot block and the overlapping segments hold every event of the window.
LEMMA WindowParts ==
    ASSUME TypeInv, RefInv, Described, up, NEW w \in Nat \X Nat
    PROVE  InWindow(Held, w) =
               HotPart(w) \cup UNION {InWindow(blobs[k], w) : k \in ToRead(manifest, w)}
<1>1. ToRead(manifest, w) \subseteq DOMAIN blobs /\ KeysOf(manifest) \subseteq DOMAIN blobs
  BY DEF RefInv, SoundManifests, Sound, Resolves, ToRead, KeysOf
<1>2. ASSUME NEW e \in InWindow(Held, w)
      PROVE  e \in HotPart(w) \cup UNION {InWindow(blobs[k], w) : k \in ToRead(manifest, w)}
  <2>1. CASE e \in hot
    BY <1>2, <2>1 DEF InWindow, HotPart
  <2>2. CASE e \in Cold(manifest)
    <3>1. PICK i \in DOMAIN manifest : e \in blobs[manifest[i].key]
      BY <1>1, <2>2 DEF Cold, Content, KeysOf
    <3>2. manifest[i].key \in DOMAIN blobs /\ blobs[manifest[i].key] \subseteq Events
      BY <1>1 DEF KeysOf, TypeInv, TypeOK, TypeDurable
    <3>3. manifest[i] = MetaOf(manifest[i].key, blobs[manifest[i].key])
      BY <3>2 DEF Described, Intact
    <3>4. e \in InWindow(blobs[manifest[i].key], w)
      BY <1>2, <3>1 DEF InWindow
    <3>5. Overlaps(manifest[i], w)
      BY <3>2, <3>3, <3>4, SkippedIsOutside
    <3>6. QED
      BY <3>4, <3>5 DEF ToRead
  <2>3. QED
    BY <1>2, <2>1, <2>2 DEF Held, InWindow
<1>3. ASSUME NEW k \in ToRead(manifest, w), NEW e \in InWindow(blobs[k], w)
      PROVE  e \in InWindow(Held, w)
  BY <1>1, <1>3 DEF ToRead, InWindow, Held, Cold, Content, KeysOf
<1>4. HotPart(w) \subseteq InWindow(Held, w)
  BY DEF HotPart, InWindow, Held
<1>5. QED
  BY <1>2, <1>3, <1>4

-----------------------------------------------------------------------------
\* What a registered scan may rely on.

\* While the process lives, sequence numbers only grow.
LEMMA SeqSteps ==
    ASSUME TypeInv, [Next]_vars, up, up'
    PROVE  seq' = seq \/ seq' = seq + 1
<1>1. CASE Seal
  BY <1>1 DEF Seal, SealNothing, SealPut, SealPutFails, SealPersist, SealPersistFails, SealClear,
              memory
<1>2. CASE Prune
  BY <1>2 DEF Prune, PruneLocked, PrunePersist, PrunePersistFails, PruneDrop, PruneHot,
              PruneHotFails,
              PruneRebuild, memory
<1>3. CASE DeleteUser
  BY <1>3 DEF DeleteUser, EraseLocked, EraseSegment, EraseSegmentFails, ErasePersist,
              ErasePersistFails, EraseDrop, EraseNoSegment, EraseHot, EraseHotFails, memory
<1>4. CASE Clear
  BY <1>4 DEF Clear, ClearDrop, ClearPersist, ClearPersistFails, ClearHot, memory
<1>5. CASE UNCHANGED vars
  BY <1>5 DEF vars, memory
<1>6. QED
  BY <1>1, <1>2, <1>3, <1>4, <1>5
     DEF Next, Append, Ingest, IngestUnsynced, Flush, Scan, ScanBegin, ScanSnapshot, ScanRead,
         ScanReadFails, ScanEnd,
         Verify, VerifyBegin, VerifySnapshot, VerifyRead, VerifyList, ScrubSweep, Crash, Open,
         OfflineScrub, memory

\* What is below the next key stays below it.
LEMMA BelowKept ==
    ASSUME TypeInv, [Next]_vars, up, up', NEW k \in Nat, k < seq
    PROVE  k < seq'
BY SeqSteps, KeyNumbers

\* While a scan is registered no object below the next key goes or changes.
LEMMA ScanProtects ==
    ASSUME TypeInv, [Next]_vars, up, Scanning, NEW k \in DOMAIN blobs, k # seq
    PROVE  k \in DOMAIN blobs' /\ blobs'[k] = blobs[k]
<1> DEFINE Same == k \in DOMAIN blobs' /\ blobs'[k] = blobs[k]
<1>1. ASSUME UNCHANGED blobs PROVE Same
  BY <1>1
<1>2. ASSUME NEW R, DropBlobs(R) PROVE Same
  BY <1>2 DEF DropBlobs
<1>3. ASSUME NEW v, blobs' = Write(blobs, seq, v) PROVE Same
  BY <1>3 DEF Write
<1>4. CASE Seal
  BY <1>1, <1>3, <1>4
     DEF Seal, SealNothing, SealPut, SealPutFails, SealPersist, SealPersistFails, SealClear, durable
<1>5. CASE Prune
  BY <1>1, <1>2, <1>5
     DEF Prune, PruneLocked, PrunePersist, PrunePersistFails, PruneDrop, PruneHot, PruneHotFails,
         PruneRebuild,
         durable
<1>6. CASE DeleteUser
  <2>1. ASSUME NEW i \in todo, EraseSegment(i) PROVE Same
    BY <1>1, <1>3, <2>1 DEF EraseSegment
  <2>2. ASSUME NEW i \in todo, EraseSegmentFails(i) PROVE Same
    BY <1>1, <1>3, <2>2 DEF EraseSegmentFails
  <2>3. QED
    BY <1>1, <1>2, <1>6, <2>1, <2>2
       DEF DeleteUser, EraseLocked, ErasePersist, ErasePersistFails, EraseDrop, EraseNoSegment,
           EraseHot, EraseHotFails, durable
<1>7. CASE Clear \/ ScrubSweep
  BY <1>1, <1>2, <1>7 DEF Clear, ClearDrop, ClearPersist, ClearPersistFails, ClearHot, ScrubSweep
<1>8. CASE UNCHANGED vars
  BY <1>1, <1>8 DEF vars, durable
<1>9. QED
  BY <1>1, <1>4, <1>5, <1>6, <1>7, <1>8
     DEF Next, Append, Ingest, IngestUnsynced, Flush, Scan, ScanBegin, ScanSnapshot, ScanRead,
         ScanReadFails, ScanEnd,
         Verify, VerifyBegin, VerifySnapshot, VerifyRead, VerifyList, Crash, Open, OfflineScrub,
         durable

\* A step outside a scan leaves it as it is, or ends it with the process.
LEMMA OtherReaders ==
    ASSUME TypeInv, [Next]_vars, NEW r \in Readers, ~Scan(r)
    PROVE  (reader'[r] = reader[r] /\ (up => up')) \/ reader'[r] = ScanIdle
<1>1. CASE Seal
  BY <1>1 DEF Seal, SealNothing, SealPut, SealPutFails, SealPersist, SealPersistFails, SealClear,
              actors
<1>2. CASE Prune
  BY <1>2 DEF Prune, PruneLocked, PrunePersist, PrunePersistFails, PruneDrop, PruneHot,
              PruneHotFails,
              PruneRebuild, actors
<1>3. CASE DeleteUser
  BY <1>3 DEF DeleteUser, EraseLocked, EraseSegment, EraseSegmentFails, ErasePersist,
              ErasePersistFails, EraseDrop, EraseNoSegment, EraseHot, EraseHotFails, actors
<1>4. CASE Clear
  BY <1>4 DEF Clear, ClearDrop, ClearPersist, ClearPersistFails, ClearHot, actors
<1>5. ASSUME NEW s \in Readers, s # r, Scan(s) PROVE reader'[r] = reader[r] /\ UNCHANGED up
  <2>1. reader \in [Readers -> Scans]
    BY DEF TypeInv, TypeOK, TypeActors, Scans
  <2>2. QED
    BY <1>5, <2>1 DEF Scan, ScanBegin, ScanSnapshot, ScanRead, ScanReadFails, ScanEnd
<1>6. CASE UNCHANGED vars
  BY <1>6 DEF vars, actors
<1>7. QED
  BY <1>1, <1>2, <1>3, <1>4, <1>5, <1>6
     DEF Next, Append, Ingest, IngestUnsynced, Flush, Verify, VerifyBegin, VerifySnapshot,
         VerifyRead, VerifyList,
         ScrubSweep, Crash, Open, OfflineScrub, actors

\* A query in progress keeps what it has to read.
LEMMA WaitingReader ==
    ASSUME TypeInv, [Next]_vars, NEW r \in Readers, ReaderSound(reader[r]),
           reader'[r] = reader[r], up => up'
    PROVE  ReaderSound(reader[r])'
<1> DEFINE scan == reader[r]
<1>1. CASE scan.stage # "reading"
  BY <1>1 DEF ReaderSound
<1>2. CASE scan.stage = "reading"
  <2>1. up /\ up' /\ Scanning /\ scan.todo \subseteq DOMAIN blobs /\ Below(scan.todo, seq)
    BY <1>2 DEF ReaderSound, Scanning
  <2>2. scan.todo \subseteq Nat
    BY KeysFinite DEF TypeInv, TypeOK, TypeActors
  <2>3. \A k \in scan.todo : k \in DOMAIN blobs' /\ blobs'[k] = blobs[k] /\ k < seq'
    BY <2>1, <2>2, ScanProtects, BelowKept, KeyNumbers DEF Below
  <2>4. QED
    BY <1>2, <2>1, <2>3 DEF ReaderSound, Below
<1>3. QED
  BY <1>1, <1>2

\* The steps of a query.
LEMMA ScanSteps ==
    ASSUME TypeInv, RefInv, Described, NEW r \in Readers, ReaderSound(reader[r]), Scan(r)
    PROVE  ReaderSound(reader[r])'
<1>1. reader \in [Readers -> Scans] /\ UNCHANGED <<blobs, seq, up>>
  BY DEF TypeInv, TypeOK, TypeActors, Scans, Scan, ScanBegin, ScanSnapshot, ScanRead,
         ScanReadFails, ScanEnd, durable, memory
<1>2. ASSUME NEW w \in Windows, ScanBegin(r, w) PROVE ReaderSound(reader[r])'
  BY <1>1, <1>2 DEF ScanBegin, ReaderSound
<1>3. CASE ScanSnapshot(r)
  <2> DEFINE w == reader[r].window
  <2>1. up /\ w \in Nat \X Nat
    BY <1>1, <1>3 DEF ScanSnapshot, ReaderSound, Scans
  <2>2. ToRead(manifest, w) \subseteq DOMAIN blobs /\ Below(ToRead(manifest, w), seq)
    BY <2>1 DEF RefInv, SoundManifests, Sound, Resolves, HandedOut, ToRead, KeysOf, Below
  <2>3. InWindow(Held, w) =
            HotPart(w) \cup UNION {InWindow(blobs[k], w) : k \in ToRead(manifest, w)}
    BY <2>1, WindowParts
  <2>4. reader'[r] = [stage |-> "reading", todo |-> ToRead(manifest, w), got |-> HotPart(w),
                      want |-> InWindow(Held, w), window |-> w]
    BY <1>1, <1>3 DEF ScanSnapshot
  <2> HIDE DEF w
  <2>5. QED
    BY <1>1, <2>1, <2>2, <2>3, <2>4 DEF ReaderSound
<1>4. ASSUME NEW k \in reader[r].todo, ScanRead(r, k) PROVE ReaderSound(reader[r])'
  <2>1. k \in DOMAIN blobs /\ reader[r].stage = "reading"
    BY <1>4 DEF ScanRead, ReaderSound
  <2>2. reader'[r] = [stage |-> "reading", todo |-> reader[r].todo \ {k},
                      got |-> reader[r].got \cup InWindow(blobs[k], reader[r].window),
                      want |-> reader[r].want, window |-> reader[r].window]
    BY <1>1, <1>4, <2>1 DEF ScanRead, Content
  <2>3. QED
    BY <1>1, <2>1, <2>2 DEF ReaderSound, Below
<1>5. CASE ScanReadFails(r)
  BY <1>1, <1>5 DEF ScanReadFails, ReaderSound, ScanIdle
<1>6. CASE ScanEnd(r)
  <2>1. /\ reader[r].stage = "reading" /\ reader[r].todo = {} /\ reader'[r].stage = "done"
        /\ reader'[r].got = reader[r].got /\ reader'[r].want = reader[r].want
    BY <1>1, <1>6 DEF ScanEnd, Scans
  <2>2. reader[r].want = reader[r].got
    BY <2>1 DEF ReaderSound
  <2>3. QED
    BY <2>1, <2>2 DEF ReaderSound
<1>7. QED
  BY <1>2, <1>3, <1>4, <1>5, <1>6 DEF Scan

\* Every step keeps what every query relies on.
LEMMA NextScan ==
    ASSUME TypeInv, RefInv, Described, ScanInv, [Next]_vars
    PROVE  ScanInv'
<1> SUFFICES ASSUME NEW r \in Readers PROVE ReaderSound(reader[r])'
  BY DEF ScanInv
<1>1. CASE Scan(r)
  BY <1>1, ScanSteps DEF ScanInv
<1>2. CASE reader'[r] = ScanIdle
  BY <1>2 DEF ReaderSound, ScanIdle
<1>3. QED
  BY <1>1, <1>2, OtherReaders, WaitingReader DEF ScanInv

-----------------------------------------------------------------------------
\* What a health check may rely on.

\* A segment is healthy when its entry describes it.
LEMMA DescribedIsHealthy ==
    ASSUME TypeInv, NEW k \in DOMAIN blobs
    PROVE  Healthy(MetaOf(k, blobs[k]))
<1>1. blobs[k] \subseteq Events
  BY DEF TypeInv, TypeOK, TypeDurable
<1>2. \A e \in blobs[k] : /\ MetaOf(k, blobs[k]).min <= e.ts
                          /\ e.ts <= MetaOf(k, blobs[k]).max
  BY <1>1, MetaBounds
<1>3. MetaOf(k, blobs[k]).key = k /\ MetaOf(k, blobs[k]).count = Cardinality(blobs[k])
  BY DEF MetaOf
<1>4. QED
  BY <1>2, <1>3 DEF Healthy

\* A step outside a check leaves it as it is, or ends it.
LEMMA OtherSteps ==
    ASSUME TypeInv, [Next]_vars, ~Verify
    PROVE  (checker' = checker /\ (up => up')) \/ checker' = CheckIdle
<1>1. CASE Seal
  BY <1>1 DEF Seal, SealNothing, SealPut, SealPutFails, SealPersist, SealPersistFails, SealClear,
              actors
<1>2. CASE Prune
  BY <1>2 DEF Prune, PruneLocked, PrunePersist, PrunePersistFails, PruneDrop, PruneHot,
              PruneHotFails,
              PruneRebuild, actors
<1>3. CASE DeleteUser
  BY <1>3 DEF DeleteUser, EraseLocked, EraseSegment, EraseSegmentFails, ErasePersist,
              ErasePersistFails, EraseDrop, EraseNoSegment, EraseHot, EraseHotFails, actors
<1>4. CASE Clear
  BY <1>4 DEF Clear, ClearDrop, ClearPersist, ClearPersistFails, ClearHot, actors
<1>5. CASE UNCHANGED vars
  BY <1>5 DEF vars, actors
<1>6. QED
  BY <1>1, <1>2, <1>3, <1>4, <1>5
     DEF Next, Append, Ingest, IngestUnsynced, Flush, Scan, ScanBegin, ScanSnapshot, ScanRead,
         ScanReadFails, ScanEnd,
         ScrubSweep, Crash, Open, OfflineScrub, actors

\* A check in progress keeps what it has to look at.
LEMMA WaitingCheck ==
    ASSUME TypeInv, CheckInv, [Next]_vars, checker' = checker, up => up'
    PROVE  CheckInv'
<1>1. CASE checker.stage # "checking"
  BY <1>1 DEF CheckInv
<1>2. CASE checker.stage = "checking"
  <2>1. up /\ up' /\ Scanning
    BY <1>2 DEF CheckInv, Scanning
  <2>2. ASSUME NEW meta \in checker.entries
        PROVE  /\ meta.key < seq' /\ meta.key \in DOMAIN blobs'
               /\ meta = MetaOf(meta.key, blobs'[meta.key])
    <3>1. /\ meta.key < seq /\ meta.key \in DOMAIN blobs
          /\ meta = MetaOf(meta.key, blobs[meta.key])
      BY <1>2, <2>2 DEF CheckInv
    <3> DEFINE k == meta.key
    <3>2. k \in Nat /\ seq \in Nat
      BY <3>1, KeysFinite, KeyNumbers DEF TypeInv, TypeOK, TypeDurable
    <3> HIDE DEF k
    <3>3. k \in DOMAIN blobs /\ k < seq /\ k # seq
      BY <3>1, <3>2 DEF k
    <3>4. k < seq' /\ k \in DOMAIN blobs' /\ blobs'[k] = blobs[k]
      BY <2>1, <3>2, <3>3, ScanProtects, BelowKept
    <3>5. QED
      BY <3>1, <3>4 DEF k
  <2>3. QED
    BY <1>2, <2>1, <2>2 DEF CheckInv
<1>3. QED
  BY <1>1, <1>2

\* The steps of a check: what it looks at is as the manifest describes it.
LEMMA CheckSteps ==
    ASSUME TypeInv, RefInv, Described, CheckInv, Verify
    PROVE  CheckInv'
<1>1. UNCHANGED <<blobs, seq, up>>
  BY DEF Verify, VerifyBegin, VerifySnapshot, VerifyList, VerifyRead, durable, memory
<1>2. CASE VerifyBegin
  BY <1>1, <1>2 DEF VerifyBegin, CheckInv
<1>3. CASE VerifySnapshot
  <2>1. up
    BY <1>3 DEF VerifySnapshot, CheckInv
  <2>2. \A i \in DOMAIN manifest :
            /\ manifest[i].key < seq /\ manifest[i].key \in DOMAIN blobs
            /\ manifest[i] = MetaOf(manifest[i].key, blobs[manifest[i].key])
    BY <2>1 DEF RefInv, HandedOut, Below, SoundManifests, Sound, Resolves, KeysOf, Described, Intact
  <2>3. /\ checker'.stage = "checking" /\ ~checker'.problem
        /\ checker'.entries = {manifest[i] : i \in DOMAIN manifest}
    BY <1>3 DEF VerifySnapshot
  <2>4. QED
    BY <1>1, <2>1, <2>2, <2>3 DEF CheckInv
<1>4. ASSUME NEW meta \in checker.entries, VerifyRead(meta) PROVE CheckInv'
  <2>1. checker.stage = "checking" /\ checker'.stage = "checking"
        /\ checker'.entries = checker.entries \ {meta}
    BY <1>4 DEF VerifyRead
  <2>2. Healthy(meta)
    BY <2>1, DescribedIsHealthy DEF CheckInv
  <2>3. ASSUME "get" \notin Faults PROVE ~checker'.problem
    <3>1. ~checker.problem
      BY <2>3 DEF CheckInv
    <3>2. PICK failed \in {FALSE, "get" \in Faults} :
              checker' = [stage |-> "checking", entries |-> checker.entries \ {meta},
                          refs |-> checker.refs, orphans |-> {},
                          problem |-> checker.problem \/ failed \/ ~Healthy(meta)]
      BY <1>4, Zenon DEF VerifyRead
    <3>3. ~failed
      <4>1. failed = FALSE \/ failed = ("get" \in Faults)
        OBVIOUS
      <4>2. QED
        BY <2>3, <4>1
    <3>4. (checker.problem \/ failed \/ ~Healthy(meta)) = FALSE
      BY <2>2, <3>1, <3>3
    <3>5. QED
      BY <3>2, <3>4
  <2>4. QED
    BY <1>1, <2>1, <2>3 DEF CheckInv
<1>5. CASE VerifyList
  BY <1>1, <1>5 DEF VerifyList, CheckInv
<1>6. QED
  BY <1>2, <1>3, <1>4, <1>5 DEF Verify

\* Every step keeps what a check relies on.
LEMMA NextCheck ==
    ASSUME TypeInv, RefInv, Described, CheckInv, [Next]_vars
    PROVE  CheckInv'
<1>1. CASE checker' = CheckIdle
  BY <1>1 DEF CheckInv, CheckIdle
<1>2. QED
  BY <1>1, CheckSteps, OtherSteps, WaitingCheck

-----------------------------------------------------------------------------
\* The theorems.

\* The empty store satisfies the invariant.
LEMMA InitContent == Init => ContentInv /\ ScanInv /\ CheckInv
BY IntactEmpty, EmptySound
   DEF Init, ContentInv, Described, InStep, NamesHeld, NamesOf, ScanInv, ReaderSound, ScanIdle,
       CheckInv, CheckIdle

\* The invariant of the store's contents holds on the way.
LEMMA ContentInvariant ==
    ASSUME "clear" \notin Ops, "scrub" \notin Ops, "lostReply" \notin Faults
    PROVE  Spec => [](TypeInv /\ RefInv /\ ContentInv /\ ScanInv /\ CheckInv)
<1>1. ContentInv /\ TypeInv /\ RefInv /\ [Next]_vars => ContentInv'
  BY NextDescribed, NextNames DEF ContentInv
<1>2. TypeInv /\ RefInv /\ ContentInv /\ ScanInv /\ CheckInv /\ [Next]_vars
          => ScanInv' /\ CheckInv'
  BY NextScan, NextCheck DEF ContentInv
<1>3. QED
  BY <1>1, <1>2, InitContent, RefInvariant, PTL DEF Spec

\* Every index entry describes its segment, and the cached names cover the store, but for
\* what ingests that failed after indexing have left since the names were last rebuilt.
THEOREM IntactSegments ==
    ASSUME "clear" \notin Ops, "scrub" \notin Ops, "lostReply" \notin Faults
    PROVE  Spec => []SegmentsIntact
<1>1. TypeInv /\ RefInv /\ ContentInv => SegmentsIntact
  <2> SUFFICES ASSUME TypeInv, RefInv, ContentInv PROVE SegmentsIntact
    OBVIOUS
  <2>1. Describes(disk) /\ Describes(manifest)
    BY DEF ContentInv, Described, Intact, Describes
  <2>2. NamesCover
    BY DEF ContentInv, NamesHeld, NamesCover, Held, Cold, Content, NamesOf
  <2>3. QED
    BY <2>1, <2>2 DEF SegmentsIntact
<1>2. QED
  BY <1>1, ContentInvariant, PTL

\* A query that finishes has the events of its window that the store held at its snapshot,
\* and none fails on a segment that was taken away, however seals, retention, erasure and
\* a sweep of retired segments interleave with its unlocked reads.
THEOREM QueriesExact ==
    ASSUME "clear" \notin Ops, "scrub" \notin Ops, "lostReply" \notin Faults
    PROVE  Spec => []ScanExact
<1>1. ScanInv => ScanExact
  BY DEF ScanInv, ReaderSound, ScanExact
<1>2. QED
  BY <1>1, ContentInvariant, PTL

\* Verify reports no problem on a sound backend, whatever runs beside it.
THEOREM NoFalseAlarm ==
    ASSUME "clear" \notin Ops, "scrub" \notin Ops, "lostReply" \notin Faults, "get" \notin Faults
    PROVE  Spec => []VerifyFindsNoProblem
<1>1. CheckInv => VerifyFindsNoProblem
  BY DEF CheckInv, VerifyFindsNoProblem
<1>2. QED
  BY <1>1, ContentInvariant, PTL

-----------------------------------------------------------------------------
\* The inductive invariant: what the holder of the mutex prepares.

\* What the segments of m hold.
Holds(m, b) == UNION {b[k] : k \in KeysOf(m)}

\* An entry's key is its slot, or a later one that a rewrite handed out.
Ordered(m) == \A i \in DOMAIN m : i <= m[i].key

\* The prepared manifest has no more slots than the one in force, and no more in each.
Shrunk ==
    \A i \in DOMAIN next : i \in DOMAIN manifest /\ blobs[next[i].key] \subseteq blobs[manifest[i].key]

\* The slots DeleteUser has passed are free of its user; the others are untouched.
Edits ==
    /\ \A i \in todo : i \in DOMAIN next /\ next[i] = manifest[i]
    /\ \A i \in DOMAIN next \ todo : blobs[next[i].key] \cap Of(eraser.user) = {}
    /\ drop = {} => next = manifest

Editing ==
    /\ Ordered(disk) /\ Ordered(manifest) /\ Ordered(next)
    /\ pc \in {"prunePersist", "pruneDrop"} => pruner.stage = "locked"
    /\ pc \in {"eraseSegment", "eraseDrop"} => eraser.stage = "locked"
    /\ pc \in {"prunePersist", "eraseSegment"} => Shrunk
    /\ pc = "eraseSegment" => Edits

\* What is about to be persisted keeps what is held, but for what the call removes.
Keeping ==
    /\ pruner.stage = "idle" => pruner = PruneIdle
    /\ eraser.stage = "idle" => eraser = EraseIdle
    /\ pc = "sealPersist" => Holds(manifest, blobs) \cup hot \subseteq Holds(next, blobs)
    /\ pc = "sealClear" => hot \subseteq Holds(manifest, blobs)
    /\ pc = "prunePersist" =>
           \A e \in Holds(manifest, blobs) \ Holds(next, blobs) :
               e \in Events /\ e.ts < pruner.cutoff
    /\ pc = "eraseSegment" =>
           Holds(manifest, blobs) \ Holds(next, blobs) \subseteq Of(eraser.user)

-----------------------------------------------------------------------------
\* The inductive invariant: every event in one place.

Disjoint(m, b) == \A i, j \in DOMAIN m : i # j => b[m[i].key] \cap b[m[j].key] = {}

\* The hot log is the last segment of m.
IsLast(m) == \E i \in DOMAIN m : IsMax(i, DOMAIN m) /\ hot = blobs[m[i].key]

CopyInv ==
    /\ Disjoint(manifest, blobs) /\ Holds(manifest, blobs) \cup hot \subseteq sent
    /\ up /\ pc # "sealClear" => hot \cap Holds(manifest, blobs) = {}
    /\ pc = "sealPersist" => Disjoint(next, blobs) /\ Holds(next, blobs) \subseteq sent
    /\ MaxCrashes = 0 => up
    /\ MaxCrashes # 0 =>
           /\ pc = "sealPersist" => IsLast(next)
           /\ pc = "sealClear" => IsLast(manifest)
           /\ ~up => /\ Disjoint(disk, blobs) /\ Holds(disk, blobs) \subseteq sent
                     /\ hot \cap Holds(disk, blobs) = {} \/ IsLast(disk)

\* Everywhere an event can be, the segments of a manifest about to be persisted included.
Places ==
    Holds(manifest, blobs) \cup hot \cup IF pc = "sealPersist" THEN Holds(next, blobs) ELSE {}

\* What an erasure found in sealed segments and has removed from them.
Erased == gone.cold \cup IF eraser.stage = "hot" THEN eraser.cold ELSE {}

ErasedInv ==
    /\ Erased \cap Places = {}
    /\ eraser.cold \subseteq Of(eraser.user)
    /\ pc \in {"eraseSegment", "eraseDrop"} => eraser.cold \cap hot = {}
    /\ pc = "eraseDrop" => eraser.cold \cap Holds(manifest, blobs) = {}

-----------------------------------------------------------------------------
\* What one step does to the mutex and to what its holder prepares.

\* A handler goes on with the mutex, lets go of it, or somebody else moves and leaves the
\* handler's work alone.
LEMMA MutexSteps ==
    ASSUME "clear" \notin Ops, TypeInv, RefInv, [Next]_vars
    PROVE  \/ pc' \in {"free", "sealPut"}
           \/ /\ UNCHANGED <<pc, blobs, disk, manifest, next, todo, drop, seq, up>>
              /\ hot' \subseteq hot
              /\ pruner.stage = "locked" => pruner' = pruner
              /\ eraser.stage = "locked" => eraser' = eraser
           \/ SealPut \/ SealPersist
           \/ \E cutoff \in Cutoffs : PruneLocked(cutoff) /\ UNCHANGED todo
           \/ PrunePersist
           \/ \E user \in Users : EraseLocked(user)
           \/ \E i \in todo : EraseSegment(i)
           \/ ErasePersist
<1> DEFINE Goal == \/ pc' \in {"free", "sealPut"}
                   \/ /\ UNCHANGED <<pc, blobs, disk, manifest, next, todo, drop, seq, up>>
                      /\ hot' \subseteq hot
                      /\ pruner.stage = "locked" => pruner' = pruner
                      /\ eraser.stage = "locked" => eraser' = eraser
<1>1. CASE SealNothing \/ SealPutFails \/ SealPersistFails \/ SealClear
  BY <1>1 DEF SealNothing, SealPutFails, SealPersistFails, SealClear, Unlock
<1>2. ASSUME NEW cutoff \in Cutoffs, PruneLocked(cutoff) PROVE Goal \/ UNCHANGED todo
  BY <1>2 DEF PruneLocked, locals
<1>3. CASE PrunePersistFails \/ PruneDrop
  BY <1>3 DEF PrunePersistFails, PruneDrop, Unlock
<1>4. CASE PruneHot \/ PruneHotFails \/ PruneRebuild
  BY <1>4 DEF PruneHot, PruneHotFails, PruneRebuild, Recent, durable, memory, locals
<1>5. ASSUME NEW i \in todo, EraseSegmentFails(i) PROVE Goal
  BY <1>5 DEF EraseSegmentFails, Unlock
<1>6. CASE ErasePersistFails \/ EraseDrop \/ EraseNoSegment
  BY <1>6 DEF ErasePersistFails, EraseDrop, EraseNoSegment, Unlock
<1>7. CASE EraseHot \/ EraseHotFails
  BY <1>7 DEF EraseHot, EraseHotFails, memory, locals
<1>8. CASE Clear
  BY <1>8 DEF Clear, ClearDrop, ClearPersist, ClearPersistFails, ClearHot, RefInv, Holding
<1>9. ASSUME NEW batch \in SUBSET Events, Append(batch) PROVE Goal
  BY <1>9 DEF Append, Ingest, IngestUnsynced
<1>10. CASE Flush \/ ScrubSweep \/ Crash
  BY <1>10 DEF Flush, Lock, ScrubSweep, Crash, Unlock, locals
<1>11. CASE Open \/ OfflineScrub
  BY <1>11 DEF Open, OfflineScrub, locals, RefInv, HandedOut
<1>12. ASSUME NEW r \in Readers, Scan(r) PROVE Goal
  BY <1>12 DEF Scan, ScanBegin, ScanSnapshot, ScanRead, ScanReadFails, ScanEnd, durable, memory,
               locals
<1>13. CASE Verify
  BY <1>13 DEF Verify, VerifyBegin, VerifySnapshot, VerifyRead, VerifyList, durable, memory, locals
<1>14. CASE UNCHANGED vars
  BY <1>14 DEF vars, durable, memory, locals, actors
<1> HIDE DEF Goal
<1>15. Goal \/ SealPut \/ SealPersist
            \/ (\E cutoff \in Cutoffs : PruneLocked(cutoff) /\ UNCHANGED todo)
            \/ PrunePersist \/ (\E user \in Users : EraseLocked(user))
            \/ (\E i \in todo : EraseSegment(i)) \/ ErasePersist
  BY <1>1, <1>2, <1>3, <1>4, <1>5, <1>6, <1>7, <1>8, <1>9, <1>10, <1>11, <1>12, <1>13, <1>14
     DEF Next, Seal, Prune, DeleteUser, Goal
<1>16. QED
  BY <1>15 DEF Goal

\* A manifest in force is one that was, or one that was prepared; and a free mutex holds none.
LEMMA ManifestMoves ==
    ASSUME "clear" \notin Ops, TypeInv, RefInv, [Next]_vars
    PROVE  disk' \in {disk, next} /\ manifest' \in {manifest, next, disk, Empty}
<1>1. CASE Seal
  BY <1>1 DEF Seal, SealNothing, SealPut, SealPutFails, SealPersist, SealPersistFails, SealClear,
              PersistFailed, Persisted, durable, memory
<1>2. CASE Prune
  BY <1>2 DEF Prune, PruneLocked, PrunePersist, PrunePersistFails, PruneDrop, PruneHot,
              PruneHotFails,
              PruneRebuild, PersistFailed, Persisted, durable, memory
<1>3. CASE DeleteUser
  BY <1>3 DEF DeleteUser, EraseLocked, EraseSegment, EraseSegmentFails, ErasePersist,
              ErasePersistFails, EraseDrop, EraseNoSegment, EraseHot, EraseHotFails,
              PersistFailed, Persisted,
              durable, memory
<1>4. CASE Clear
  BY <1>4 DEF Clear, ClearDrop, ClearPersist, ClearPersistFails, ClearHot, RefInv, Holding
<1>5. CASE Crash \/ Open \/ OfflineScrub
  BY <1>5 DEF Crash, Open, OfflineScrub, durable, memory
<1>6. CASE UNCHANGED vars
  BY <1>6 DEF vars, durable, memory
<1>7. QED
  BY <1>1, <1>2, <1>3, <1>4, <1>5, <1>6
     DEF Next, Append, Ingest, IngestUnsynced, Flush, Scan, ScanBegin, ScanSnapshot, ScanRead,
         ScanReadFails, ScanEnd,
         Verify, VerifyBegin, VerifySnapshot, VerifyRead, VerifyList, ScrubSweep, durable, memory

-----------------------------------------------------------------------------
\* What a manifest holds.

\* A segment under a new slot and key adds what is in it.
LEMMA HoldsWrite ==
    ASSUME NEW m, NEW b, NEW i, NEW k, NEW S, i \notin DOMAIN m, k \notin KeysOf(m),
           KeysOf(m) \subseteq DOMAIN b
    PROVE  Holds(Write(m, i, MetaOf(k, S)), Write(b, k, S)) = Holds(m, b) \cup S
<1> DEFINE n == Write(m, i, MetaOf(k, S))
           c == Write(b, k, S)
<1>1. DOMAIN n = DOMAIN m \cup {i} /\ n[i].key = k /\ \A j \in DOMAIN m : n[j] = m[j]
  BY DEF Write, MetaOf
<1>2. \A j \in DOMAIN m : m[j].key # k
  BY DEF KeysOf
<1> HIDE DEF n
<1>3. KeysOf(n) = KeysOf(m) \cup {k}
  BY <1>1 DEF KeysOf
<1>4. c[k] = S /\ \A x \in KeysOf(m) : x \in DOMAIN b => c[x] = b[x]
  BY DEF Write
<1> HIDE DEF c
<1>5. Holds(n, c) = Holds(m, b) \cup S
  BY <1>3, <1>4 DEF Holds
<1>6. QED
  BY <1>5 DEF n, c

\* What a manifest holds is what its segments held.
LEMMA HoldsKept ==
    ASSUME NEW m, NEW b, NEW c, \A k \in KeysOf(m) : b[k] = c[k]
    PROVE  Holds(m, b) = Holds(m, c)
BY DEF Holds

\* A manifest cut down holds no event it did not hold.
LEMMA HoldsWithout == ASSUME NEW m, NEW b, NEW S PROVE Holds(Without(m, S), b) \subseteq Holds(m, b)
BY WithoutKeys DEF Holds, KeysOf, Without, Restrict

\* An event is held by the segment of one of the slots.
LEMMA HeldBySlot ==
    ASSUME NEW m, NEW b, NEW e
    PROVE  e \in Holds(m, b) <=> \E i \in DOMAIN m : e \in b[m[i].key]
BY DEF Holds, KeysOf

\* The empty manifest holds nothing, and nothing twice or out of order.
LEMMA EmptyHolds == \A b : Holds(Empty, b) = {} /\ Disjoint(Empty, b) /\ Ordered(Empty)
BY DEF Holds, Disjoint, Ordered, Empty, KeysOf

\* The segments of a manifest stay what they are as long as it resolves.
LEMMA SegmentsStay ==
    ASSUME TypeInv, RefInv, [Next]_vars, NEW m, KeysOf(m) \subseteq DOMAIN blobs',
           up => seq \notin KeysOf(m)
    PROVE  \A k \in KeysOf(m) : blobs'[k] = blobs[k]
BY BlobSteps

\* With the mutex held by somebody about to write, the next key is in no manifest.
LEMMA NextKey ==
    ASSUME TypeInv, RefInv, up
    PROVE  /\ seq \notin KeysOf(manifest)
           /\ pc \in {"free", "sealPut", "prunePersist", "eraseSegment"} => seq \notin KeysOf(next)
BY KeyNumbers, BelowNext, EmptySound DEF RefInv, HandedOut, Holding

-----------------------------------------------------------------------------
\* What the holder prepares.

\* A slot is at most the highest key, so the next key is a new slot.
LEMMA NewSlot ==
    ASSUME TypeInv, RefInv, Editing, up
    PROVE  seq \notin DOMAIN manifest
<1>1. \A i \in DOMAIN manifest : i \in Nat /\ manifest[i].key \in Nat /\ manifest[i].key < seq
  BY KeyNumbers, KeysFinite
     DEF RefInv, HandedOut, Below, KeysOf, TypeInv, TypeOK, TypeProcess, IsManifest
<1>2. QED
  BY <1>1, KeyNumbers DEF Editing, Ordered

\* A step of DeleteUser frees one more slot of its user and leaves the others alone.
LEMMA EraseSegmentEdits ==
    ASSUME TypeInv, RefInv, Editing, NEW i \in todo, EraseSegment(i)
    PROVE  Ordered(next') /\ Shrunk' /\ Edits'
<1> DEFINE k == manifest[i].key
           kept == Kept(k, eraser.user)
<1>1. /\ pc = "eraseSegment" /\ up /\ todo' = todo \ {i} /\ UNCHANGED <<manifest, eraser>>
      /\ k \in DOMAIN blobs
  BY DEF EraseSegment, TypeInv, SeqRoom, actors
<1>2. /\ i \in DOMAIN manifest /\ i \in DOMAIN next /\ next[i] = manifest[i]
      /\ Shrunk /\ Edits /\ Ordered(next) /\ i <= k
      /\ KeysOf(next) \subseteq DOMAIN blobs /\ KeysOf(manifest) \subseteq DOMAIN blobs
  BY <1>1 DEF Editing, Edits, Ordered, RefInv, Holding, SoundManifests, Sound, Resolves
<1>3. blobs[k] \subseteq Events
  BY <1>1 DEF TypeInv, TypeOK, TypeDurable
<1>4. CASE kept = blobs[k] /\ UNCHANGED <<blobs, seq, next, drop>>
  <2>1. blobs[next[i].key] \cap Of(eraser.user) = {}
    BY <1>2, <1>4 DEF Kept
  <2>2. Edits'
    BY <1>1, <1>2, <1>4, <2>1 DEF Edits
  <2>3. QED
    BY <1>1, <1>2, <1>4, <2>2 DEF Shrunk
<1>5. CASE next' = Without(next, {i}) /\ drop' = drop \cup {k} /\ UNCHANGED <<blobs, seq>>
  <2>1. DOMAIN next' = DOMAIN next \ {i} /\ \A j \in DOMAIN next' : next'[j] = next[j]
    BY <1>5 DEF Without, Restrict
  <2>2. Ordered(next') /\ Shrunk'
    BY <1>1, <1>2, <1>5, <2>1 DEF Ordered, Shrunk
  <2>3. Edits'
    BY <1>1, <1>2, <1>5, <2>1 DEF Edits
  <2>4. QED
    BY <2>2, <2>3
<1>6. CASE /\ blobs' = Write(blobs, seq, kept)
           /\ next' = Write(next, i, Rewritten(i, kept))
           /\ drop' = drop \cup {k}
  <2>1. seq \notin KeysOf(manifest) /\ seq \notin KeysOf(next)
    BY <1>1, NextKey
  <2>2. /\ DOMAIN next' = DOMAIN next /\ next'[i].key = seq
        /\ \A j \in DOMAIN next \ {i} : next'[j] = next[j]
    BY <1>2, <1>6 DEF Write, Rewritten, MetaOf
  <2>3. /\ blobs'[seq] = kept
        /\ \A x \in KeysOf(manifest) \cup KeysOf(next) : blobs'[x] = blobs[x]
    BY <1>2, <1>6, <2>1 DEF Write
  <2>4. kept \subseteq blobs[k] /\ kept \cap Of(eraser.user) = {}
    BY DEF Kept
  <2>5. i <= seq
    <3>1. k < seq
      BY <1>1, <1>2 DEF RefInv, HandedOut, Below, KeysOf
    <3>2. i \in Nat /\ k \in Nat /\ seq \in Nat
      BY <1>1, KeysFinite, KeyNumbers DEF TypeInv, TypeOK, TypeLocals, TypeDurable
    <3> HIDE DEF k
    <3>3. QED
      BY <1>2, <3>1, <3>2
  <2>6. Ordered(next')
    BY <1>2, <2>2, <2>5 DEF Ordered
  <2>7. Shrunk'
    <3>1. blobs'[next'[i].key] \subseteq blobs'[manifest[i].key]
      BY <1>2, <2>2, <2>3, <2>4 DEF KeysOf
    <3>2. \A j \in DOMAIN next \ {i} : blobs'[next'[j].key] \subseteq blobs'[manifest[j].key]
      BY <1>2, <2>2, <2>3 DEF Shrunk, KeysOf
    <3>3. QED
      BY <1>1, <1>2, <2>2, <3>1, <3>2 DEF Shrunk
  <2>8. Edits'
    <3>1. blobs'[next'[i].key] \cap Of(eraser.user) = {}
      BY <2>2, <2>3, <2>4
    <3>2. \A j \in DOMAIN next \ (todo \cup {i}) : blobs'[next'[j].key] \cap Of(eraser.user) = {}
      BY <1>2, <2>2, <2>3 DEF Edits, KeysOf
    <3>3. QED
      BY <1>1, <1>2, <1>6, <2>2, <3>1, <3>2 DEF Edits
  <2>9. QED
    BY <2>6, <2>7, <2>8
<1>7. QED
  BY <1>4, <1>5, <1>6 DEF EraseSegment

\* Every step keeps what the holder relies on.
LEMMA NextEditing ==
    ASSUME "clear" \notin Ops, "scrub" \notin Ops, TypeInv, RefInv, Editing, [Next]_vars
    PROVE  Editing'
<1>1. RefInv' /\ (pc # "free" => up)
  BY NextRefs DEF TypeInv, SeqRoom
<1>2. Ordered(disk') /\ Ordered(manifest')
  BY ManifestMoves, EmptyHolds DEF Editing
<1>3. CASE pc' \in {"free", "sealPut"}
  <2>1. next' = Empty
    BY <1>1, <1>3 DEF RefInv, Holding
  <2>2. QED
    BY <1>2, <1>3, <2>1, EmptyHolds DEF Editing
<1>4. CASE /\ UNCHANGED <<pc, blobs, disk, manifest, next, todo, drop, seq, up>>
           /\ pruner.stage = "locked" => pruner' = pruner
           /\ eraser.stage = "locked" => eraser' = eraser
  BY <1>2, <1>4 DEF Editing, Shrunk, Edits
<1>5. CASE SealPut
  <2>1. Ordered(next')
    <3>1. next' = Write(manifest, seq, MetaOf(seq, hot)) /\ seq \in Nat
      BY <1>5, KeyNumbers DEF SealPut
    <3>2. QED
      BY <3>1 DEF Ordered, Write, MetaOf, Editing
  <2>2. QED
    BY <1>2, <1>5, <2>1 DEF SealPut, Editing
<1>6. CASE SealPersist
  BY <1>2, <1>6 DEF SealPersist, Editing
<1>7. ASSUME NEW cutoff \in Cutoffs, PruneLocked(cutoff), UNCHANGED todo,
pc' # "free" PROVE Editing'
  <2> DEFINE dead == {i \in DOMAIN manifest : Expired(manifest[i], cutoff)}
  <2>1. /\ pc' = "prunePersist" /\ next' = Without(manifest, dead) /\ pruner'.stage = "locked"
        /\ UNCHANGED <<blobs, manifest>>
    BY <1>7 DEF PruneLocked, locals, durable, memory
  <2>2. DOMAIN next' \subseteq DOMAIN manifest /\ \A i \in DOMAIN next' : next'[i] = manifest[i]
    BY <2>1 DEF Without, Restrict
  <2>3. Ordered(next') /\ Shrunk'
    BY <2>1, <2>2 DEF Ordered, Shrunk, Editing
  <2>4. QED
    BY <1>2, <2>1, <2>3 DEF Editing
<1>8. CASE PrunePersist
  BY <1>2, <1>8 DEF PrunePersist, Editing, actors
<1>9. ASSUME NEW user \in Users, EraseLocked(user) PROVE Editing'
  <2>1. /\ pc' = "eraseSegment" /\ next' = manifest /\ todo' = DOMAIN manifest
        /\ UNCHANGED <<blobs, manifest>> /\ eraser'.stage = "locked"
    BY <1>9 DEF EraseLocked, Lock, durable, memory
  <2>2. Shrunk' /\ Edits'
    BY <2>1 DEF Shrunk, Edits
  <2>3. QED
    BY <1>2, <2>1, <2>2 DEF Editing
<1>10. ASSUME NEW i \in todo, EraseSegment(i) PROVE Editing'
  <2>1. pc = "eraseSegment" /\ pc' = pc /\ UNCHANGED eraser
    BY <1>10 DEF EraseSegment, actors
  <2>2. Ordered(next') /\ Shrunk' /\ Edits'
    BY <1>10, EraseSegmentEdits
  <2>3. QED
    BY <1>2, <2>1, <2>2 DEF Editing
<1>11. CASE ErasePersist
  BY <1>2, <1>11 DEF ErasePersist, Editing, actors
<1>12. QED
  BY <1>3, <1>4, <1>5, <1>6, <1>7, <1>8, <1>9, <1>10, <1>11, MutexSteps

-----------------------------------------------------------------------------
\* Nothing held is lost on the way but what the running calls are to remove.

\* The pruner begins, goes on with its cutoff, or is done.
LEMMA PrunerSteps ==
    ASSUME TypeInv, Editing, [Next]_vars
    PROVE  \/ pruner' \in {pruner, PruneIdle}
           \/ pruner # PruneIdle /\ pruner'.stage # "idle" /\ pruner'.cutoff = pruner.cutoff
           \/ /\ \E cutoff \in Cutoffs : PruneLocked(cutoff) /\ pruner'.cutoff = cutoff
              /\ pruner'.stage # "idle"
<1> DEFINE Goal == \/ pruner' \in {pruner, PruneIdle}
                   \/ /\ pruner # PruneIdle /\ pruner'.stage # "idle"
                      /\ pruner'.cutoff = pruner.cutoff
<1>1. CASE Seal
  BY <1>1 DEF Seal, SealNothing, SealPut, SealPutFails, SealPersist, SealPersistFails, SealClear,
              actors
<1>2. ASSUME NEW cutoff \in Cutoffs, PruneLocked(cutoff)
      PROVE  pruner'.stage # "idle" /\ pruner'.cutoff = cutoff
  BY <1>2 DEF PruneLocked
<1>3. CASE PrunePersist \/ PrunePersistFails \/ PruneRebuild
  BY <1>3 DEF PrunePersist, PrunePersistFails, PruneRebuild, actors
<1>4. CASE PruneHot \/ PruneHotFails \/ PruneDrop
  <2>1. pruner \in [stage : {"idle", "locked", "hot", "rebuild"}, cutoff : Nat, cut : BOOLEAN]
    BY DEF TypeInv, TypeOK, TypeActors
  <2>2. pruner.stage # "idle"
    BY <1>4 DEF PruneHot, PruneHotFails, PruneDrop, Editing
  <2>3. \/ pruner' = PruneIdle
        \/ pruner' = [pruner EXCEPT !.stage = "rebuild"]
        \/ pruner' = [pruner EXCEPT !.stage = "hot"]
    BY <1>4, Zenon DEF PruneHot, PruneHotFails, PruneDrop
  <2>4. QED
    BY <2>1, <2>2, <2>3 DEF PruneIdle
<1>5. CASE DeleteUser
  BY <1>5 DEF DeleteUser, EraseLocked, EraseSegment, EraseSegmentFails, ErasePersist,
              ErasePersistFails, EraseDrop, EraseNoSegment, EraseHot, EraseHotFails, actors
<1>6. CASE Clear
  BY <1>6 DEF Clear, ClearDrop, ClearPersist, ClearPersistFails, ClearHot, actors
<1>7. CASE UNCHANGED vars
  BY <1>7 DEF vars, actors
<1>8. QED
  BY <1>1, <1>2, <1>3, <1>4, <1>5, <1>6, <1>7
     DEF Next, Prune, Append, Ingest, IngestUnsynced, Flush, Scan, ScanBegin, ScanSnapshot,
         ScanRead,
         ScanReadFails, ScanEnd, Verify, VerifyBegin, VerifySnapshot, VerifyRead, VerifyList,
         ScrubSweep, Crash, Open, OfflineScrub, actors

\* The eraser begins, goes on with its user, or is done.
LEMMA EraserSteps ==
    ASSUME TypeInv, Editing, [Next]_vars, eraser.stage = "idle" => eraser = EraseIdle
    PROVE  \/ eraser' \in {eraser, EraseIdle}
           \/ eraser # EraseIdle /\ eraser'.stage # "idle" /\ eraser'.user = eraser.user
           \/ /\ \E user \in Users : EraseLocked(user) /\ eraser'.user = user
              /\ eraser'.stage # "idle"
<1>1. ASSUME NEW batch \in SUBSET Events, Append(batch)
      PROVE  \/ eraser' = EraseIdle
             \/ eraser # EraseIdle /\ eraser'.stage # "idle" /\ eraser'.user = eraser.user
  <2>1. eraser' = [stage |-> eraser.stage, user |-> eraser.user,
                   cold |-> eraser.cold \ batch, hot |-> eraser.hot \ batch]
    BY <1>1 DEF Append, Ingest, IngestUnsynced
  <2>2. CASE eraser = EraseIdle
    BY <2>1, <2>2 DEF EraseIdle
  <2>3. CASE eraser # EraseIdle
    BY <2>1, <2>3
  <2>4. QED
    BY <2>2, <2>3
<1>2. CASE Seal
  BY <1>2 DEF Seal, SealNothing, SealPut, SealPutFails, SealPersist, SealPersistFails, SealClear,
              actors
<1>3. CASE Prune
  BY <1>3 DEF Prune, PruneLocked, PrunePersist, PrunePersistFails, PruneDrop, PruneHot,
              PruneHotFails,
              PruneRebuild, actors
<1>4. ASSUME NEW user \in Users, EraseLocked(user)
      PROVE  eraser'.stage # "idle" /\ eraser'.user = user
  BY <1>4 DEF EraseLocked
<1>5. CASE EraseDrop \/ EraseNoSegment
  <2>1. eraser \in [stage : {"idle", "locked", "hot"}, user : Users \cup {""},
                   cold : SUBSET Events, hot : SUBSET Events]
    BY DEF TypeInv, TypeOK, TypeActors
  <2>2. eraser.stage # "idle" /\ eraser' = [eraser EXCEPT !.stage = "hot"]
    BY <1>5 DEF EraseDrop, EraseNoSegment, Editing
  <2>3. eraser'.stage = "hot" /\ eraser'.user = eraser.user
    BY <2>1, <2>2
  <2>4. eraser # EraseIdle
    <3>1. EraseIdle.stage = "idle"
      BY DEF EraseIdle
    <3>2. QED
      BY <2>2, <3>1
  <2>5. QED
    BY <2>3, <2>4
<1>6. ASSUME NEW i \in todo, EraseSegment(i) \/ EraseSegmentFails(i)
      PROVE  eraser' \in {eraser, EraseIdle}
  BY <1>6 DEF EraseSegment, EraseSegmentFails, actors
<1>7. CASE ErasePersist \/ ErasePersistFails \/ EraseHot \/ EraseHotFails
  BY <1>7 DEF ErasePersist, ErasePersistFails, EraseHot, EraseHotFails, actors
<1>8. CASE Clear
  BY <1>8 DEF Clear, ClearDrop, ClearPersist, ClearPersistFails, ClearHot, actors
<1>9. CASE UNCHANGED vars
  BY <1>9 DEF vars, actors
<1>10. QED
  BY <1>1, <1>2, <1>3, <1>4, <1>5, <1>6, <1>7, <1>8, <1>9
     DEF Next, DeleteUser, Flush, Scan, ScanBegin, ScanSnapshot, ScanRead, ScanReadFails, ScanEnd,
         Verify, VerifyBegin, VerifySnapshot, VerifyRead, VerifyList, ScrubSweep, Crash, Open,
         OfflineScrub, actors

\* A segment whose entry is expired has only events before the cutoff.
LEMMA ExpiredEvents ==
    ASSUME NEW k, NEW S \in SUBSET Events, NEW cutoff \in Nat, Expired(MetaOf(k, S), cutoff),
           NEW e \in S
    PROVE  e.ts < cutoff
<1>1. e.ts \in Nat /\ e.ts <= MetaOf(k, S).max
  BY EventsAssumption, MetaBounds
<1>2. MetaOf(k, S).max \in Nat
  <2>1. Times(S) \in SUBSET Nat
    BY EventsAssumption DEF Times
  <2>2. \E t \in Times(S) : IsMax(t, Times(S))
    BY LatestEvent DEF IsMax, Times
  <2>3. QED
    BY <2>1, <2>2 DEF MetaOf
<1>3. QED
  BY <1>1, <1>2 DEF Expired

\* Sealing adds the hot block to what the manifest in force holds.
LEMMA SealPutHolds ==
    ASSUME TypeInv, RefInv, Editing, SealPut
    PROVE  /\ Holds(next', blobs') = Holds(manifest, blobs) \cup hot
           /\ Holds(manifest, blobs') = Holds(manifest, blobs)
<1>1. up /\ blobs' = Write(blobs, seq, hot) /\ next' = Write(manifest, seq, MetaOf(seq, hot))
  BY DEF SealPut, TypeInv, SeqRoom
<1>2. /\ seq \notin KeysOf(manifest) /\ seq \notin DOMAIN manifest
      /\ KeysOf(manifest) \subseteq DOMAIN blobs
  BY <1>1, NextKey, NewSlot DEF RefInv, SoundManifests, Sound, Resolves
<1>3. \A k \in KeysOf(manifest) : blobs'[k] = blobs[k]
  BY <1>1, <1>2 DEF Write
<1>4. QED
  BY <1>1, <1>2, <1>3, HoldsWrite, HoldsKept

\* What a step of DeleteUser takes out of the prepared manifest is its user's.
LEMMA EraseSegmentHolds ==
    ASSUME TypeInv, RefInv, Editing, NEW i \in todo, EraseSegment(i), RefInv'
    PROVE  /\ Holds(next, blobs) \ Holds(next', blobs') \subseteq Of(eraser.user)
           /\ Holds(manifest, blobs') = Holds(manifest, blobs)
<1> DEFINE k == manifest[i].key
           kept == Kept(k, eraser.user)
<1>1. /\ pc = "eraseSegment" /\ up /\ UNCHANGED manifest
      /\ i \in DOMAIN next /\ next[i] = manifest[i]
      /\ KeysOf(next) \subseteq DOMAIN blobs /\ KeysOf(manifest) \subseteq DOMAIN blobs
  BY DEF EraseSegment, TypeInv, SeqRoom, Editing, Edits, RefInv, SoundManifests, Sound, Resolves
<1>2. seq \notin KeysOf(manifest) /\ seq \notin KeysOf(next)
  BY <1>1, NextKey
<1>3. blobs[k] \subseteq Events
  BY DEF EraseSegment, TypeInv, TypeOK, TypeDurable
<1>4. CASE UNCHANGED <<blobs, seq, next, drop>>
  BY <1>4
<1>5. CASE kept = {} /\ next' = Without(next, {i}) /\ UNCHANGED <<blobs, seq>>
  <2>1. DOMAIN next' = DOMAIN next \ {i} /\ \A j \in DOMAIN next' : next'[j] = next[j]
    BY <1>5 DEF Without, Restrict
  <2>2. blobs[next[i].key] \subseteq Of(eraser.user)
    BY <1>1, <1>3, <1>5 DEF Kept
  <2>3. \A e \in Holds(next, blobs) : e \in blobs[next[i].key] \/ e \in Holds(next', blobs)
    BY <2>1, HeldBySlot
  <2>4. QED
    BY <1>5, <2>2, <2>3
<1>6. CASE /\ blobs' = Write(blobs, seq, kept)
           /\ next' = Write(next, i, Rewritten(i, kept))
  <2>1. /\ DOMAIN next' = DOMAIN next /\ next'[i].key = seq
        /\ \A j \in DOMAIN next \ {i} : next'[j] = next[j]
    BY <1>1, <1>6 DEF Write, Rewritten, MetaOf
  <2>2. /\ blobs'[seq] = kept
        /\ \A x \in KeysOf(manifest) \cup KeysOf(next) : blobs'[x] = blobs[x]
    BY <1>1, <1>2, <1>6 DEF Write
  <2>3. blobs[next[i].key] \ Of(eraser.user) \subseteq blobs'[next'[i].key]
    BY <1>1, <2>1, <2>2 DEF Kept
  <2>4. \A j \in DOMAIN next \ {i} : blobs'[next'[j].key] = blobs[next[j].key]
    BY <2>1, <2>2 DEF KeysOf
  <2>5. \A e \in Holds(next, blobs) : e \in Of(eraser.user) \/ e \in Holds(next', blobs')
    BY <2>1, <2>3, <2>4, HeldBySlot
  <2>6. QED
    BY <2>2, <2>5, HoldsKept
<1>7. QED
  BY <1>4, <1>5, <1>6 DEF EraseSegment

\* Every step keeps what is about to be persisted complete.
LEMMA NextKeeping ==
    ASSUME "clear" \notin Ops, "scrub" \notin Ops, TypeInv, RefInv, Described, Editing, Keeping,
           [Next]_vars
    PROVE  Keeping'
<1> DEFINE Idle == /\ pruner.stage = "idle" => pruner = PruneIdle
                   /\ eraser.stage = "idle" => eraser = EraseIdle
<1>1. Idle'
  BY PrunerSteps, EraserSteps DEF Keeping
<1>2. RefInv' /\ (pc # "free" => up)
  BY NextRefs DEF TypeInv, SeqRoom
<1> HIDE DEF Idle
<1>3. CASE pc' \in {"free", "sealPut"}
  BY <1>1, <1>3 DEF Keeping, Idle
<1>4. CASE /\ UNCHANGED <<pc, blobs, disk, manifest, next, todo, drop, seq, up>>
           /\ hot' \subseteq hot
           /\ pruner.stage = "locked" => pruner' = pruner
           /\ eraser.stage = "locked" => eraser' = eraser
  <2>1. pc = "prunePersist" => pruner' = pruner
    BY <1>4 DEF Editing
  <2>2. pc = "eraseSegment" => eraser' = eraser
    BY <1>4 DEF Editing
  <2>3. QED
    BY <1>1, <1>4, <2>1, <2>2 DEF Keeping, Idle
<1>5. CASE SealPut
  <2>1. pc' = "sealPersist" /\ UNCHANGED <<manifest, hot>>
    BY <1>5 DEF SealPut, memory
  <2>2. QED
    BY <1>1, <1>5, <2>1, SealPutHolds DEF Keeping, Idle
<1>6. CASE SealPersist
  BY <1>1, <1>6 DEF SealPersist, Keeping, Idle
<1>7. ASSUME NEW cutoff \in Cutoffs, PruneLocked(cutoff), pc' # "free" PROVE Keeping'
  <2> DEFINE dead == {i \in DOMAIN manifest : Expired(manifest[i], cutoff)}
  <2>1. /\ pc' = "prunePersist" /\ next' = Without(manifest, dead) /\ pruner'.cutoff = cutoff
        /\ UNCHANGED <<blobs, manifest>>
    BY <1>7 DEF PruneLocked, locals, durable, memory
  <2>2. DOMAIN next' = DOMAIN manifest \ dead /\ \A i \in DOMAIN next' : next'[i] = manifest[i]
    BY <2>1 DEF Without, Restrict
  <2>3. ASSUME NEW e \in Holds(manifest, blobs), e \notin Holds(next', blobs)
        PROVE  e \in Events /\ e.ts < cutoff
    <3>1. PICK i \in DOMAIN manifest : e \in blobs[manifest[i].key]
      BY <2>3, HeldBySlot
    <3>2. i \in dead
      BY <2>2, <2>3, <3>1, HeldBySlot
    <3>3. /\ manifest[i].key \in DOMAIN blobs /\ blobs[manifest[i].key] \subseteq Events
          /\ manifest[i] = MetaOf(manifest[i].key, blobs[manifest[i].key])
      BY DEF RefInv, SoundManifests, Sound, Resolves, KeysOf, Described, Intact, TypeInv, TypeOK,
             TypeDurable
    <3>4. cutoff \in Nat
      BY BoundsAssumption
    <3>5. Expired(MetaOf(manifest[i].key, blobs[manifest[i].key]), cutoff)
      BY <3>2, <3>3
    <3>6. QED
      BY <3>1, <3>3, <3>4, <3>5, ExpiredEvents
  <2>4. QED
    BY <1>1, <2>1, <2>3 DEF Keeping, Idle
<1>8. CASE PrunePersist
  BY <1>1, <1>8 DEF PrunePersist, Keeping, Idle
<1>9. ASSUME NEW user \in Users, EraseLocked(user) PROVE Keeping'
  <2>1. pc' = "eraseSegment" /\ next' = manifest /\ UNCHANGED <<blobs, manifest>>
    BY <1>9 DEF EraseLocked, Lock, durable, memory
  <2>2. QED
    BY <1>1, <2>1 DEF Keeping, Idle
<1>10. ASSUME NEW i \in todo, EraseSegment(i) PROVE Keeping'
  <2>1. pc = "eraseSegment" /\ pc' = pc /\ UNCHANGED <<eraser, manifest>>
    BY <1>10 DEF EraseSegment, actors
  <2>2. QED
    BY <1>1, <1>2, <1>10, <2>1, EraseSegmentHolds DEF Keeping, Idle
<1>11. CASE ErasePersist
  BY <1>1, <1>11 DEF ErasePersist, Keeping, Idle
<1>12. QED
  BY <1>3, <1>4, <1>5, <1>6, <1>7, <1>8, <1>9, <1>10, <1>11, MutexSteps

-----------------------------------------------------------------------------
\* The store implements EventStore.

\* The hot log's file holds what its memory holds, as long as no truncation of it fails.
Written == wal = hot

LEMMA NextWritten == ASSUME "truncate" \notin Faults, Written, [Next]_vars PROVE Written'
<1>1. CASE Seal
  BY <1>1 DEF Seal, SealNothing, SealPut, SealPutFails, SealPersist, SealPersistFails, SealClear,
              durable, Written
<1>2. CASE Prune
  <2>1. CASE PruneHot
    BY <2>1 DEF PruneHot, Written
  <2>2. CASE PruneHotFails
    BY <2>2 DEF PruneHotFails, Written
  <2>3. QED
    BY <1>2, <2>1, <2>2
       DEF Prune, PruneLocked, PrunePersist, PrunePersistFails, PruneDrop, PruneRebuild, durable,
           Written
<1>3. CASE DeleteUser
  <2>1. CASE EraseHot
    BY <2>1 DEF EraseHot, Written
  <2>2. CASE EraseHotFails
    BY <2>2 DEF EraseHotFails, Written
  <2>3. QED
    BY <1>3, <2>1, <2>2
       DEF DeleteUser, EraseLocked, EraseSegment, EraseSegmentFails, ErasePersist,
           ErasePersistFails, EraseDrop, EraseNoSegment, durable, Written
<1>4. CASE Clear
  BY <1>4 DEF Clear, ClearDrop, ClearPersist, ClearPersistFails, ClearHot, Written
<1>5. CASE \E batch \in SUBSET Events : Append(batch)
  BY <1>5 DEF Append, Ingest, IngestUnsynced, Written
<1>6. CASE Crash \/ Open \/ OfflineScrub
  BY <1>6 DEF Crash, Open, OfflineScrub, Written
<1>7. CASE UNCHANGED vars
  BY <1>7 DEF vars, durable, Written
<1>8. QED
  BY <1>1, <1>2, <1>3, <1>4, <1>5, <1>6, <1>7
     DEF Next, Flush, Scan, ScanBegin, ScanSnapshot, ScanRead, ScanReadFails, ScanEnd,
         Verify, VerifyBegin, VerifySnapshot, VerifyRead, VerifyList, ScrubSweep, durable, Written

\* Nothing is written of an empty log.
LEMMA InitWritten == Init => Written
BY DEF Init, Written

\* Everything is held by the stored manifest or by the hot log.
LEMMA HeldNow ==
    ASSUME RefInv, InStep
    PROVE  Held = Holds(disk, blobs) \cup hot
BY DEF RefInv, SoundManifests, Sound, Resolves, InStep, Held, Cold, Content, Holds

\* The same after the step.
LEMMA HeldThen ==
    ASSUME RefInv', InStep'
    PROVE  Held' = Holds(disk', blobs') \cup hot'
BY DEF RefInv, SoundManifests, Sound, Resolves, InStep, Held, Cold, Content, Holds

\* The stored manifest is replaced by the one the holder prepared, or stays.
LEMMA DiskSteps ==
    ASSUME "clear" \notin Ops, "lostReply" \notin Faults, TypeInv, RefInv, [Next]_vars
    PROVE  disk' = disk \/ SealPersist \/ PrunePersist \/ ErasePersist
<1>1. CASE Seal
  BY <1>1 DEF Seal, SealNothing, SealPut, SealPutFails, SealPersistFails, SealClear,
              PersistFailed, durable
<1>2. CASE Prune
  BY <1>2 DEF Prune, PruneLocked, PrunePersistFails, PruneDrop, PruneHot, PruneHotFails,
              PruneRebuild,
              PersistFailed, durable
<1>3. CASE DeleteUser
  BY <1>3 DEF DeleteUser, EraseLocked, EraseSegment, EraseSegmentFails, ErasePersistFails,
              EraseDrop, EraseNoSegment, EraseHot, EraseHotFails, PersistFailed, durable
<1>4. CASE Clear
  BY <1>4 DEF Clear, ClearDrop, ClearPersist, ClearPersistFails, ClearHot, RefInv, Holding
<1>5. CASE UNCHANGED vars
  BY <1>5 DEF vars, durable
<1>6. QED
  BY <1>1, <1>2, <1>3, <1>4, <1>5
     DEF Next, Append, Ingest, IngestUnsynced, Flush, Scan, ScanBegin, ScanSnapshot, ScanRead,
         ScanReadFails, ScanEnd,
         Verify, VerifyBegin, VerifySnapshot, VerifyRead, VerifyList, ScrubSweep, Crash, Open,
         OfflineScrub, durable

\* The hot log grows by a batch, is sealed, loses its share of a removal, or is found to be
\* the last segment.
LEMMA HotSteps ==
    ASSUME "clear" \notin Ops, TypeInv, RefInv, [Next]_vars
    PROVE  \/ hot' = hot
           \/ \E batch \in SUBSET Events : Append(batch)
           \/ hot' = {} /\ pc = "sealClear" /\ pc' = "free" /\ up /\ UNCHANGED <<blobs, disk>>
           \/ PruneHot \/ EraseHot
           \/ hot' = {} /\ IsCrashWindow(disk) /\ UNCHANGED disk /\ ~up
           \/ Crash
<1>1. CASE Seal
  BY <1>1 DEF Seal, SealNothing, SealPut, SealPutFails, SealPersist, SealPersistFails, SealClear,
              Unlock, durable, TypeInv, SeqRoom
<1>2. CASE Prune
  BY <1>2 DEF Prune, PruneLocked, PrunePersist, PrunePersistFails, PruneDrop, PruneHotFails,
              PruneRebuild, durable
<1>3. CASE DeleteUser
  BY <1>3 DEF DeleteUser, EraseLocked, EraseSegment, EraseSegmentFails, ErasePersist,
              ErasePersistFails, EraseDrop, EraseNoSegment, EraseHotFails, durable
<1>4. CASE Clear
  BY <1>4 DEF Clear, ClearDrop, ClearPersist, ClearPersistFails, ClearHot, RefInv, Holding
<1>5. CASE Open \/ OfflineScrub
  BY <1>5 DEF Open, OfflineScrub, Recovered
<1>6. CASE UNCHANGED vars
  BY <1>6 DEF vars, durable
<1>7. QED
  BY <1>1, <1>2, <1>3, <1>4, <1>5, <1>6
     DEF Next, Flush, Scan, ScanBegin, ScanSnapshot, ScanRead, ScanReadFails, ScanEnd,
         Verify, VerifyBegin, VerifySnapshot, VerifyRead, VerifyList, ScrubSweep, durable

\* The segments of the stored manifest go on holding what they held.
LEMMA DiskHolds ==
    ASSUME "lostReply" \notin Faults, TypeInv, RefInv, RefInv', [Next]_vars, disk' = disk
    PROVE  Holds(disk', blobs') = Holds(disk, blobs)
<1>1. KeysOf(disk) \subseteq DOMAIN blobs'
  BY DEF RefInv, SoundManifests, Sound, Resolves
<1>2. up => seq \notin KeysOf(disk)
  BY KeyNumbers, BelowNext DEF RefInv, HandedOut
<1>3. QED
  BY <1>1, <1>2, SegmentsStay, HoldsKept

\* With fewer and smaller slots less is held.
LEMMA ShrunkHolds == ASSUME Shrunk PROVE Holds(next, blobs) \subseteq Holds(manifest, blobs)
BY HeldBySlot DEF Shrunk

\* Who is at work is not idle.
LEMMA IdleStages == PruneIdle.stage = "idle" /\ EraseIdle.stage = "idle"
BY DEF PruneIdle, EraseIdle

\* What the store holds grows by what is sent or sealed, or loses some of what is leaving.
LEMMA HeldSteps ==
    ASSUME "clear" \notin Ops, "scrub" \notin Ops, "lostReply" \notin Faults, TypeInv, RefInv,
           RefInv', InStep, InStep', Editing, Keeping, Written,
           [Next]_vars
    PROVE  \/ (\E batch \in SUBSET Events : Append(batch)) \/ SealPersist
           \/ Held' \subseteq Held /\ Held \ Held' \subseteq Leaving
<1> DEFINE Less == Held' \subseteq Held /\ Held \ Held' \subseteq Leaving
<1>1. Held = Holds(disk, blobs) \cup hot /\ Held' = Holds(disk', blobs') \cup hot'
  BY HeldNow, HeldThen
<1>2. CASE PrunePersist
  <2>1. /\ up /\ disk' = next /\ UNCHANGED <<blobs, hot>> /\ pc = "prunePersist"
        /\ disk = manifest
    BY <1>2 DEF PrunePersist, Persisted, TypeInv, SeqRoom, InStep
  <2>2. Holds(next, blobs) \subseteq Holds(manifest, blobs)
    BY <2>1, ShrunkHolds DEF Editing
  <2>3. Holds(manifest, blobs) \ Holds(next, blobs) \subseteq {e \in Events : e.ts < pruner.cutoff}
    BY <2>1 DEF Keeping
  <2>4. pruner # PruneIdle
    BY <2>1, IdleStages DEF Editing
  <2>5. QED
    BY <1>1, <2>1, <2>2, <2>3, <2>4 DEF Leaving
<1>3. CASE ErasePersist
  <2>1. /\ up /\ disk' = next /\ UNCHANGED <<blobs, hot>> /\ pc = "eraseSegment"
        /\ disk = manifest
    BY <1>3 DEF ErasePersist, Persisted, TypeInv, SeqRoom, InStep
  <2>2. Holds(next, blobs) \subseteq Holds(manifest, blobs)
    BY <2>1, ShrunkHolds DEF Editing
  <2>3. Holds(manifest, blobs) \ Holds(next, blobs) \subseteq Of(eraser.user)
    BY <2>1 DEF Keeping
  <2>4. eraser # EraseIdle
    BY <2>1, IdleStages DEF Editing
  <2>5. QED
    BY <1>1, <2>1, <2>2, <2>3, <2>4 DEF Leaving
<1>4. CASE disk' = disk
  <2>1. Holds(disk', blobs') = Holds(disk, blobs)
    BY <1>4, DiskHolds
  <2>2. CASE hot' = hot
    BY <1>1, <2>1, <2>2
  <2>3. CASE hot' = {} /\ pc = "sealClear" /\ up
    <3>1. hot \subseteq Holds(disk, blobs)
      BY <2>3 DEF Keeping, InStep
    <3>2. QED
      BY <1>1, <2>1, <2>3, <3>1
  <2>4. CASE PruneHot
    <3>1. hot' = {e \in hot : e.ts >= pruner.cutoff} /\ pruner.stage = "hot"
      BY <2>4 DEF PruneHot, Recent
    <3>2. \A e \in hot : e \in Events /\ e.ts \in Nat /\ pruner.cutoff \in Nat
      BY EventsAssumption DEF TypeInv, TypeOK, TypeDurable, TypeActors
    <3>3. hot' \subseteq hot /\ hot \ hot' \subseteq {e \in Events : e.ts < pruner.cutoff}
      BY <3>1, <3>2
    <3>4. pruner # PruneIdle
      BY <3>1, IdleStages
    <3>5. QED
      BY <1>1, <2>1, <3>3, <3>4 DEF Leaving
  <2>5. CASE EraseHot
    <3>1. hot' = hot \ Of(eraser.user) /\ eraser # EraseIdle
      BY <2>5, IdleStages DEF EraseHot
    <3>2. QED
      BY <1>1, <2>1, <3>1 DEF Leaving
  <2>6. CASE hot' = {} /\ IsCrashWindow(disk)
    <3>1. hot \subseteq Holds(disk, blobs)
      BY <2>6 DEF IsCrashWindow, Holds, KeysOf
    <3>2. QED
      BY <1>1, <2>1, <2>6, <3>1
  <2>7. CASE Crash
    BY <2>2, <2>7 DEF Crash, Written
  <2>8. QED
    BY <2>2, <2>3, <2>4, <2>5, <2>6, <2>7, HotSteps
<1>5. QED
  BY <1>2, <1>3, <1>4, DiskSteps

\* Sending and sealing change nothing of what is leaving.
LEMMA GrowthLeaves ==
    ASSUME RefInv, RefInv', Keeping, (\E batch \in SUBSET Events : Append(batch)) \/ SealPersist
    PROVE  Leaving' = Leaving
<1>1. pc \notin {"clearPersist", "clearHot"} /\ pc' \notin {"clearPersist", "clearHot"}
  BY DEF RefInv, Holding
<1>2. CASE SealPersist
  BY <1>1, <1>2 DEF SealPersist, actors, Leaving
<1>3. ASSUME NEW batch \in SUBSET Events, Append(batch) PROVE Leaving' = Leaving
  <2>1. /\ pruner' = pruner
        /\ eraser' = [stage |-> eraser.stage, user |-> eraser.user,
                      cold |-> eraser.cold \ batch, hot |-> eraser.hot \ batch]
    BY <1>3 DEF Append, Ingest, IngestUnsynced
  <2>2. ASSUME eraser = EraseIdle PROVE eraser' = EraseIdle
    BY <2>1, <2>2 DEF EraseIdle
  <2>3. eraser # EraseIdle => eraser' # EraseIdle /\ eraser'.user = eraser.user
    <3>1. eraser'.stage = eraser.stage /\ eraser'.user = eraser.user
      BY <2>1
    <3>2. QED
      BY <3>1, IdleStages DEF Keeping
  <2>4. QED
    BY <1>1, <2>1, <2>2, <2>3 DEF Leaving
<1>4. QED
  BY <1>2, <1>3

\* What is leaving grows by what one call is to remove, or shrinks.
LEMMA LeavingSteps ==
    ASSUME "clear" \notin Ops, TypeInv, RefInv, RefInv', Editing, Keeping, [Next]_vars
    PROVE  Leaving' \subseteq Leaving \/ \E request \in Promise!Requests : Leaving' = Leaving \cup request
<1>1. pc \notin {"clearPersist", "clearHot"} /\ pc' \notin {"clearPersist", "clearHot"}
  BY DEF RefInv, Holding
<1>2. ASSUME NEW cutoff \in Cutoffs, PruneLocked(cutoff), pruner'.cutoff = cutoff,
             pruner'.stage # "idle"
      PROVE  \E request \in Promise!Requests : Leaving' = Leaving \cup request
  <2>1. pruner = PruneIdle /\ pruner' # PruneIdle /\ eraser' = eraser
    BY <1>2, IdleStages DEF PruneLocked
  <2>2. Leaving' = Leaving \cup Promise!Prune(cutoff)
    BY <1>1, <1>2, <2>1 DEF Leaving, Promise!Prune
  <2>3. QED
    BY <2>2 DEF Promise!Requests
<1>3. ASSUME NEW user \in Users, EraseLocked(user), eraser'.user = user, eraser'.stage # "idle"
      PROVE  \E request \in Promise!Requests : Leaving' = Leaving \cup request
  <2>1. eraser = EraseIdle /\ eraser' # EraseIdle /\ pruner' = pruner
    BY <1>3, IdleStages DEF EraseLocked
  <2>2. Leaving' = Leaving \cup Promise!DeleteUser(user)
    BY <1>1, <1>3, <2>1 DEF Leaving, Of, Promise!DeleteUser
  <2>3. QED
    BY <2>2 DEF Promise!Requests, Users
<1>4. CASE /\ \/ pruner' \in {pruner, PruneIdle}
              \/ pruner # PruneIdle /\ pruner'.stage # "idle" /\ pruner'.cutoff = pruner.cutoff
           /\ \/ eraser' \in {eraser, EraseIdle}
              \/ eraser # EraseIdle /\ eraser'.stage # "idle" /\ eraser'.user = eraser.user
  BY <1>1, <1>4, IdleStages DEF Leaving
<1>5. QED
  BY <1>2, <1>3, <1>4, PrunerSteps, EraserSteps DEF Keeping

\* The steps of the store are steps of EventStore.
LEMMA NextPromise ==
    ASSUME "clear" \notin Ops, "scrub" \notin Ops, "lostReply" \notin Faults, TypeInv, RefInv,
           RefInv', InStep, InStep', Editing, Keeping, Written, [Next]_vars
    PROVE  [Promise!Next]_<<Held, Leaving>>
<1>1. CASE (\E batch \in SUBSET Events : Append(batch)) \/ SealPersist
  <2>1. Leaving' = Leaving
    BY <1>1, GrowthLeaves
  <2>2. Held = Holds(disk, blobs) \cup hot /\ Held' = Holds(disk', blobs') \cup hot'
    BY HeldNow, HeldThen
  <2>3. \E batch \in SUBSET Events : Held' = Held \cup batch
    <3>1. ASSUME NEW batch \in SUBSET Events, Append(batch) PROVE Held' = Held \cup batch
      BY <2>2, <3>1 DEF Append, Ingest, IngestUnsynced
    <3>2. CASE SealPersist
      <4>1. /\ disk' = next /\ disk = manifest /\ UNCHANGED <<blobs, hot>>
            /\ Holds(manifest, blobs) \cup hot \subseteq Holds(next, blobs)
        BY <3>2 DEF SealPersist, Persisted, TypeInv, SeqRoom, InStep, Keeping
      <4>2. Holds(next, blobs) \subseteq Events
        BY DEF Holds, RefInv, SoundManifests, Sound, Resolves, TypeInv, TypeOK, TypeDurable
      <4>3. Held' = Held \cup Holds(next, blobs)
        BY <2>2, <4>1
      <4>4. QED
        BY <4>2, <4>3
    <3>3. QED
      BY <1>1, <3>1, <3>2
  <2>4. QED
    BY <2>1, <2>3 DEF Promise!Next, Promise!Ingest
<1>2. CASE Held' \subseteq Held /\ Held \ Held' \subseteq Leaving
  <2>1. Promise!Remove
    BY <1>2, LeavingSteps DEF Promise!Remove
  <2>2. QED
    BY <2>1 DEF Promise!Next
<1>3. QED
  BY <1>1, <1>2, HeldSteps

\* The empty store satisfies the invariants, and is the empty EventStore.
LEMMA InitPromise == Init => Editing /\ Keeping /\ Promise!Init
<1> SUFFICES ASSUME Init PROVE Editing /\ Keeping /\ Promise!Init
  OBVIOUS
<1>1. Editing /\ Keeping
  BY EmptyHolds DEF Init, Editing, Keeping
<1>2. Held = {}
  BY EmptySound DEF Init, Held, Cold, Content
<1>3. Leaving = {}
  BY DEF Init, Leaving
<1>4. QED
  BY <1>1, <1>2, <1>3 DEF Promise!Init

\* What the holder prepares is right whenever anybody looks.
LEMMA KeepingInvariant ==
    ASSUME "clear" \notin Ops, "scrub" \notin Ops, "lostReply" \notin Faults
    PROVE  Spec => [](TypeInv /\ RefInv /\ ContentInv /\ Editing /\ Keeping)
<1>1. TypeInv /\ RefInv /\ ContentInv /\ Editing /\ Keeping /\ [Next]_vars => Editing' /\ Keeping'
  BY NextEditing, NextKeeping DEF ContentInv
<1>2. QED
  BY <1>1, InitPromise, ContentInvariant, PTL DEF Spec

\* The store keeps the promise of the Store interface, by every failure but a lost reply
\* and a truncation that fails,
\* with a crash between any two steps: an event enters by being sent (or, sealed while its
\* erasure runs, once more), and leaves only while a call that is to remove it runs.
THEOREM KeepsPromise ==
    ASSUME "clear" \notin Ops, "scrub" \notin Ops, Faults \cap {"lostReply", "truncate"} = {}
    PROVE  Spec => ImplementsEventStore
<1> DEFINE Inv == TypeInv /\ RefInv /\ ContentInv /\ Editing /\ Keeping /\ Written
<1>1. Spec => []Inv
  <2>1. "lostReply" \notin Faults /\ "truncate" \notin Faults
    OBVIOUS
  <2>2. Written /\ [Next]_vars => Written'
    BY <2>1, NextWritten
  <2>3. Spec => [](TypeInv /\ RefInv /\ ContentInv /\ Editing /\ Keeping)
    BY <2>1, KeepingInvariant
  <2>4. QED
    BY <2>2, <2>3, InitWritten, PTL DEF Spec
<1>2. Inv /\ Inv' /\ [Next]_vars => [Promise!Next]_<<Held, Leaving>>
  BY NextPromise DEF ContentInv
<1>3. Init => Promise!Init
  BY InitPromise
<1> HIDE DEF Inv
<1>4. QED
  BY <1>1, <1>2, <1>3, PTL DEF Spec, ImplementsEventStore, Promise!Spec

-----------------------------------------------------------------------------
\* Every event in one place.

\* With crashes, recovery can tell the hot log of an interrupted seal only as long as nothing
\* else shortens it, its reply was not lost, the log's own truncation does not fail, and the
\* segment can be read.
CrashSafe ==
    \/ MaxCrashes = 0
    \/ Ops \cap {"prune", "erase"} = {} /\ Faults \cap {"lostReply", "get", "truncate"} = {}

\* Who is not among the operations in use never works.
Unused ==
    /\ "prune" \notin Ops => pruner = PruneIdle
    /\ "erase" \notin Ops => eraser = EraseIdle
    /\ pruner.stage = "idle" => pruner = PruneIdle
    /\ eraser.stage = "idle" => eraser = EraseIdle

\* A pass that is not in use is never started, and one that is over leaves nothing behind.
LEMMA NextUnused == ASSUME TypeInv, Editing, Unused, [Next]_vars PROVE Unused'
<1>1. ASSUME "prune" \notin Ops PROVE pruner' = PruneIdle
  <2>1. ~ \E cutoff \in Cutoffs : PruneLocked(cutoff) /\ pruner'.cutoff = cutoff
    BY <1>1 DEF PruneLocked
  <2>2. QED
    BY <1>1, <2>1, PrunerSteps DEF Unused
<1>2. ASSUME "erase" \notin Ops PROVE eraser' = EraseIdle
  <2>1. ~ \E user \in Users : EraseLocked(user) /\ eraser'.user = user
    BY <1>2 DEF EraseLocked
  <2>2. QED
    BY <1>2, <2>1, EraserSteps DEF Unused
<1>3. /\ pruner.stage = "idle" => pruner = PruneIdle
      /\ eraser.stage = "idle" => eraser = EraseIdle
  BY DEF Unused
<1>4. pruner'.stage = "idle" => pruner' = PruneIdle
  BY <1>3, PrunerSteps
<1>5. eraser'.stage = "idle" => eraser' = EraseIdle
  BY <1>3, EraserSteps
<1>6. QED
  BY <1>1, <1>2, <1>4, <1>5 DEF Unused

\* The manifest in force is replaced when the holder persists, by a crash and by Open.
LEMMA MemorySteps ==
    ASSUME "clear" \notin Ops, TypeInv, RefInv, [Next]_vars
    PROVE  UNCHANGED <<manifest,
    up>> \/ SealPersist \/ PrunePersist \/ ErasePersist \/ Crash \/ Open
<1>1. CASE Seal
  BY <1>1 DEF Seal, SealNothing, SealPut, SealPutFails, SealPersistFails, SealClear, memory
<1>2. CASE Prune
  BY <1>2 DEF Prune, PruneLocked, PrunePersistFails, PruneDrop, PruneHot, PruneHotFails,
              PruneRebuild, memory
<1>3. CASE DeleteUser
  BY <1>3 DEF DeleteUser, EraseLocked, EraseSegment, EraseSegmentFails, ErasePersistFails,
              EraseDrop, EraseNoSegment, EraseHot, EraseHotFails, memory
<1>4. CASE Clear
  BY <1>4 DEF Clear, ClearDrop, ClearPersist, ClearPersistFails, ClearHot, RefInv, Holding
<1>5. CASE UNCHANGED vars
  BY <1>5 DEF vars, memory
<1>6. QED
  BY <1>1, <1>2, <1>3, <1>4, <1>5
     DEF Next, Append, Ingest, IngestUnsynced, Flush, Scan, ScanBegin, ScanSnapshot, ScanRead,
         ScanReadFails, ScanEnd,
         Verify, VerifyBegin, VerifySnapshot, VerifyRead, VerifyList, ScrubSweep, OfflineScrub,
         memory

\* What clients have sent they have sent.
LEMMA SentGrows == ASSUME [Next]_vars PROVE sent \subseteq sent'
<1>1. CASE Seal
  BY <1>1 DEF Seal, SealNothing, SealPut, SealPutFails, SealPersist, SealPersistFails, SealClear,
              ghosts
<1>2. CASE Prune
  BY <1>2 DEF Prune, PruneLocked, PrunePersist, PrunePersistFails, PruneDrop, PruneHot,
              PruneHotFails,
              PruneRebuild, ghosts
<1>3. CASE DeleteUser
  BY <1>3 DEF DeleteUser, EraseLocked, EraseSegment, EraseSegmentFails, ErasePersist,
              ErasePersistFails, EraseDrop, EraseNoSegment, EraseHot, EraseHotFails, ghosts
<1>4. CASE Clear
  BY <1>4 DEF Clear, ClearDrop, ClearPersist, ClearPersistFails, ClearHot, ghosts
<1>5. CASE UNCHANGED vars
  BY <1>5 DEF vars, ghosts
<1>6. QED
  BY <1>1, <1>2, <1>3, <1>4, <1>5
     DEF Next, Append, Ingest, IngestUnsynced, Flush, Scan, ScanBegin, ScanSnapshot, ScanRead,
         ScanReadFails, ScanEnd,
         Verify, VerifyBegin, VerifySnapshot, VerifyRead, VerifyList, ScrubSweep, Crash, Open,
         OfflineScrub, ghosts

\* A seal is done when the hot log is empty.
LEMMA SealEnds == ASSUME [Next]_vars, pc = "sealClear", up' PROVE pc' = pc \/ hot' = {}
<1>1. CASE Seal
  BY <1>1 DEF Seal, SealNothing, SealPut, SealPutFails, SealPersist, SealPersistFails, SealClear
<1>2. CASE Prune
  BY <1>2 DEF Prune, PruneLocked, PrunePersist, PrunePersistFails, PruneDrop, PruneHot,
              PruneHotFails,
              PruneRebuild, locals
<1>3. CASE DeleteUser
  BY <1>3 DEF DeleteUser, EraseLocked, EraseSegment, EraseSegmentFails, ErasePersist,
              ErasePersistFails, EraseDrop, EraseNoSegment, EraseHot, EraseHotFails, Lock, locals
<1>4. CASE Clear
  BY <1>4 DEF Clear, ClearDrop, ClearPersist, ClearPersistFails, ClearHot, Lock
<1>5. CASE UNCHANGED vars
  BY <1>5 DEF vars, locals
<1>6. QED
  BY <1>1, <1>2, <1>3, <1>4, <1>5
     DEF Next, Append, Ingest, IngestUnsynced, Flush, Lock, Scan, ScanBegin, ScanSnapshot,
         ScanRead, ScanReadFails,
         ScanEnd, Verify, VerifyBegin, VerifySnapshot, VerifyRead, VerifyList, ScrubSweep, Crash,
         Open, OfflineScrub, locals

\* The sealed block is a segment of its own, and the last one.
LEMMA SealPutCopies ==
    ASSUME TypeInv, RefInv, Editing, CopyInv, SealPut
    PROVE  /\ Disjoint(next', blobs') /\ Holds(next', blobs') \subseteq sent
           /\ IsLast(next)'
<1>1. /\ up /\ pc = "sealPut" /\ hot' = hot
      /\ blobs' = Write(blobs, seq, hot) /\ next' = Write(manifest, seq, MetaOf(seq, hot))
  BY DEF SealPut, TypeInv, SeqRoom
<1>2. /\ seq \notin KeysOf(manifest) /\ seq \notin DOMAIN manifest
      /\ KeysOf(manifest) \subseteq DOMAIN blobs
  BY <1>1, NextKey, NewSlot DEF RefInv, SoundManifests, Sound, Resolves
<1>3. /\ DOMAIN next' = DOMAIN manifest \cup {seq} /\ next'[seq].key = seq
      /\ \A i \in DOMAIN manifest : next'[i] = manifest[i]
  BY <1>1, <1>2 DEF Write, MetaOf
<1>4. blobs'[seq] = hot /\ \A i \in DOMAIN manifest : blobs'[manifest[i].key] = blobs[manifest[i].key]
  BY <1>1, <1>2 DEF Write, KeysOf
<1>5. \A i \in DOMAIN manifest : hot \cap blobs[manifest[i].key] = {}
  BY <1>1, HeldBySlot DEF CopyInv
<1>6. Disjoint(next', blobs')
  BY <1>3, <1>4, <1>5 DEF CopyInv, Disjoint
<1>7. Holds(next', blobs') \subseteq sent
  BY SealPutHolds DEF CopyInv
<1>8. IsLast(next)'
  <2>1. \A i \in DOMAIN manifest : i \in Nat /\ manifest[i].key \in Nat
    BY KeysFinite DEF TypeInv, TypeOK, TypeProcess, IsManifest, Entries
  <2>2. \A i \in DOMAIN manifest : manifest[i].key < seq /\ i <= manifest[i].key
    BY <1>1 DEF RefInv, HandedOut, Below, KeysOf, Editing, Ordered
  <2>3. IsMax(seq, DOMAIN next')
    BY <1>3, <2>1, <2>2, KeyNumbers DEF IsMax
  <2>4. QED
    BY <1>1, <1>3, <1>4, <2>3 DEF IsLast
<1>9. QED
  BY <1>6, <1>7, <1>8

\* With smaller slots, slots are as disjoint.
LEMMA ShrunkDisjoint == ASSUME Shrunk, Disjoint(manifest, blobs) PROVE Disjoint(next, blobs)
BY DEF Shrunk, Disjoint

\* A step that leaves the manifest in force alone puts nothing in a second place.
LEMMA CopiesKept ==
    ASSUME "clear" \notin Ops, "scrub" \notin Ops, Resend = FALSE, TypeInv, RefInv, RefInv',
    Editing,
           CopyInv, [Next]_vars, UNCHANGED <<manifest, up>>
    PROVE  /\ Disjoint(manifest', blobs') /\ Holds(manifest', blobs') = Holds(manifest, blobs)
           /\ Holds(manifest', blobs') \cup hot' \subseteq sent'
           /\ up' /\ pc' # "sealClear" => hot' \cap Holds(manifest', blobs') = {}
           /\ pc' = "sealPersist" => Disjoint(next', blobs') /\ Holds(next', blobs') \subseteq sent'
<1>1. \A k \in KeysOf(manifest) : blobs'[k] = blobs[k]
  <2>1. KeysOf(manifest) \subseteq DOMAIN blobs'
    BY DEF RefInv, SoundManifests, Sound, Resolves
  <2>2. QED
    BY <2>1, NextKey, SegmentsStay
<1>2. Disjoint(manifest', blobs') /\ Holds(manifest', blobs') = Holds(manifest, blobs)
  BY <1>1, HoldsKept DEF CopyInv, Disjoint, KeysOf
<1>3. Holds(manifest, blobs) \cup hot \subseteq sent /\ sent \subseteq sent'
  BY SentGrows DEF CopyInv
<1>4. hot' \subseteq sent' /\ (up' /\ pc' # "sealClear" => hot' \cap Holds(manifest, blobs) = {})
  <2>1. ASSUME NEW batch \in SUBSET Events, Append(batch)
        PROVE  hot' \subseteq sent' /\ hot' \cap Holds(manifest, blobs) = {}
    <3>1. /\ up /\ pc = "free" /\ hot' = hot \cup batch /\ sent' = sent \cup batch
          /\ batch \cap sent \subseteq hot
      BY <2>1 DEF Append, Ingest, IngestUnsynced, MaySend
    <3>2. hot \cap Holds(manifest, blobs) = {}
      BY <3>1 DEF CopyInv
    <3>3. QED
      BY <1>3, <3>1, <3>2
  <2>2. CASE hot' \subseteq hot
    <3>1. up' /\ pc' # "sealClear" => hot' = {} \/ (up /\ pc # "sealClear")
      BY SealEnds
    <3>2. up /\ pc # "sealClear" => hot \cap Holds(manifest, blobs) = {}
      BY DEF CopyInv
    <3>3. QED
      BY <1>3, <2>2, <3>1, <3>2
  <2>3. hot' \subseteq hot \/ \E batch \in SUBSET Events : Append(batch)
    BY HotSteps DEF PruneHot, Recent, EraseHot, Crash
  <2>4. QED
    BY <2>1, <2>2, <2>3
<1>5. ASSUME pc' = "sealPersist"
      PROVE  Disjoint(next', blobs') /\ Holds(next', blobs') \subseteq sent'
  <2>1. CASE SealPut
    BY <1>3, <2>1, SealPutCopies
  <2>2. CASE UNCHANGED <<pc, blobs, next>>
    BY <1>3, <1>5, <2>2 DEF CopyInv
  <2>3. QED
    BY <1>5, <2>1, <2>2, MutexSteps
       DEF SealPersist, PruneLocked, locals, PrunePersist, EraseLocked, Lock, EraseSegment,
           ErasePersist
<1>6. QED
  BY <1>2, <1>3, <1>4, <1>5

\* With crashes only a seal and recovery shorten the hot log, and recovery tells it.
LEMMA CrashCopies ==
    ASSUME "clear" \notin Ops, "scrub" \notin Ops, CrashSafe, MaxCrashes # 0, TypeInv, RefInv,
           RefInv', ContentInv, Editing, Unused, CopyInv, Written, [Next]_vars
    PROVE  /\ pc' = "sealPersist" => IsLast(next)'
           /\ pc' = "sealClear" => IsLast(manifest)'
           /\ ~up' => /\ Disjoint(disk', blobs') /\ Holds(disk', blobs') \subseteq sent'
                      /\ hot' \cap Holds(disk', blobs') = {} \/ IsLast(disk)'
<1>1. /\ pruner = PruneIdle /\ eraser = EraseIdle
      /\ "lostReply" \notin Faults /\ "get" \notin Faults /\ "prune" \notin Ops /\ "erase" \notin Ops
  BY DEF CrashSafe, Unused
<1>2. ~PruneHot /\ ~EraseHot
  BY <1>1, IdleStages DEF PruneHot, EraseHot
<1>3. (pc # "free" => up) /\ sent \subseteq sent'
  BY SentGrows DEF TypeInv, SeqRoom
<1>4. ASSUME pc' = pc, pc # "free" PROVE hot' = hot
  BY <1>2, <1>3, <1>4, HotSteps DEF Append, Ingest, IngestUnsynced, Crash, Unlock
<1>5. ASSUME pc' = "sealPersist" PROVE IsLast(next)'
  <2>1. CASE SealPut
    BY <2>1, SealPutCopies
  <2>2. CASE UNCHANGED <<pc, blobs, next>>
    BY <1>4, <1>5, <2>2 DEF CopyInv, IsLast
  <2>3. QED
    BY <1>5, <2>1, <2>2, MutexSteps
       DEF SealPersist, PruneLocked, locals, PrunePersist, EraseLocked, Lock, EraseSegment,
           ErasePersist
<1>6. ASSUME pc' = "sealClear" PROVE IsLast(manifest)'
  <2>1. CASE SealPersist
    BY <2>1 DEF SealPersist, CopyInv, IsLast
  <2>2. CASE UNCHANGED <<pc, blobs, manifest>>
    BY <1>4, <1>6, <2>2 DEF CopyInv, IsLast
  <2>3. QED
    BY <1>6, <2>1, <2>2, MutexSteps
       DEF SealPut, PruneLocked, locals, PrunePersist, EraseLocked, Lock, EraseSegment, ErasePersist
<1>7. ASSUME ~up'
      PROVE  /\ Disjoint(disk', blobs') /\ Holds(disk', blobs') \subseteq sent'
             /\ hot' \cap Holds(disk', blobs') = {} \/ IsLast(disk)'
  <2>1. CASE Crash
    <3>1. up /\ disk = manifest /\ UNCHANGED <<blobs, disk, hot>>
      BY <2>1 DEF Crash, Written, ContentInv, InStep
    <3>2. hot \cap Holds(disk, blobs) = {} \/ IsLast(disk)
      BY <3>1 DEF CopyInv, IsLast
    <3>3. QED
      BY <1>3, <3>1, <3>2 DEF CopyInv, IsLast
  <2>2. CASE UNCHANGED up
    <3>1. ~up /\ disk' = disk
      BY <1>3, <1>7, <2>2, <1>1, DiskSteps DEF SealPersist, PrunePersist, ErasePersist
    <3>2. \A k \in KeysOf(disk) : blobs'[k] = blobs[k]
      <4>1. KeysOf(disk) \subseteq DOMAIN blobs'
        BY <3>1 DEF RefInv, SoundManifests, Sound, Resolves
      <4>2. QED
        BY <3>1, <4>1, SegmentsStay
    <3>3. hot' \in {hot, {}}
      BY <1>2, <3>1, HotSteps DEF Append, Ingest, IngestUnsynced, Crash
    <3>4. Holds(disk', blobs') = Holds(disk, blobs) /\ Disjoint(disk', blobs')
      BY <3>1, <3>2, HoldsKept DEF CopyInv, Disjoint, KeysOf
    <3>5. IsLast(disk) /\ hot' = hot => IsLast(disk)'
      BY <3>1, <3>2 DEF IsLast, KeysOf
    <3>6. QED
      BY <1>3, <3>1, <3>3, <3>4, <3>5 DEF CopyInv
  <2>3. QED
    BY <1>1, <1>3, <1>7, <2>1, <2>2, MemorySteps DEF SealPersist, PrunePersist, ErasePersist, Open
<1>8. QED
  BY <1>5, <1>6, <1>7

\* Open finds every event once.
LEMMA OpenCopies ==
    ASSUME CrashSafe, MaxCrashes # 0, TypeInv, RefInv, ContentInv, CopyInv, Open
    PROVE  /\ Disjoint(manifest', blobs') /\ Holds(manifest', blobs') \cup hot' \subseteq sent'
           /\ hot' \cap Holds(manifest', blobs') = {}
<1>1. /\ ~up /\ manifest' = disk /\ UNCHANGED <<blobs, sent>> /\ hot' \in Recovered(disk)
      /\ "get" \notin Faults
  BY DEF Open, ghosts, CrashSafe
<1>2. hot' = IF IsCrashWindow(disk) THEN {} ELSE hot
  BY <1>1 DEF Recovered
<1>3. Disjoint(disk, blobs) /\ Holds(disk, blobs) \cup hot \subseteq sent
  BY <1>1 DEF CopyInv
<1>4. CASE hot \cap Holds(disk, blobs) = {}
  BY <1>1, <1>2, <1>3, <1>4
<1>5. CASE IsLast(disk)
  <2>1. PICK i \in DOMAIN disk : IsMax(i, DOMAIN disk) /\ hot = blobs[disk[i].key]
    BY <1>5 DEF IsLast
  <2>2. disk[i].key \in DOMAIN blobs /\ disk[i] = MetaOf(disk[i].key, blobs[disk[i].key])
    BY DEF RefInv, SoundManifests, Sound, Resolves, KeysOf, ContentInv, Described, Intact
  <2>3. disk[i].count = Cardinality(hot)
    <3>1. MetaOf(disk[i].key, blobs[disk[i].key]).count = Cardinality(blobs[disk[i].key])
      BY DEF MetaOf
    <3>2. QED
      BY <2>1, <2>2, <3>1
  <2>4. IsCrashWindow(disk)
    BY <2>1, <2>2, <2>3 DEF IsCrashWindow
  <2>5. QED
    BY <1>1, <1>2, <1>3, <2>4
<1>6. QED
  BY <1>1, <1>4, <1>5 DEF CopyInv

\* Every step keeps every event in one place.
LEMMA NextCopies ==
    ASSUME "clear" \notin Ops, "scrub" \notin Ops, Resend = FALSE, CrashSafe, TypeInv, RefInv,
           RefInv', MaxCrashes # 0 => ContentInv /\ Written, Editing, Unused, CopyInv, [Next]_vars
    PROVE  CopyInv'
<1>1. MaxCrashes # 0 =>
          /\ pc' = "sealPersist" => IsLast(next)'
          /\ pc' = "sealClear" => IsLast(manifest)'
          /\ ~up' => /\ Disjoint(disk', blobs') /\ Holds(disk', blobs') \subseteq sent'
                     /\ hot' \cap Holds(disk', blobs') = {} \/ IsLast(disk)'
  BY CrashCopies
<1>2. sent \subseteq sent' /\ (pc # "free" => up)
  BY SentGrows DEF TypeInv, SeqRoom
<1>3. CASE UNCHANGED <<manifest, up>>
  BY <1>1, <1>3, CopiesKept DEF CopyInv
<1>4. CASE SealPersist
  <2>1. /\ pc = "sealPersist" /\ pc' = "sealClear" /\ manifest' = next
        /\ UNCHANGED <<blobs, hot, up, sent>>
    BY <1>4 DEF SealPersist, ghosts
  <2>2. QED
    BY <1>1, <1>2, <2>1 DEF CopyInv
<1>5. CASE PrunePersist \/ ErasePersist
  <2>1. /\ pc \in {"prunePersist", "eraseSegment"} /\ pc' \in {"pruneDrop", "eraseDrop"}
        /\ manifest' = next /\ UNCHANGED <<blobs, hot, up, sent>>
    BY <1>5 DEF PrunePersist, ErasePersist, ghosts
  <2>2. Disjoint(next, blobs) /\ Holds(next, blobs) \subseteq Holds(manifest, blobs)
    BY <2>1, ShrunkHolds, ShrunkDisjoint DEF CopyInv, Editing
  <2>3. QED
    BY <1>1, <1>2, <2>1, <2>2 DEF CopyInv
<1>6. CASE Crash
  <2>1. /\ MaxCrashes # 0 /\ manifest' = Empty /\ ~up' /\ pc' = "free"
        /\ UNCHANGED <<blobs, hot, sent>>
    BY <1>6, BoundsAssumption DEF Crash, Unlock, Written, TypeInv, TypeOK, TypeGhosts
  <2>2. QED
    BY <1>1, <2>1, EmptyHolds DEF CopyInv
<1>7. CASE Open
  <2>1. up' /\ MaxCrashes # 0 /\ pc' = "free"
    BY <1>7, <1>2 DEF Open, CopyInv, locals
  <2>2. QED
    BY <1>1, <1>7, <2>1, OpenCopies DEF CopyInv
<1>8. QED
  BY <1>3, <1>4, <1>5, <1>6, <1>7, MemorySteps

\* Outside of sending, no event gets to a place while the server runs.
LEMMA PlacesSteps ==
    ASSUME "clear" \notin Ops, "scrub" \notin Ops, Resend = FALSE, MaxCrashes = 0, TypeInv, RefInv,
           RefInv', Editing, CopyInv, [Next]_vars
    PROVE  \/ Places' \subseteq Places
           \/ \E batch \in SUBSET Events : Append(batch) /\ Places' \subseteq Places \cup batch
<1>1. up /\ ~Crash /\ ~Open
  BY BoundsAssumption DEF CopyInv, Crash, Open, TypeInv, TypeOK, TypeGhosts
<1>2. CASE UNCHANGED <<manifest, up>>
  <2>1. Holds(manifest', blobs') = Holds(manifest, blobs)
    BY <1>2, CopiesKept
  <2>2. pc' = "sealPersist" => Holds(next', blobs') \subseteq Places
    <3>1. CASE SealPut
      BY <3>1, SealPutHolds DEF Places
    <3>2. CASE UNCHANGED <<pc, blobs, next>>
      BY <3>2 DEF Places
    <3>3. pc' = "sealPersist" => SealPut \/ UNCHANGED <<pc, blobs, next>>
      BY MutexSteps
         DEF SealPersist, PruneLocked, locals, PrunePersist, EraseLocked, Lock, EraseSegment,
             ErasePersist
    <3>4. QED
      BY <3>1, <3>2, <3>3
  <2>3. hot' \subseteq hot \/ \E batch \in SUBSET Events : Append(batch) /\ hot' = hot \cup batch
    BY <1>1, HotSteps DEF PruneHot, Recent, EraseHot, Append, Ingest, IngestUnsynced
  <2>4. QED
    BY <2>1, <2>2, <2>3 DEF Places
<1>3. CASE SealPersist
  BY <1>3 DEF SealPersist, Places
<1>4. CASE PrunePersist \/ ErasePersist
  <2>1. /\ pc \in {"prunePersist", "eraseSegment"} /\ pc' \in {"pruneDrop", "eraseDrop"}
        /\ manifest' = next /\ UNCHANGED <<blobs, hot>>
    BY <1>4 DEF PrunePersist, ErasePersist
  <2>2. Holds(next, blobs) \subseteq Holds(manifest, blobs)
    BY <2>1, ShrunkHolds DEF Editing
  <2>3. QED
    BY <2>1, <2>2 DEF Places
<1>5. QED
  BY <1>1, <1>2, <1>3, <1>4, MemorySteps

\* Only DeleteUser, done with the segments, adds to what is erased; who sends again takes away.
LEMMA ErasedSteps ==
    ASSUME [Next]_vars
    PROVE  \/ Erased' \subseteq Erased
           \/ (EraseDrop \/ EraseNoSegment) /\ Erased' \subseteq Erased \cup eraser.cold
<1>1. CASE Seal
  BY <1>1 DEF Seal, SealNothing, SealPut, SealPutFails, SealPersist, SealPersistFails, SealClear,
              actors, ghosts, Erased
<1>2. CASE Prune
  BY <1>2 DEF Prune, PruneLocked, PrunePersist, PrunePersistFails, PruneDrop, PruneHot,
              PruneHotFails,
              PruneRebuild, actors, ghosts, Erased
<1>3. CASE \E user \in Users : EraseLocked(user)
  BY <1>3 DEF EraseLocked, ghosts, Erased
<1>4. CASE \E i \in todo : EraseSegment(i) \/ EraseSegmentFails(i)
  <2>1. gone' = gone /\ eraser' \in {eraser, EraseIdle}
    BY <1>4 DEF EraseSegment, EraseSegmentFails, actors, ghosts
  <2>2. QED
    BY <2>1, IdleStages DEF Erased
<1>5. CASE ErasePersist \/ ErasePersistFails
  <2>1. gone' = gone /\ eraser' \in {eraser, EraseIdle}
    BY <1>5 DEF ErasePersist, ErasePersistFails, actors, ghosts
  <2>2. QED
    BY <2>1, IdleStages DEF Erased
<1>6. CASE EraseHot
  <2>1. /\ gone'.cold = gone.cold \cup eraser.cold /\ eraser' = EraseIdle
        /\ eraser.stage = "hot"
    BY <1>6 DEF EraseHot
  <2>2. QED
    BY <2>1, IdleStages DEF Erased
<1>7. CASE EraseDrop \/ EraseNoSegment
  <2>1. gone' = gone /\ eraser' = [eraser EXCEPT !.stage = "hot"]
    BY <1>7 DEF EraseDrop, EraseNoSegment, ghosts
  <2>2. QED
    BY <1>7, <2>1 DEF Erased
<1>8. CASE Clear
  BY <1>8 DEF Clear, ClearDrop, ClearPersist, ClearPersistFails, ClearHot, actors, ghosts, Erased
<1>9. CASE \E batch \in SUBSET Events : Append(batch)
  BY <1>9 DEF Append, Ingest, IngestUnsynced, Erased
<1>10. CASE Crash
  BY <1>10 DEF Crash, EraseIdle, Erased
<1>11. CASE UNCHANGED vars
  BY <1>11 DEF vars, actors, ghosts, Erased
<1>12. CASE EraseHotFails
  BY <1>12, IdleStages DEF EraseHotFails, ghosts, Erased
<1>13. QED
  BY <1>1, <1>2, <1>3, <1>4, <1>5, <1>6, <1>7, <1>8, <1>9, <1>10, <1>11, <1>12
     DEF Next, DeleteUser, Flush, Scan, ScanBegin, ScanSnapshot, ScanRead, ScanReadFails, ScanEnd,
         Verify, VerifyBegin, VerifySnapshot, VerifyRead, VerifyList, ScrubSweep, Open,
         OfflineScrub, actors, ghosts, Erased

\* What the eraser has noted of sealed segments is its user's, and shrinks by what is sent again.
LEMMA NotedSteps ==
    ASSUME TypeInv, RefInv, [Next]_vars
    PROVE  \/ eraser'.user = eraser.user /\ eraser'.cold \subseteq eraser.cold
           \/ eraser' = EraseIdle
           \/ \E user \in Users : /\ EraseLocked(user) /\ eraser'.user = user
                                  /\ eraser'.cold = Holds(manifest, blobs) \cap Of(user)
<1>1. eraser \in [stage : {"idle", "locked", "hot"}, user : Users \cup {""},
                 cold : SUBSET Events, hot : SUBSET Events]
  BY DEF TypeInv, TypeOK, TypeActors
<1>2. ASSUME NEW user \in Users, EraseLocked(user)
      PROVE  eraser'.user = user /\ eraser'.cold = Holds(manifest, blobs) \cap Of(user)
  <2>1. Cold(manifest) = Holds(manifest, blobs)
    BY DEF RefInv, SoundManifests, Sound, Resolves, Cold, Content, Holds
  <2>2. QED
    BY <1>2, <2>1 DEF EraseLocked
<1>3. CASE EraseDrop \/ EraseNoSegment
  <2>1. eraser' = [eraser EXCEPT !.stage = "hot"]
    BY <1>3 DEF EraseDrop, EraseNoSegment
  <2>2. eraser'.user = eraser.user /\ eraser'.cold = eraser.cold
    BY <1>1, <2>1
  <2>3. QED
    BY <2>2
<1>4. CASE \E i \in todo : EraseSegment(i) \/ EraseSegmentFails(i)
  BY <1>4 DEF EraseSegment, EraseSegmentFails, actors
<1>5. CASE ErasePersist \/ ErasePersistFails \/ EraseHot \/ EraseHotFails
  BY <1>5 DEF ErasePersist, ErasePersistFails, EraseHot, EraseHotFails, actors
<1>6. CASE Seal
  BY <1>6 DEF Seal, SealNothing, SealPut, SealPutFails, SealPersist, SealPersistFails, SealClear,
              actors
<1>7. CASE Prune
  BY <1>7 DEF Prune, PruneLocked, PrunePersist, PrunePersistFails, PruneDrop, PruneHot,
              PruneHotFails,
              PruneRebuild, actors
<1>8. CASE Clear
  BY <1>8 DEF Clear, ClearDrop, ClearPersist, ClearPersistFails, ClearHot, actors
<1>9. CASE \E batch \in SUBSET Events : Append(batch)
  BY <1>9 DEF Append, Ingest, IngestUnsynced
<1>10. CASE UNCHANGED vars
  BY <1>10 DEF vars, actors
<1>11. QED
  BY <1>2, <1>3, <1>4, <1>5, <1>6, <1>7, <1>8, <1>9, <1>10
     DEF Next, DeleteUser, Flush, Scan, ScanBegin, ScanSnapshot, ScanRead, ScanReadFails, ScanEnd,
         Verify, VerifyBegin, VerifySnapshot, VerifyRead, VerifyList, ScrubSweep, Crash, Open,
         OfflineScrub, actors

\* A sweep over all segments that found nothing of the user changes nothing; a persisted one
\* leaves nothing of the user.
LEMMA EditsDone ==
    ASSUME Edits, todo = {}
    PROVE  Holds(next, blobs) \cap Of(eraser.user) = {} /\ (drop = {} => next = manifest)
BY HeldBySlot DEF Edits

\* Every step keeps what was erased away.
LEMMA NextErased ==
    ASSUME "clear" \notin Ops, "scrub" \notin Ops, Resend = FALSE, MaxCrashes = 0, TypeInv, RefInv,
           RefInv', Editing, Unused, CopyInv, ErasedInv, [Next]_vars
    PROVE  ErasedInv'
<1>1. up /\ (pc = "free" => hot \cap Holds(manifest, blobs) = {})
  BY DEF CopyInv
<1>2. Erased' \cap Places' = {}
  <2>1. ASSUME NEW batch \in SUBSET Events, Append(batch), Places' \subseteq Places \cup batch
        PROVE  Erased' \cap Places' = {}
    <3>1. gone' = [cold |-> gone.cold \ batch, hot |-> gone.hot \ batch]
          /\ eraser' = [stage |-> eraser.stage, user |-> eraser.user,
                        cold |-> eraser.cold \ batch, hot |-> eraser.hot \ batch]
      BY <2>1 DEF Append, Ingest, IngestUnsynced
    <3>2. Erased' = Erased \ batch
      BY <3>1 DEF Erased
    <3>3. QED
      BY <2>1, <3>2 DEF ErasedInv
  <2>2. CASE Places' \subseteq Places /\ Erased' \subseteq Erased
    BY <2>2 DEF ErasedInv
  <2>3. CASE Places' \subseteq Places /\ EraseDrop /\ Erased' \subseteq Erased \cup eraser.cold
    <3>1. pc = "eraseDrop"
      BY <2>3 DEF EraseDrop
    <3>2. Places = Holds(manifest, blobs) \cup hot
      BY <3>1 DEF Places
    <3>3. QED
      BY <2>3, <3>1, <3>2 DEF ErasedInv
  <2>4. CASE Places' \subseteq Places /\ EraseNoSegment /\ Erased' \subseteq Erased \cup eraser.cold
    <3>1. pc = "eraseSegment" /\ todo = {} /\ drop = {}
      BY <2>4 DEF EraseNoSegment
    <3>2. Places = Holds(manifest, blobs) \cup hot
      BY <3>1 DEF Places
    <3>3. Holds(manifest, blobs) \cap Of(eraser.user) = {}
      BY <3>1, EditsDone DEF Editing
    <3>4. QED
      BY <2>4, <3>1, <3>2, <3>3 DEF ErasedInv
  <2>5. QED
    BY <2>1, <2>2, <2>3, <2>4, PlacesSteps, ErasedSteps
<1>3. eraser'.cold \subseteq Of(eraser'.user)
  <2>1. CASE eraser'.user = eraser.user /\ eraser'.cold \subseteq eraser.cold
    BY <2>1 DEF ErasedInv
  <2>2. CASE eraser' = EraseIdle
    <3>1. EraseIdle.cold = {}
      BY DEF EraseIdle
    <3>2. QED
      BY <2>2, <3>1
  <2>3. ASSUME NEW user \in Users, eraser'.user = user,
               eraser'.cold = Holds(manifest, blobs) \cap Of(user)
        PROVE  eraser'.cold \subseteq Of(eraser'.user)
    BY <2>3
  <2>4. QED
    BY <2>1, <2>2, <2>3, NotedSteps
<1>4. ASSUME pc' \in {"eraseSegment", "eraseDrop"} PROVE eraser'.cold \cap hot' = {}
  <2>1. ASSUME NEW user \in Users, EraseLocked(user) PROVE eraser'.cold \cap hot' = {}
    <3>1. pc = "free" /\ hot' = hot /\ eraser'.cold = Cold(manifest) \cap Of(user)
      BY <2>1 DEF EraseLocked, Lock, durable
    <3>2. Cold(manifest) = Holds(manifest, blobs)
      BY DEF RefInv, SoundManifests, Sound, Resolves, Cold, Content, Holds
    <3>3. QED
      BY <1>1, <3>1, <3>2
  <2>2. ASSUME NEW i \in todo, EraseSegment(i) PROVE eraser'.cold \cap hot' = {}
    BY <2>2 DEF EraseSegment, actors, ErasedInv
  <2>3. CASE ErasePersist
    BY <2>3 DEF ErasePersist, actors, ErasedInv
  <2>4. CASE /\ pc' = pc /\ hot' \subseteq hot
             /\ eraser.stage = "locked" => eraser' = eraser
    BY <1>4, <2>4 DEF ErasedInv, Editing
  <2>5. QED
    BY <1>4, <2>1, <2>2, <2>3, <2>4, MutexSteps
       DEF SealPut, SealPersist, PruneLocked, locals, PrunePersist
<1>5. ASSUME pc' = "eraseDrop" PROVE eraser'.cold \cap Holds(manifest', blobs') = {}
  <2>1. CASE ErasePersist
    <3>1. pc = "eraseSegment" /\ todo = {} /\ manifest' = next /\ UNCHANGED <<blobs, eraser>>
      BY <2>1 DEF ErasePersist, actors
    <3>2. Holds(next, blobs) \cap Of(eraser.user) = {}
      BY <3>1, EditsDone DEF Editing
    <3>3. QED
      BY <3>1, <3>2 DEF ErasedInv
  <2>2. CASE /\ UNCHANGED <<pc, blobs, manifest>>
             /\ eraser.stage = "locked" => eraser' = eraser
    BY <1>5, <2>2 DEF ErasedInv, Editing
  <2>3. QED
    BY <1>5, <2>1, <2>2, MutexSteps
       DEF SealPut, SealPersist, PruneLocked, locals, PrunePersist, EraseLocked, Lock, EraseSegment
<1>6. QED
  BY <1>2, <1>3, <1>4, <1>5 DEF ErasedInv

\* The empty store satisfies the invariants.
LEMMA InitCopies == Init => Unused /\ CopyInv /\ ErasedInv
<1> SUFFICES ASSUME Init PROVE Unused /\ CopyInv /\ ErasedInv
  OBVIOUS
<1>1. Unused
  BY DEF Init, Unused
<1>2. CopyInv
  BY EmptyHolds DEF Init, CopyInv
<1>3. ErasedInv
  BY EmptyHolds DEF Init, ErasedInv, Erased, Places, EraseIdle
<1>4. QED
  BY <1>1, <1>2, <1>3

\* Every event is in one place on the way, too.
LEMMA CopyInvariant ==
    ASSUME "clear" \notin Ops, "scrub" \notin Ops, Resend = FALSE, CrashSafe
    PROVE  Spec => [](/\ TypeInv /\ RefInv /\ Editing /\ Unused /\ CopyInv
                      /\ MaxCrashes # 0 => ContentInv /\ Written)
<1> DEFINE Inv == TypeInv /\ RefInv /\ (MaxCrashes # 0 => ContentInv /\ Written)
<1>1. Spec => []Inv
  <2>1. CASE MaxCrashes = 0
    <3>1. TypeInv /\ RefInv => Inv
      BY <2>1
    <3>2. QED
      BY <3>1, RefInvariant, PTL
  <2>2. CASE MaxCrashes # 0
    <3>1. "lostReply" \notin Faults /\ "truncate" \notin Faults
      BY <2>2 DEF CrashSafe
    <3>2. Written /\ [Next]_vars => Written'
      BY <3>1, NextWritten
    <3>3. TypeInv /\ RefInv /\ ContentInv /\ Written => Inv
      OBVIOUS
    <3>4. Spec => [](TypeInv /\ RefInv /\ ContentInv)
      BY <3>1, ContentInvariant, PTL
    <3> HIDE DEF Inv
    <3>5. QED
      BY <3>2, <3>3, <3>4, InitWritten, PTL DEF Spec
  <2>3. QED
    BY <2>1, <2>2
<1>2. Inv /\ Inv' /\ Editing /\ Unused /\ CopyInv /\ [Next]_vars => Editing' /\ Unused' /\ CopyInv'
  BY NextEditing, NextUnused, NextCopies
<1>3. Init => Editing /\ Unused /\ CopyInv
  BY InitPromise, InitCopies
<1>4. QED
  BY <1>1, <1>2, <1>3, PTL DEF Spec

\* What the places of CopyInv are to a reader of the store.
LEMMA CopiesApart == ASSUME RefInv, CopyInv PROVE OneCopy
<1>1. \A i \in DOMAIN manifest : Content(manifest[i].key) = blobs[manifest[i].key]
  BY DEF RefInv, SoundManifests, Sound, Resolves, KeysOf, Content
<1>2. Cold(manifest) = Holds(manifest, blobs)
  BY DEF RefInv, SoundManifests, Sound, Resolves, Cold, Content, Holds
<1>3. QED
  BY <1>1, <1>2 DEF CopyInv, Disjoint, OneCopy

\* No event is counted twice, whatever call fails or loses its reply, as long as clients do
\* not send again what was sealed; and, without removals and failing truncations, across any
\* number of crashes, one between the manifest and the clearing of the hot log included.
THEOREM NoDoubles ==
    ASSUME "clear" \notin Ops, "scrub" \notin Ops, Resend = FALSE, CrashSafe
    PROVE  Spec => []OneCopy
<1>1. RefInv /\ CopyInv => OneCopy
  BY CopiesApart
<1>2. QED
  BY <1>1, CopyInvariant, PTL

\* While the server runs, what an erasure that reported success had found in sealed segments
\* is in no segment and not in the hot log, whatever seals, prunes, other erasures, failures
\* and lost replies come before, between its two halves, or after.
THEOREM ErasedForGood ==
    ASSUME "clear" \notin Ops, "scrub" \notin Ops, Resend = FALSE, MaxCrashes = 0
    PROVE  Spec => []ColdErasureFinal
<1> DEFINE Inv == TypeInv /\ RefInv /\ Editing /\ Unused /\ CopyInv
<1>1. Spec => []Inv
  BY CopyInvariant, PTL DEF CrashSafe
<1>2. Inv /\ Inv' /\ ErasedInv /\ [Next]_vars => ErasedInv'
  BY NextErased
<1>3. Init => ErasedInv
  BY InitCopies
<1>4. Inv /\ ErasedInv => ColdErasureFinal
  <2> SUFFICES ASSUME Inv, ErasedInv PROVE ColdErasureFinal
    OBVIOUS
  <2>1. Cold(manifest) = Holds(manifest, blobs)
    BY DEF RefInv, SoundManifests, Sound, Resolves, Cold, Content, Holds
  <2>2. up /\ pc = "free" => Held = Holds(manifest, blobs) \cup hot
    BY <2>1 DEF Held
  <2>3. QED
    BY <2>2 DEF ErasedInv, Erased, Places, ColdErasureFinal
<1> HIDE DEF Inv
<1>5. QED
  BY <1>1, <1>2, <1>3, <1>4, PTL DEF Spec
=============================================================================

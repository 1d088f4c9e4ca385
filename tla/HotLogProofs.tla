----------------------------- MODULE HotLogProofs -----------------------------
(***************************************************************************)
(* Theorems about HotLog, for every set of events, batches and cutoffs and *)
(* every bound.                                                            *)
(***************************************************************************)
EXTENDS HotLog, LogLemmas

-----------------------------------------------------------------------------
\* Each fold of HotLog, one element at a time.

Lines == [state : {"whole", "bare", "torn", "junk"}, ev : Events]

\* Records keeps the events of the lines that parse.
LEMMA RecordsSteps ==
    ASSUME NEW f \in Seq(Lines)
    PROVE  \E F \in [0 .. Len(f) -> Seq(Events)] :
               /\ F[0] = <<>> /\ F[Len(f)] = Records(f)
               /\ \A i \in 1 .. Len(f) :
                      F[i] = IF Parses(f[i]) THEN Append(F[i - 1], f[i].ev) ELSE F[i - 1]
<1> DEFINE n == Len(f)
           A == Seq(Events)
           base == <<>>
           Then(a, x) == IF Parses(x) THEN Append(a, x.ev) ELSE a
           step == [p \in (1 .. n) \X A |-> Then(p[2], f[p[1]])]
<1>1. n \in Nat /\ DOMAIN f = 1 .. n /\ base \in A
  OBVIOUS
<1>2. \A i \in 1 .. n, a \in A : Then(a, f[i]) \in A
  <2>1. \A i \in 1 .. n : f[i] \in Lines
    OBVIOUS
  <2>2. QED
    BY <2>1 DEF Lines
<1>3. step \in [(1 .. n) \X A -> A] /\ \A i \in 1 .. n, a \in A : step[<<i, a>>] = Then(a, f[i])
  <2> HIDE DEF Then, A, n
  <2>1. QED
    BY <1>2
<1> HIDE DEF step, A, n, base, Then
<1>4. PICK g : FoldsSets(g, n, A, base, step)
  BY <1>1, <1>3, FoldExists
<1> DEFINE F == [i \in 0 .. n |-> g[1 .. i]]
<1>5. FoldsNumbers(F, n, A, base, step) /\ F[n] = g[1 .. n]
  <2>1. FoldsNumbers(F, n, A, base, step)
    BY <1>1, <1>3, <1>4, FoldSteps
  <2>2. F[n] = g[1 .. n]
    BY <1>1
  <2>3. QED
    BY <2>1, <2>2
<1> HIDE DEF F
<1> DEFINE Eq(h) == h = [s \in SUBSET (1 .. n) |->
                            IF s = {} THEN base
                            ELSE Then(h[s \ {Max(s)}], f[Max(s)])]
<1>6. Eq(g)
  <2>1. ASSUME NEW s \in SUBSET (1 .. n)
        PROVE  g[s] = IF s = {} THEN base ELSE Then(g[s \ {Max(s)}], f[Max(s)])
    <3>1. CASE s # {}
      <4>1. Max(s) \in 1 .. n /\ s \ {Max(s)} \in SUBSET (1 .. n)
        BY <1>1, <3>1, MaxIn
      <4>2. g[s \ {Max(s)}] \in A
        BY <1>4, <4>1 DEF FoldsSets
      <4>3. QED
        BY <1>3, <1>4, <3>1, <4>1, <4>2 DEF FoldsSets
    <3>2. QED
      BY <1>4, <3>1 DEF FoldsSets
  <2>2. DOMAIN g = SUBSET (1 .. n) /\ g = [s \in DOMAIN g |-> g[s]]
    BY <1>4 DEF FoldsSets
  <2>3. QED
    BY <2>1, <2>2
<1>7. ASSUME NEW h, Eq(h) PROVE h[1 .. n] = F[n]
  <2>1. {} \in SUBSET (1 .. n)
    OBVIOUS
  <2>2. g[{}] = h[{}]
    BY <1>6, <1>7, <2>1
  <2>3. ASSUME NEW s \in SUBSET (1 .. n), s # {}, g[s \ {Max(s)}] = h[s \ {Max(s)}]
        PROVE  g[s] = h[s]
    BY <1>6, <1>7, <2>3
  <2> HIDE DEF Eq
  <2>4. g[1 .. n] = h[1 .. n]
    BY <1>1, <2>2, <2>3, FoldUnique
  <2>5. QED
    BY <1>5, <2>4
<1>8. Records(f) = F[n]
  <2>1. Records(f) = (CHOOSE h : Eq(h))[1 .. n]
    BY <1>1 DEF base, Then, Records, FoldLeft, MapThenFoldSet
  <2>2. Eq(CHOOSE h : Eq(h))
    <3> HIDE DEF Eq
    <3>1. QED
      BY <1>6
  <2> HIDE DEF Eq
  <2>3. QED
    BY <1>7, <2>1, <2>2
<1>9. QED
  <2>1. \A i \in 1 .. n : F[i - 1] \in A
    BY <1>1, <1>5 DEF FoldsNumbers
  <2>2. \A i \in 1 .. n : F[i] = Then(F[i - 1], f[i])
    BY <1>3, <1>5, <2>1 DEF FoldsNumbers
  <2>3. QED
    BY <1>5, <1>8, <2>2 DEF FoldsNumbers, A, n, base, Then

LEMMA RecordsAppend ==
    ASSUME NEW f \in Seq(Lines), NEW x \in Lines
    PROVE  Records(Append(f, x)) = IF Parses(x) THEN Append(Records(f), x.ev) ELSE Records(f)
<1> DEFINE n == Len(f)
           t == Append(f, x)
           Then(a, y) == IF Parses(y) THEN Append(a, y.ev) ELSE a
<1>1. n \in Nat /\ t \in Seq(Lines) /\ Len(t) = n + 1 /\ t[n + 1] = x /\ \A i \in 1 .. n : t[i] = f[i]
  OBVIOUS
<1> HIDE DEF Then
<1>2. PICK F : /\ F[0] = <<>> /\ F[n] = Records(f)
               /\ \A i \in 1 .. n : F[i] = Then(F[i - 1], f[i])
  BY RecordsSteps DEF Then
<1>3. PICK G : /\ G[0] = <<>> /\ G[n + 1] = Records(Append(f, x))
               /\ \A i \in 1 .. n + 1 : G[i] = Then(G[i - 1], t[i])
  <2> HIDE DEF t, n
  <2>1. PICK G : /\ G[0] = <<>> /\ G[Len(t)] = Records(t)
                 /\ \A i \in 1 .. Len(t) : G[i] = Then(G[i - 1], t[i])
    BY <1>1, RecordsSteps DEF Then
  <2>2. QED
    BY <1>1, <2>1 DEF t
<1> HIDE DEF t, n
<1>4. ASSUME NEW i \in 1 .. n, F[i - 1] = G[i - 1] PROVE F[i] = G[i]
  <2>1. i \in 1 .. n + 1 /\ t[i] = f[i]
    BY <1>1
  <2>2. F[i] = Then(F[i - 1], f[i]) /\ G[i] = Then(G[i - 1], f[i])
    BY <1>2, <1>3, <2>1
  <2>3. QED
    BY <1>4, <2>2
<1>5. F[n] = G[n]
  <2>1. n \in Nat /\ F[0] = G[0]
    BY <1>1, <1>2, <1>3
  <2>2. \A i \in 1 .. n : F[i - 1] = G[i - 1] => F[i] = G[i]
    BY <1>4
  <2>3. QED
    BY <2>1, <2>2, StepsUnique
<1>6. n + 1 \in 1 .. n + 1 /\ (n + 1) - 1 = n
  BY <1>1
<1>7. QED
  BY <1>1, <1>2, <1>3, <1>5, <1>6 DEF Then

LEMMA RecordsType ==
    ASSUME NEW f \in Seq(Lines)
    PROVE  Records(f) \in Seq(Events) /\ Records(<<>>) = <<>>
<1>1. Records(f) \in Seq(Events)
  <2>1. Len(f) \in 0 .. Len(f)
    OBVIOUS
  <2>2. QED
    BY <2>1, RecordsSteps
<1>2. Records(<<>>) = <<>>
  <2> DEFINE e == <<>>
  <2>1. e \in Seq(Lines) /\ Len(e) = 0
    OBVIOUS
  <2> HIDE DEF e
  <2>2. \E F : F[0] = <<>> /\ F[Len(e)] = Records(e)
    BY <2>1, RecordsSteps
  <2>3. QED
    BY <2>1, <2>2 DEF e
<1>3. QED
  BY <1>1, <1>2

\* NotSeen keeps the first of every new event.
LEMMA NotSeenSteps ==
    ASSUME NEW batch \in Seq(Events)
    PROVE  \E F \in [0 .. Len(batch) -> Seq(Events)] :
               /\ F[0] = <<>> /\ F[Len(batch)] = NotSeen(batch)
               /\ \A i \in 1 .. Len(batch) :
                      F[i] = IF batch[i] \in ToSet(F[i - 1]) \cup ToSet(evs) THEN F[i - 1] ELSE Append(F[i - 1], batch[i])
<1> DEFINE n == Len(batch)
           A == Seq(Events)
           base == <<>>
           Then(a, x) == IF x \in ToSet(a) \cup ToSet(evs) THEN a ELSE Append(a, x)
           step == [p \in (1 .. n) \X A |-> Then(p[2], batch[p[1]])]
<1>1. n \in Nat /\ DOMAIN batch = 1 .. n /\ base \in A
  OBVIOUS
<1>2. \A i \in 1 .. n, a \in A : Then(a, batch[i]) \in A
  OBVIOUS
<1>3. step \in [(1 .. n) \X A -> A] /\ \A i \in 1 .. n, a \in A : step[<<i, a>>] = Then(a, batch[i])
  <2> HIDE DEF Then, A, n
  <2>1. QED
    BY <1>2
<1> HIDE DEF step, A, n, base, Then
<1>4. PICK g : FoldsSets(g, n, A, base, step)
  BY <1>1, <1>3, FoldExists
<1> DEFINE F == [i \in 0 .. n |-> g[1 .. i]]
<1>5. FoldsNumbers(F, n, A, base, step) /\ F[n] = g[1 .. n]
  <2>1. FoldsNumbers(F, n, A, base, step)
    BY <1>1, <1>3, <1>4, FoldSteps
  <2>2. F[n] = g[1 .. n]
    BY <1>1
  <2>3. QED
    BY <2>1, <2>2
<1> HIDE DEF F
<1> DEFINE Eq(h) == h = [s \in SUBSET (1 .. n) |->
                            IF s = {} THEN base
                            ELSE Then(h[s \ {Max(s)}], batch[Max(s)])]
<1>6. Eq(g)
  <2>1. ASSUME NEW s \in SUBSET (1 .. n)
        PROVE  g[s] = IF s = {} THEN base ELSE Then(g[s \ {Max(s)}], batch[Max(s)])
    <3>1. CASE s # {}
      <4>1. Max(s) \in 1 .. n /\ s \ {Max(s)} \in SUBSET (1 .. n)
        BY <1>1, <3>1, MaxIn
      <4>2. g[s \ {Max(s)}] \in A
        BY <1>4, <4>1 DEF FoldsSets
      <4>3. QED
        BY <1>3, <1>4, <3>1, <4>1, <4>2 DEF FoldsSets
    <3>2. QED
      BY <1>4, <3>1 DEF FoldsSets
  <2>2. DOMAIN g = SUBSET (1 .. n) /\ g = [s \in DOMAIN g |-> g[s]]
    BY <1>4 DEF FoldsSets
  <2>3. QED
    BY <2>1, <2>2
<1>7. ASSUME NEW h, Eq(h) PROVE h[1 .. n] = F[n]
  <2>1. {} \in SUBSET (1 .. n)
    OBVIOUS
  <2>2. g[{}] = h[{}]
    BY <1>6, <1>7, <2>1
  <2>3. ASSUME NEW s \in SUBSET (1 .. n), s # {}, g[s \ {Max(s)}] = h[s \ {Max(s)}]
        PROVE  g[s] = h[s]
    BY <1>6, <1>7, <2>3
  <2> HIDE DEF Eq
  <2>4. g[1 .. n] = h[1 .. n]
    BY <1>1, <2>2, <2>3, FoldUnique
  <2>5. QED
    BY <1>5, <2>4
<1>8. NotSeen(batch) = F[n]
  <2>1. NotSeen(batch) = (CHOOSE h : Eq(h))[1 .. n]
    BY <1>1 DEF base, Then, NotSeen, FoldLeft, MapThenFoldSet
  <2>2. Eq(CHOOSE h : Eq(h))
    <3> HIDE DEF Eq
    <3>1. QED
      BY <1>6
  <2> HIDE DEF Eq
  <2>3. QED
    BY <1>7, <2>1, <2>2
<1>9. QED
  <2>1. \A i \in 1 .. n : F[i - 1] \in A
    BY <1>1, <1>5 DEF FoldsNumbers
  <2>2. \A i \in 1 .. n : F[i] = Then(F[i - 1], batch[i])
    BY <1>3, <1>5, <2>1 DEF FoldsNumbers
  <2>3. QED
    BY <1>5, <1>8, <2>2 DEF FoldsNumbers, A, n, base, Then

LEMMA NotSeenAppend ==
    ASSUME NEW batch \in Seq(Events), NEW x \in Events
    PROVE  NotSeen(Append(batch, x)) = IF x \in ToSet(NotSeen(batch)) \cup ToSet(evs) THEN NotSeen(batch) ELSE Append(NotSeen(batch), x)
<1> DEFINE n == Len(batch)
           t == Append(batch, x)
           Then(a, y) == IF y \in ToSet(a) \cup ToSet(evs) THEN a ELSE Append(a, y)
<1>1. n \in Nat /\ t \in Seq(Events) /\ Len(t) = n + 1 /\ t[n + 1] = x /\ \A i \in 1 .. n : t[i] = batch[i]
  OBVIOUS
<1> HIDE DEF Then
<1>2. PICK F : /\ F[0] = <<>> /\ F[n] = NotSeen(batch)
               /\ \A i \in 1 .. n : F[i] = Then(F[i - 1], batch[i])
  BY NotSeenSteps DEF Then
<1>3. PICK G : /\ G[0] = <<>> /\ G[n + 1] = NotSeen(Append(batch, x))
               /\ \A i \in 1 .. n + 1 : G[i] = Then(G[i - 1], t[i])
  <2> HIDE DEF t, n
  <2>1. PICK G : /\ G[0] = <<>> /\ G[Len(t)] = NotSeen(t)
                 /\ \A i \in 1 .. Len(t) : G[i] = Then(G[i - 1], t[i])
    BY <1>1, NotSeenSteps DEF Then
  <2>2. QED
    BY <1>1, <2>1 DEF t
<1> HIDE DEF t, n
<1>4. ASSUME NEW i \in 1 .. n, F[i - 1] = G[i - 1] PROVE F[i] = G[i]
  <2>1. i \in 1 .. n + 1 /\ t[i] = batch[i]
    BY <1>1
  <2>2. F[i] = Then(F[i - 1], batch[i]) /\ G[i] = Then(G[i - 1], batch[i])
    BY <1>2, <1>3, <2>1
  <2>3. QED
    BY <1>4, <2>2
<1>5. F[n] = G[n]
  <2>1. n \in Nat /\ F[0] = G[0]
    BY <1>1, <1>2, <1>3
  <2>2. \A i \in 1 .. n : F[i - 1] = G[i - 1] => F[i] = G[i]
    BY <1>4
  <2>3. QED
    BY <2>1, <2>2, StepsUnique
<1>6. n + 1 \in 1 .. n + 1 /\ (n + 1) - 1 = n
  BY <1>1
<1>7. QED
  BY <1>1, <1>2, <1>3, <1>5, <1>6 DEF Then

LEMMA NotSeenType ==
    ASSUME NEW batch \in Seq(Events)
    PROVE  NotSeen(batch) \in Seq(Events) /\ NotSeen(<<>>) = <<>>
<1>1. NotSeen(batch) \in Seq(Events)
  <2>1. Len(batch) \in 0 .. Len(batch)
    OBVIOUS
  <2>2. QED
    BY <2>1, NotSeenSteps
<1>2. NotSeen(<<>>) = <<>>
  <2> DEFINE e == <<>>
  <2>1. e \in Seq(Events) /\ Len(e) = 0
    OBVIOUS
  <2> HIDE DEF e
  <2>2. \E F : F[0] = <<>> /\ F[Len(e)] = NotSeen(e)
    BY <2>1, NotSeenSteps
  <2>3. QED
    BY <2>1, <2>2 DEF e
<1>3. QED
  BY <1>1, <1>2

\* Indexed keeps the newest under the cap.
LEMMA IndexedSteps ==
    ASSUME NEW records \in Seq(Events)
    PROVE  \E F \in [0 .. Len(records) -> Seq(Events)] :
               /\ F[0] = <<>> /\ F[Len(records)] = Indexed(records)
               /\ \A i \in 1 .. Len(records) :
                      F[i] = IF OverCap(Len(F[i - 1]) + 1) THEN Newest(Append(F[i - 1], records[i])) ELSE Append(F[i - 1], records[i])
<1> DEFINE n == Len(records)
           A == Seq(Events)
           base == <<>>
           Then(a, x) == IF OverCap(Len(a) + 1) THEN Newest(Append(a, x)) ELSE Append(a, x)
           step == [p \in (1 .. n) \X A |-> Then(p[2], records[p[1]])]
<1>1. n \in Nat /\ DOMAIN records = 1 .. n /\ base \in A
  OBVIOUS
<1>2. \A i \in 1 .. n, a \in A : Then(a, records[i]) \in A
  <2>1. SUFFICES ASSUME NEW i \in 1 .. n, NEW a \in A PROVE Then(a, records[i]) \in A
    OBVIOUS
  <2>2. MaxEvents \in Nat /\ Slack \in Nat
    BY HotLogAssumption
  <2>3. Append(a, records[i]) \in A /\ Len(Append(a, records[i])) = Len(a) + 1
    OBVIOUS
  <2>4. CASE OverCap(Len(a) + 1)
    <3>1. Len(a) + 1 > MaxEvents
      BY <2>2, <2>4 DEF OverCap
    <3>2. Newest(Append(a, records[i])) \in A
      BY <2>2, <2>3, <3>1 DEF Newest
    <3>3. QED
      BY <2>4, <3>2
  <2>5. CASE ~OverCap(Len(a) + 1)
    BY <2>3, <2>5
  <2>6. QED
    BY <2>4, <2>5
<1>3. step \in [(1 .. n) \X A -> A] /\ \A i \in 1 .. n, a \in A : step[<<i, a>>] = Then(a, records[i])
  <2> HIDE DEF Then, A, n
  <2>1. QED
    BY <1>2
<1> HIDE DEF step, A, n, base, Then
<1>4. PICK g : FoldsSets(g, n, A, base, step)
  BY <1>1, <1>3, FoldExists
<1> DEFINE F == [i \in 0 .. n |-> g[1 .. i]]
<1>5. FoldsNumbers(F, n, A, base, step) /\ F[n] = g[1 .. n]
  <2>1. FoldsNumbers(F, n, A, base, step)
    BY <1>1, <1>3, <1>4, FoldSteps
  <2>2. F[n] = g[1 .. n]
    BY <1>1
  <2>3. QED
    BY <2>1, <2>2
<1> HIDE DEF F
<1> DEFINE Eq(h) == h = [s \in SUBSET (1 .. n) |->
                            IF s = {} THEN base
                            ELSE Then(h[s \ {Max(s)}], records[Max(s)])]
<1>6. Eq(g)
  <2>1. ASSUME NEW s \in SUBSET (1 .. n)
        PROVE  g[s] = IF s = {} THEN base ELSE Then(g[s \ {Max(s)}], records[Max(s)])
    <3>1. CASE s # {}
      <4>1. Max(s) \in 1 .. n /\ s \ {Max(s)} \in SUBSET (1 .. n)
        BY <1>1, <3>1, MaxIn
      <4>2. g[s \ {Max(s)}] \in A
        BY <1>4, <4>1 DEF FoldsSets
      <4>3. QED
        BY <1>3, <1>4, <3>1, <4>1, <4>2 DEF FoldsSets
    <3>2. QED
      BY <1>4, <3>1 DEF FoldsSets
  <2>2. DOMAIN g = SUBSET (1 .. n) /\ g = [s \in DOMAIN g |-> g[s]]
    BY <1>4 DEF FoldsSets
  <2>3. QED
    BY <2>1, <2>2
<1>7. ASSUME NEW h, Eq(h) PROVE h[1 .. n] = F[n]
  <2>1. {} \in SUBSET (1 .. n)
    OBVIOUS
  <2>2. g[{}] = h[{}]
    BY <1>6, <1>7, <2>1
  <2>3. ASSUME NEW s \in SUBSET (1 .. n), s # {}, g[s \ {Max(s)}] = h[s \ {Max(s)}]
        PROVE  g[s] = h[s]
    BY <1>6, <1>7, <2>3
  <2> HIDE DEF Eq
  <2>4. g[1 .. n] = h[1 .. n]
    BY <1>1, <2>2, <2>3, FoldUnique
  <2>5. QED
    BY <1>5, <2>4
<1>8. Indexed(records) = F[n]
  <2>1. Indexed(records) = (CHOOSE h : Eq(h))[1 .. n]
    BY <1>1 DEF base, Then, Indexed, FoldLeft, MapThenFoldSet
  <2>2. Eq(CHOOSE h : Eq(h))
    <3> HIDE DEF Eq
    <3>1. QED
      BY <1>6
  <2> HIDE DEF Eq
  <2>3. QED
    BY <1>7, <2>1, <2>2
<1>9. QED
  <2>1. \A i \in 1 .. n : F[i - 1] \in A
    BY <1>1, <1>5 DEF FoldsNumbers
  <2>2. \A i \in 1 .. n : F[i] = Then(F[i - 1], records[i])
    BY <1>3, <1>5, <2>1 DEF FoldsNumbers
  <2>3. QED
    BY <1>5, <1>8, <2>2 DEF FoldsNumbers, A, n, base, Then

LEMMA IndexedAppend ==
    ASSUME NEW records \in Seq(Events), NEW x \in Events
    PROVE  Indexed(Append(records, x)) = IF OverCap(Len(Indexed(records)) + 1) THEN Newest(Append(Indexed(records), x)) ELSE Append(Indexed(records), x)
<1> DEFINE n == Len(records)
           t == Append(records, x)
           Then(a, y) == IF OverCap(Len(a) + 1) THEN Newest(Append(a, y)) ELSE Append(a, y)
<1>1. n \in Nat /\ t \in Seq(Events) /\ Len(t) = n + 1 /\ t[n + 1] = x /\ \A i \in 1 .. n : t[i] = records[i]
  OBVIOUS
<1> HIDE DEF Then
<1>2. PICK F : /\ F[0] = <<>> /\ F[n] = Indexed(records)
               /\ \A i \in 1 .. n : F[i] = Then(F[i - 1], records[i])
  BY IndexedSteps DEF Then
<1>3. PICK G : /\ G[0] = <<>> /\ G[n + 1] = Indexed(Append(records, x))
               /\ \A i \in 1 .. n + 1 : G[i] = Then(G[i - 1], t[i])
  <2> HIDE DEF t, n
  <2>1. PICK G : /\ G[0] = <<>> /\ G[Len(t)] = Indexed(t)
                 /\ \A i \in 1 .. Len(t) : G[i] = Then(G[i - 1], t[i])
    BY <1>1, IndexedSteps DEF Then
  <2>2. QED
    BY <1>1, <2>1 DEF t
<1> HIDE DEF t, n
<1>4. ASSUME NEW i \in 1 .. n, F[i - 1] = G[i - 1] PROVE F[i] = G[i]
  <2>1. i \in 1 .. n + 1 /\ t[i] = records[i]
    BY <1>1
  <2>2. F[i] = Then(F[i - 1], records[i]) /\ G[i] = Then(G[i - 1], records[i])
    BY <1>2, <1>3, <2>1
  <2>3. QED
    BY <1>4, <2>2
<1>5. F[n] = G[n]
  <2>1. n \in Nat /\ F[0] = G[0]
    BY <1>1, <1>2, <1>3
  <2>2. \A i \in 1 .. n : F[i - 1] = G[i - 1] => F[i] = G[i]
    BY <1>4
  <2>3. QED
    BY <2>1, <2>2, StepsUnique
<1>6. n + 1 \in 1 .. n + 1 /\ (n + 1) - 1 = n
  BY <1>1
<1>7. QED
  BY <1>1, <1>2, <1>3, <1>5, <1>6 DEF Then

LEMMA IndexedType ==
    ASSUME NEW records \in Seq(Events)
    PROVE  Indexed(records) \in Seq(Events) /\ Indexed(<<>>) = <<>>
<1>1. Indexed(records) \in Seq(Events)
  <2>1. Len(records) \in 0 .. Len(records)
    OBVIOUS
  <2>2. QED
    BY <2>1, IndexedSteps
<1>2. Indexed(<<>>) = <<>>
  <2> DEFINE e == <<>>
  <2>1. e \in Seq(Events) /\ Len(e) = 0
    OBVIOUS
  <2> HIDE DEF e
  <2>2. \E F : F[0] = <<>> /\ F[Len(e)] = Indexed(e)
    BY <2>1, IndexedSteps
  <2>3. QED
    BY <2>1, <2>2 DEF e
<1>3. QED
  BY <1>1, <1>2

-----------------------------------------------------------------------------
\* What the folds return.

LEMMA RecordsConcat ==
    ASSUME NEW f \in Seq(Lines), NEW g \in Seq(Lines)
    PROVE  Records(f \o g) = Records(f) \o Records(g)
<1> DEFINE P == {h \in Seq(Lines) : Records(f \o h) = Records(f) \o Records(h)}
<1>1. <<>> \in P
  <2>1. f \o <<>> = f /\ Records(f) \in Seq(Events) /\ Records(<<>>) = <<>>
    BY RecordsType
  <2>2. QED
    BY <2>1
<1>2. ASSUME NEW h \in Seq(Lines), NEW x \in Lines, h \in P PROVE Append(h, x) \in P
  <2>1. f \o Append(h, x) = Append(f \o h, x) /\ f \o h \in Seq(Lines)
    OBVIOUS
  <2>2. x.ev \in Events /\ Records(f) \in Seq(Events) /\ Records(h) \in Seq(Events)
    BY RecordsType DEF Lines
  <2>3. Records(f) \o Append(Records(h), x.ev) = Append(Records(f) \o Records(h), x.ev)
    BY <2>2
  <2>4. Records(Append(f \o h, x)) = IF Parses(x) THEN Append(Records(f \o h), x.ev) ELSE Records(f \o h)
    BY <2>1, RecordsAppend
  <2>5. Records(Append(h, x)) = IF Parses(x) THEN Append(Records(h), x.ev) ELSE Records(h)
    BY RecordsAppend
  <2>6. Records(f \o h) = Records(f) \o Records(h)
    BY <1>2
  <2>7. Records(f \o Append(h, x)) = Records(f) \o Records(Append(h, x))
    <3>1. CASE Parses(x)
      BY <2>1, <2>3, <2>4, <2>5, <2>6, <3>1
    <3>2. CASE ~Parses(x)
      BY <2>1, <2>4, <2>5, <2>6, <3>2
    <3>3. QED
      BY <3>1, <3>2
  <2>8. QED
    BY <2>7
<1>3. g \in P
  <2> HIDE DEF P
  <2>1. QED
    BY <1>1, <1>2, SequencesInduction
<1>4. QED
  BY <1>3

LEMMA RecordsSet ==
    ASSUME NEW f \in Seq(Lines)
    PROVE  ToSet(Records(f)) = {f[i].ev : i \in {j \in DOMAIN f : Parses(f[j])}}
<1> DEFINE Evs(h) == {l.ev : l \in {k \in ToSet(h) : Parses(k)}}
           P == {h \in Seq(Lines) : ToSet(Records(h)) = Evs(h)}
<1>1. <<>> \in P
  <2>1. Records(<<>>) = <<>> /\ ToSet(<<>>) = {}
    BY RecordsType, SetOfSeq
  <2>2. QED
    BY <2>1
<1>2. ASSUME NEW h \in Seq(Lines), NEW x \in Lines, h \in P PROVE Append(h, x) \in P
  <2>1. x.ev \in Events /\ Records(h) \in Seq(Events)
    BY RecordsType DEF Lines
  <2>2. ToSet(Append(h, x)) = ToSet(h) \cup {x}
    BY SetOfAppend
  <2>3. ToSet(Append(Records(h), x.ev)) = ToSet(Records(h)) \cup {x.ev}
    BY <2>1, SetOfAppend
  <2>4. Records(Append(h, x)) = IF Parses(x) THEN Append(Records(h), x.ev) ELSE Records(h)
    BY RecordsAppend
  <2>5. Evs(Append(h, x)) = IF Parses(x) THEN Evs(h) \cup {x.ev} ELSE Evs(h)
    BY <2>2
  <2> HIDE DEF Evs
  <2>6. ToSet(Records(h)) = Evs(h)
    BY <1>2
  <2>7. ToSet(Records(Append(h, x))) = Evs(Append(h, x))
    <3>1. CASE Parses(x)
      BY <2>3, <2>4, <2>5, <2>6, <3>1
    <3>2. CASE ~Parses(x)
      BY <2>4, <2>5, <2>6, <3>2
    <3>3. QED
      BY <3>1, <3>2
  <2>8. QED
    BY <2>7
<1>3. f \in P
  <2> HIDE DEF P
  <2>1. QED
    BY <1>1, <1>2, SequencesInduction
<1>4. QED
  BY <1>3 DEF ToSet

LEMMA WholeType ==
    ASSUME NEW es \in Seq(Events)
    PROVE  /\ Whole(es) \in Seq(Lines) /\ Len(Whole(es)) = Len(es)
           /\ DOMAIN Whole(es) = 1 .. Len(es)
           /\ \A i \in 1 .. Len(es) : Whole(es)[i] = Line("whole", es[i])
<1>1. Len(es) \in Nat /\ \A i \in 1 .. Len(es) : Line("whole", es[i]) \in Lines
  BY DEF Line, Lines
<1> DEFINE f == Whole(es)
<1>2. f \in [1 .. Len(es) -> Lines] /\ \A i \in 1 .. Len(es) : f[i] = Line("whole", es[i])
  BY <1>1 DEF Whole
<1> HIDE DEF f
<1>3. f \in Seq(Lines) /\ Len(f) = Len(es) /\ DOMAIN f = 1 .. Len(es)
  BY <1>1, <1>2
<1>4. QED
  BY <1>2, <1>3 DEF f

LEMMA WholeConcat ==
    ASSUME NEW es \in Seq(Events), NEW fs \in Seq(Events)
    PROVE  Whole(es \o fs) = Whole(es) \o Whole(fs)
<1>1. es \o fs \in Seq(Events) /\ Len(es \o fs) = Len(es) + Len(fs) /\ Len(es) \in Nat /\ Len(fs) \in Nat
  OBVIOUS
<1> DEFINE a == Whole(es) b == Whole(fs) c == Whole(es \o fs)
<1>2. /\ a \in Seq(Lines) /\ b \in Seq(Lines) /\ c \in Seq(Lines)
      /\ Len(a) = Len(es) /\ Len(b) = Len(fs) /\ Len(c) = Len(es) + Len(fs)
  BY <1>1, WholeType
<1>3. ASSUME NEW i \in 1 .. Len(es) + Len(fs) PROVE c[i] = (a \o b)[i]
  <2>1. c[i] = Line("whole", (es \o fs)[i])
    BY <1>1, WholeType
  <2>2. CASE i <= Len(es)
    <3>1. (es \o fs)[i] = es[i] /\ a[i] = Line("whole", es[i])
      BY <1>1, <2>2, WholeType
    <3> HIDE DEF a, b, c
    <3>2. (a \o b)[i] = a[i]
      BY <1>1, <1>2, <2>2
    <3>3. QED
      BY <2>1, <3>1, <3>2
  <2>3. CASE ~(i <= Len(es))
    <3>1. i - Len(es) \in 1 .. Len(fs)
      BY <1>1, <2>3
    <3>2. (es \o fs)[i] = fs[i - Len(es)] /\ b[i - Len(es)] = Line("whole", fs[i - Len(es)])
      BY <1>1, <2>3, <3>1, WholeType
    <3> HIDE DEF a, b, c
    <3>3. (a \o b)[i] = b[i - Len(es)]
      BY <1>1, <1>2, <2>3
    <3>4. QED
      BY <2>1, <3>2, <3>3
  <2>4. QED
    BY <2>2, <2>3
<1> HIDE DEF a, b, c
<1>4. a \o b \in Seq(Lines) /\ Len(a \o b) = Len(c)
  BY <1>2
<1>5. c = a \o b
  BY <1>1, <1>2, <1>3, <1>4
<1>6. QED
  BY <1>5 DEF a, b, c

LEMMA RecordsWhole ==
    ASSUME NEW es \in Seq(Events)
    PROVE  Records(Whole(es)) = es
<1> DEFINE P == {s \in Seq(Events) : Records(Whole(s)) = s}
<1>1. <<>> \in P
  <2> DEFINE e == <<>>
  <2>1. e \in Seq(Events) /\ Len(e) = 0 /\ <<>> \in Seq(Lines)
    OBVIOUS
  <2>2. Whole(e) \in Seq(Lines) /\ Len(Whole(e)) = 0
    <3> HIDE DEF e
    <3>1. QED
      BY <2>1, WholeType
  <2>3. Whole(e) = <<>>
    <3> HIDE DEF e
    <3>1. QED
      BY <2>2
  <2>4. QED
    BY <2>1, <2>3, RecordsType
<1>2. ASSUME NEW s \in Seq(Events), NEW x \in Events, s \in P PROVE Append(s, x) \in P
  <2>1. Append(s, x) = s \o <<x>> /\ <<x>> \in Seq(Events)
    OBVIOUS
  <2>2. Whole(<<x>>) = <<Line("whole", x)>> /\ Line("whole", x) \in Lines
    BY DEF Whole, Line, Lines
  <2>3. Whole(s) \in Seq(Lines) /\ Whole(Append(s, x)) = Append(Whole(s), Line("whole", x))
    <3>1. Whole(s) \in Seq(Lines)
      BY WholeType
    <3>2. Whole(s \o <<x>>) = Whole(s) \o Whole(<<x>>)
      BY <2>1, WholeConcat
    <3>3. Whole(s) \o <<Line("whole", x)>> = Append(Whole(s), Line("whole", x))
      BY <2>2, <3>1
    <3>4. QED
      BY <2>1, <2>2, <3>1, <3>2, <3>3
  <2>4. Parses(Line("whole", x)) /\ Line("whole", x).ev = x
    BY DEF Parses, Line
  <2>5. Records(Append(Whole(s), Line("whole", x))) = Append(Records(Whole(s)), x)
    BY <2>2, <2>3, <2>4, RecordsAppend
  <2>6. Append(s, x) \in Seq(Events) /\ Records(Whole(s)) = s
    BY <1>2
  <2>7. QED
    BY <2>3, <2>5, <2>6
<1>3. es \in P
  <2> HIDE DEF P
  <2>1. QED
    BY <1>1, <1>2, SequencesInduction
<1>4. QED
  BY <1>3

\* NotSeen returns what the index lacks, once.
LEMMA NotSeenOnce ==
    ASSUME NEW batch \in Seq(Events)
    PROVE  ToSet(NotSeen(batch)) = ToSet(batch) \ ToSet(evs) /\ IsInjective(NotSeen(batch))
<1> DEFINE Once(s) == ToSet(NotSeen(s)) = ToSet(s) \ ToSet(evs) /\ IsInjective(NotSeen(s))
           P == {s \in Seq(Events) : Once(s)}
<1>1. <<>> \in P
  <2>1. NotSeen(<<>>) = <<>> /\ <<>> \in Seq(Events) /\ ToSet(<<>>) = {}
    BY NotSeenType, SetOfSeq
  <2>2. Once(<<>>)
    BY <2>1, InjectiveEmpty
  <2>3. QED
    BY <2>1, <2>2
<1>2. ASSUME NEW s \in Seq(Events), NEW x \in Events, s \in P PROVE Append(s, x) \in P
  <2> DEFINE t == Append(s, x)
  <2>1. t \in Seq(Events)
    OBVIOUS
  <2>2. NotSeen(s) \in Seq(Events) /\ Once(s)
    BY <1>2, NotSeenType
  <2>3. NotSeen(t) = IF x \in ToSet(NotSeen(s)) \cup ToSet(evs) THEN NotSeen(s) ELSE Append(NotSeen(s), x)
    BY NotSeenAppend
  <2>4. ToSet(t) = ToSet(s) \cup {x} /\ ToSet(Append(NotSeen(s), x)) = ToSet(NotSeen(s)) \cup {x}
    BY <2>2, SetOfAppend
  <2>5. x \notin ToSet(NotSeen(s)) => IsInjective(Append(NotSeen(s), x))
    BY <2>2, InjectiveAppend
  <2> HIDE DEF t
  <2>6. CASE x \in ToSet(NotSeen(s)) \cup ToSet(evs)
    <3>1. NotSeen(t) = NotSeen(s)
      BY <2>3, <2>6
    <3>2. Once(t)
      BY <2>2, <2>4, <2>6, <3>1
    <3>3. QED
      BY <2>1, <3>2 DEF t
  <2>7. CASE x \notin ToSet(NotSeen(s)) \cup ToSet(evs)
    <3>1. NotSeen(t) = Append(NotSeen(s), x)
      BY <2>3, <2>7
    <3>2. Once(t)
      BY <2>2, <2>4, <2>5, <2>7, <3>1
    <3>3. QED
      BY <2>1, <3>2 DEF t
  <2>8. QED
    BY <2>6, <2>7
<1>3. batch \in P
  <2> HIDE DEF P
  <2>1. QED
    BY <1>1, <1>2, SequencesInduction
<1>4. QED
  BY <1>3

-----------------------------------------------------------------------------
\* The cap.

\* t ends with s.
EndsWith(t, s) == \E p \in Seq(Events) : t = p \o s

LEMMA EndsWithIsSuffix ==
    ASSUME NEW s \in Seq(Events), NEW t \in Seq(Events), EndsWith(t, s)
    PROVE  IsSuffix(s, t) /\ ToSet(s) \subseteq ToSet(t) /\ Len(s) <= Len(t)
<1>1. PICK p \in Seq(Events) : t = p \o s
  BY DEF EndsWith
<1> DEFINE m == Len(p) n == Len(s) a == Reverse(s) b == Reverse(t)
<1>2. m \in Nat /\ n \in Nat /\ Len(t) = m + n /\ \A i \in 1 .. n : t[m + i] = s[i]
  BY <1>1
<1>3. a = [i \in 1 .. n |-> s[(n - i) + 1]] /\ b = [i \in 1 .. m + n |-> t[(m + n - i) + 1]]
  BY <1>2 DEF Reverse
<1>4. /\ a \in Seq(Events) /\ b \in Seq(Events) /\ Len(a) = n /\ Len(b) = m + n
  <2>1. \A i \in 1 .. n : s[(n - i) + 1] \in Events
    BY <1>2
  <2>2. \A i \in 1 .. m + n : t[(m + n - i) + 1] \in Events
    BY <1>2
  <2> HIDE DEF a, b, m, n
  <2>3. a \in [1 .. n -> Events] /\ b \in [1 .. m + n -> Events]
    BY <1>3, <2>1, <2>2
  <2>4. QED
    BY <1>2, <2>3
<1>5. \A i \in 1 .. n : a[i] = b[i]
  <2>1. SUFFICES ASSUME NEW i \in 1 .. n PROVE a[i] = b[i]
    OBVIOUS
  <2>2. i \in 1 .. m + n /\ (n - i) + 1 \in 1 .. n /\ (m + n - i) + 1 = m + ((n - i) + 1)
    BY <1>2
  <2> HIDE DEF a, b, m, n
  <2>3. QED
    BY <1>2, <1>3, <2>2
<1> HIDE DEF a, b, m, n
<1>6. SubSeq(a, 1, n) = SubSeq(b, 1, n)
  <2>1. /\ SubSeq(a, 1, n) = [i \in 1 .. n |-> a[i]]
        /\ SubSeq(b, 1, n) = [i \in 1 .. n |-> b[i]]
    BY <1>2, <1>4
  <2>2. QED
    BY <1>5, <2>1
<1>7. IsSuffix(s, t)
  BY <1>2, <1>4, <1>6 DEF IsSuffix, IsPrefix, a, b
<1>8. ToSet(s) \subseteq ToSet(t)
  BY <1>1, SetOfConcat
<1>9. QED
  BY <1>2, <1>7, <1>8 DEF n

LEMMA EndsWithSelf ==
    ASSUME NEW s \in Seq(Events)
    PROVE  EndsWith(s, s) /\ EndsWith(s, <<>>)
<1>1. <<>> \in Seq(Events) /\ s = <<>> \o s /\ s = s \o <<>>
  OBVIOUS
<1>2. QED
  BY <1>1 DEF EndsWith

LEMMA EndsWithConcat ==
    ASSUME NEW s \in Seq(Events), NEW t \in Seq(Events), NEW u \in Seq(Events), EndsWith(t, s)
    PROVE  EndsWith(t \o u, s \o u)
<1>1. PICK p \in Seq(Events) : t = p \o s
  BY DEF EndsWith
<1>2. t \o u = p \o (s \o u)
  BY <1>1
<1>3. QED
  BY <1>2 DEF EndsWith

LEMMA EndsWithTrans ==
    ASSUME NEW s \in Seq(Events), NEW t \in Seq(Events), NEW u \in Seq(Events),
           EndsWith(t, s), EndsWith(u, t)
    PROVE  EndsWith(u, s)
<1>1. PICK p \in Seq(Events) : t = p \o s
  BY DEF EndsWith
<1>2. PICK q \in Seq(Events) : u = q \o t
  BY DEF EndsWith
<1>3. q \o p \in Seq(Events) /\ u = (q \o p) \o s
  BY <1>1, <1>2
<1>4. QED
  BY <1>3 DEF EndsWith

\* A sequence is its first k elements and the rest.
LEMMA ElementsOfConcat ==
    ASSUME NEW S, NEW p \in Seq(S), NEW q \in Seq(S), NEW s \in Seq(S),
           Len(s) = Len(p) + Len(q),
           \A i \in 1 .. Len(p) : s[i] = p[i],
           \A i \in 1 .. Len(q) : s[Len(p) + i] = q[i]
    PROVE  s = p \o q
<1>1. p \o q \in Seq(S) /\ Len(p \o q) = Len(s) /\ Len(p) \in Nat /\ Len(q) \in Nat
  OBVIOUS
<1>2. ASSUME NEW i \in 1 .. Len(s) PROVE (p \o q)[i] = s[i]
  <2>1. CASE i \in 1 .. Len(p)
    BY <2>1
  <2>2. CASE i \in Len(p) + 1 .. Len(p) + Len(q)
    <3>1. i - Len(p) \in 1 .. Len(q) /\ Len(p) + (i - Len(p)) = i
      BY <1>1, <2>2
    <3>2. s[i] = q[i - Len(p)]
      BY <3>1
    <3>3. (p \o q)[i] = q[i - Len(p)]
      BY <2>2
    <3>4. QED
      BY <3>2, <3>3
  <2>3. QED
    BY <1>1, <2>1, <2>2
<1>3. QED
  BY <1>1, <1>2

LEMMA Halves ==
    ASSUME NEW S, NEW s \in Seq(S), NEW k \in 0 .. Len(s)
    PROVE  /\ SubSeq(s, 1, k) \in Seq(S) /\ Len(SubSeq(s, 1, k)) = k
           /\ SubSeq(s, k + 1, Len(s)) \in Seq(S)
           /\ Len(SubSeq(s, k + 1, Len(s))) = Len(s) - k
           /\ s = SubSeq(s, 1, k) \o SubSeq(s, k + 1, Len(s))
<1> DEFINE p == SubSeq(s, 1, k) q == SubSeq(s, k + 1, Len(s))
<1>1. p \in Seq(S) /\ Len(p) = k /\ \A i \in 1 .. k : s[i] = p[i]
  OBVIOUS
<1>2. q \in Seq(S) /\ Len(q) = Len(s) - k /\ \A i \in 1 .. Len(s) - k : s[k + i] = q[i]
  OBVIOUS
<1> HIDE DEF p, q
<1>3. Len(s) = Len(p) + Len(q)
  BY <1>1, <1>2
<1>4. s = p \o q
  BY <1>1, <1>2, <1>3, ElementsOfConcat
<1>5. QED
  BY <1>1, <1>2, <1>4 DEF p, q

LEMMA NewestEnds ==
    ASSUME NEW es \in Seq(Events), Len(es) >= MaxEvents
    PROVE  /\ Newest(es) \in Seq(Events) /\ Len(Newest(es)) = MaxEvents
           /\ EndsWith(es, Newest(es))
<1> DEFINE k == Len(es) - MaxEvents
<1>1. MaxEvents \in Nat /\ Len(es) \in Nat /\ k \in 0 .. Len(es)
  BY HotLogAssumption
<1> DEFINE n == Len(es) p == SubSeq(es, 1, k) q == SubSeq(es, k + 1, n)
<1>2. p \in Seq(Events) /\ Len(p) = k /\ \A i \in 1 .. k : p[i] = es[i]
  BY <1>1
<1>3. q \in Seq(Events) /\ Len(q) = MaxEvents /\ \A i \in 1 .. MaxEvents : q[i] = es[k + i]
  BY <1>1
<1>4. es = p \o q
  BY <1>1, Halves
<1>5. QED
  BY <1>2, <1>3, <1>4 DEF Newest, EndsWith

\* Indexed keeps the newest: all of them below the cap, and never fewer than it.
LEMMA IndexedEnds ==
    ASSUME NEW es \in Seq(Events)
    PROVE  /\ EndsWith(es, Indexed(es))
           /\ ~OverCap(Len(Indexed(es)))
           /\ Len(Indexed(es)) < MaxEvents \/ MaxEvents = 0 => Indexed(es) = es
           /\ ~OverCap(Len(es)) => Indexed(es) = es
<1> DEFINE Good(s) == /\ EndsWith(s, Indexed(s))
                      /\ ~OverCap(Len(Indexed(s)))
                      /\ Len(Indexed(s)) < MaxEvents \/ MaxEvents = 0 => Indexed(s) = s
                      /\ ~OverCap(Len(s)) => Indexed(s) = s
           P == {s \in Seq(Events) : Good(s)}
<1>0. MaxEvents \in Nat /\ Slack \in Nat
  BY HotLogAssumption
<1>1. <<>> \in P
  <2>1. Indexed(<<>>) = <<>> /\ <<>> \in Seq(Events) /\ Len(<<>>) = 0
    BY IndexedType
  <2>2. EndsWith(<<>>, <<>>) /\ ~OverCap(0)
    <3>1. EndsWith(<<>>, <<>>)
      BY <2>1, EndsWithSelf
    <3>2. ~OverCap(0)
      BY <1>0 DEF OverCap
    <3>3. QED
      BY <3>1, <3>2
  <2> DEFINE e == <<>>
  <2> HIDE DEF e
  <2>4. Indexed(e) = e /\ Len(e) = 0 /\ EndsWith(e, e)
    BY <2>1, <2>2 DEF e
  <2>5. Good(e) /\ e \in Seq(Events)
    BY <2>1, <2>2, <2>4 DEF e
  <2>3. QED
    BY <2>5 DEF e
<1>2. ASSUME NEW s \in Seq(Events), NEW x \in Events, s \in P PROVE Append(s, x) \in P
  <2> DEFINE t == Append(s, x) i == Indexed(s) a == Append(i, x)
  <2>1. t \in Seq(Events) /\ Len(t) = Len(s) + 1 /\ Len(s) \in Nat
    OBVIOUS
  <2>2. i \in Seq(Events) /\ Good(s)
    BY <1>2, IndexedType
  <2>3. Indexed(t) = IF OverCap(Len(i) + 1) THEN Newest(a) ELSE a
    BY IndexedAppend
  <2>4. a \in Seq(Events) /\ Len(a) = Len(i) + 1 /\ Len(i) \in Nat
    BY <2>2
  <2>5. EndsWith(t, a)
    <3>1. <<x>> \in Seq(Events) /\ t = s \o <<x>>
      OBVIOUS
    <3>2. a = i \o <<x>>
      BY <2>2
    <3>3. EndsWith(s \o <<x>>, i \o <<x>>)
      <4> DEFINE u == <<x>>
      <4> HIDE DEF u, i
      <4>1. EndsWith(s \o u, i \o u)
        BY <2>2, <3>1, EndsWithConcat DEF u, i
      <4>2. QED
        BY <4>1 DEF u
    <3>4. QED
      BY <3>1, <3>2, <3>3
  <2> HIDE DEF t, i, a
  <2>6. CASE OverCap(Len(i) + 1)
    <3>1. MaxEvents > 0 /\ Len(a) > MaxEvents + Slack /\ Len(a) >= MaxEvents
      BY <1>0, <2>4, <2>6 DEF OverCap
    <3>2. Newest(a) \in Seq(Events) /\ Len(Newest(a)) = MaxEvents /\ EndsWith(a, Newest(a))
      BY <2>4, <3>1, NewestEnds
    <3>3. EndsWith(t, Newest(a))
      BY <2>1, <2>4, <2>5, <3>2, EndsWithTrans
    <3>4. ~OverCap(MaxEvents)
      BY <1>0 DEF OverCap
    <3>5. Len(i) <= Len(s)
      BY <2>2, EndsWithIsSuffix DEF i
    <3>6. OverCap(Len(t))
      BY <1>0, <2>1, <2>4, <3>1, <3>5 DEF OverCap
    <3>7. Good(t)
      BY <1>0, <2>3, <2>6, <3>1, <3>2, <3>3, <3>4, <3>6
    <3>8. QED
      BY <2>1, <3>7 DEF t
  <2>7. CASE ~OverCap(Len(i) + 1)
    <3>1. Indexed(t) = a
      BY <2>3, <2>7
    <3>2. ~OverCap(Len(t)) => ~OverCap(Len(s))
      BY <1>0, <2>1 DEF OverCap
    <3>3. i = s => a = t
      BY DEF a, t
    <3>4. Len(a) < MaxEvents => Len(i) < MaxEvents
      BY <1>0, <2>4
    <3>5. Good(t)
      BY <2>2, <2>4, <2>5, <2>7, <3>1, <3>2, <3>3, <3>4 DEF i
    <3>6. QED
      BY <2>1, <3>5 DEF t
  <2>8. QED
    BY <2>6, <2>7
<1>3. es \in P
  <2> HIDE DEF P
  <2>1. QED
    BY <1>1, <1>2, SequencesInduction
<1>4. QED
  BY <1>3

-----------------------------------------------------------------------------
\* The inductive invariants.

\* Only the last line can be unterminated.
Tidy(f) == \A i \in DOMAIN f : f[i].state \in {"bare", "torn"} => i = Len(f)

Swapping == pc \in {"swap", "swapCap"}

\* What each point of a call has prepared.
Control ==
    /\ pc # "free" => up
    /\ ~up => w = "nil" /\ evs = <<>>
    /\ pc \in {"write", "sync"} \/ Swapping => w = "open"
    /\ pc = "write" => writes < MaxWrites
    /\ pc = "free" => buf = <<>>
    /\ pc \in {"write", "sync"} =>
           buf # <<>> /\ IsInjective(buf) /\ ToSet(buf) \cap ToSet(evs) = {}
    /\ pc \in {"compact", "swap"} => buf = Without(evs, target)
    /\ pc \in {"compactCap", "swapCap"} => OverCap(Len(evs)) /\ buf = Newest(evs)
    /\ pc \notin {"compact", "swap"} => target = {}

TypeInv ==
    /\ file \in Seq(Lines) /\ stable \in Seq(Lines)
    /\ Tidy(file) /\ Tidy(stable)
    /\ up \in BOOLEAN
    /\ evs \in Seq(Events) /\ buf \in Seq(Events)
    /\ w \in {"open", "broken", "nil"}
    /\ pc \in {"free", "write", "sync", "compact", "compactCap", "swap", "swapCap"}
    /\ target \in SUBSET Events /\ acked \in SUBSET Events /\ erased \in SUBSET Events
    /\ writes \in 0 .. MaxWrites /\ crashes \in 0 .. MaxCrashes /\ failed \in BOOLEAN
    /\ Control

\* The events on the lines of f that are whole or junk.
Lasting(f) == {f[i].ev : i \in {j \in DOMAIN f : f[j].state \in {"whole", "junk"}}}

\* What is served, or written and about to be, is on a line that no append can damage.
LocalInv ==
    up /\ w = "open" =>
        /\ ~Swapping => ToSet(evs) \subseteq Lasting(file)
        /\ pc = "sync" => ToSet(buf) \subseteq Lasting(file)
        /\ Swapping => file = Whole(buf)

\* Every line is whole.
Clean(f) == \A i \in DOMAIN f : f[i].state = "whole"

\* What the log holds when the running append is counted.
Held == IF pc = "sync" THEN evs \o buf ELSE evs

Serving ==
    /\ up => w = "open"
    /\ Clean(file)
    /\ up /\ ~Swapping => acked \subseteq ToSet(evs) /\ EndsWith(Records(file), Held)
    /\ up /\ ~Swapping /\ pc # "compactCap" =>
           (Len(evs) < MaxEvents \/ MaxEvents = 0 => Records(file) = Held)
    /\ pc \notin {"compactCap", "swapCap"} => ~OverCap(Len(evs))
    /\ Swapping => file = Whole(buf) /\ acked \subseteq ToSet(buf)
    /\ ~up => acked \subseteq ToSet(Records(file))

ServedInv == ~failed => Serving

\* Every line before the last is whole, and the last is not junk.
Cuttable(f) == \A i \in DOMAIN f : f[i].state = "whole" \/ (i = Len(f) /\ f[i].state # "junk")

\* Where no write fails, only a crash leaves a line that is not whole, and Open repairs it.
LinesInv == (up => Clean(file)) /\ Cuttable(file) /\ Cuttable(stable)

\* The first k lines of the log are safe from a power cut.
Settled(k) ==
    /\ k \in 0 .. Len(file) /\ k <= Len(stable)
    /\ SubSeq(file, 1, k) = SubSeq(stable, 1, k)

\* The acknowledged and the served events are on the first k lines.
Within(k) == acked \cup ToSet(evs) \subseteq ToSet(Records(SubSeq(file, 1, k)))

DurableInv ==
    /\ up /\ ~Swapping => acked \subseteq ToSet(evs)
    /\ pc \in {"free", "write"} \/ Compacting => Settled(Len(file)) /\ Within(Len(file))
    /\ pc = "sync" =>
           /\ \E k \in 0 .. Len(file) : Settled(k) /\ Within(k)
           /\ ToSet(buf) \subseteq ToSet(Records(file))
    /\ Swapping => file = Whole(buf) /\ acked \subseteq ToSet(buf)
    /\ AckDurable

\* No two lines carry the same event.
Distinct(f) == \A i, j \in DOMAIN f : f[i].ev = f[j].ev => i = j

MirrorInv ==
    /\ Distinct(file) /\ Distinct(stable) /\ IsInjective(evs)
    /\ up => Records(file) = IF Swapping THEN buf ELSE Held

ErasedInv ==
    LET served == ToSet(IF up THEN evs ELSE Records(file))
    IN /\ ToSet(Records(stable)) = served
       /\ erased \cap (served \cup ToSet(buf)) = {}

LEMMA CommonPart ==
    ASSUME NEW S, NEW f \in Seq(S), NEW g \in Seq(S)
    PROVE  /\ Len(LongestCommonPrefix({f, g})) \in Nat
           /\ Len(LongestCommonPrefix({f, g})) <= Len(g)
           /\ \A k \in Nat : k <= Len(f) /\ k <= Len(g) /\ SubSeq(g, 1, k) = SubSeq(f, 1, k)
                                 => k <= Len(LongestCommonPrefix({f, g}))
<1> DEFINE C == CommonPrefixes({f, g})
           K == {k \in 0 .. Len(g) : k <= Len(f) /\ SubSeq(g, 1, k) = SubSeq(f, 1, k)}
<1>1. Len(f) \in Nat /\ Len(g) \in Nat
  OBVIOUS
<1>2. ASSUME NEW p \in C
      PROVE  Len(p) \in Nat /\ Len(p) <= Len(g)
  <2>1. (\E l \in 0 .. Len(f) : p = SubSeq(f, 1, l)) \/ (\E l \in 0 .. Len(g) : p = SubSeq(g, 1, l))
    BY DEF CommonPrefixes, Prefixes
  <2>2. p \in Seq(S)
    BY <2>1
  <2>3. Len(p) <= Len(g)
    BY DEF CommonPrefixes, IsPrefix
  <2>4. QED
    BY <2>2, <2>3
<1>3. ASSUME NEW k \in K
      PROVE  SubSeq(g, 1, k) \in C /\ Len(SubSeq(g, 1, k)) = k
  <2> DEFINE p == SubSeq(g, 1, k)
  <2>1. k \in 0 .. Len(g) /\ k <= Len(f) /\ p = SubSeq(f, 1, k) /\ Len(p) = k /\ p \in Seq(S)
    BY <1>1
  <2>2. SubSeq(p, 1, Len(p)) = p
    BY <2>1
  <2>3. IsPrefix(p, f) /\ IsPrefix(p, g)
    BY <2>1, <2>2 DEF IsPrefix
  <2>4. p \in Prefixes(g)
    BY <2>1 DEF Prefixes
  <2> HIDE DEF p
  <2>5. p \in C
    BY <2>3, <2>4 DEF CommonPrefixes
  <2>6. QED
    BY <2>1, <2>5 DEF p
<1>4. 0 \in K
  <2>1. SubSeq(g, 1, 0) = <<>> /\ SubSeq(f, 1, 0) = <<>>
    OBVIOUS
  <2>2. QED
    BY <1>1, <2>1
<1>5. C # {}
  BY <1>3, <1>4
<1>6. \E p \in C : \A q \in C : Len(q) <= Len(p)
  <2> DEFINE T == {Len(p) : p \in C}
  <2> HIDE DEF C
  <2>1. T \in SUBSET (0 .. Len(g)) /\ T # {}
    <3>1. \A p \in C : Len(p) \in 0 .. Len(g)
      BY <1>1, <1>2
    <3>2. QED
      BY <1>5, <3>1
  <2>2. \E x \in T : \A y \in T : x >= y
    <3> HIDE DEF T
    <3>1. QED
      BY <1>1, <2>1, Greatest
  <2>3. PICK p \in C : \A y \in T : Len(p) >= y
    BY <2>2
  <2>4. \A q \in C : Len(q) <= Len(p)
    BY <1>2, <2>3
  <2>5. QED
    BY <2>4
<1> DEFINE m == LongestCommonPrefix({f, g})
<1>7. m \in C /\ \A q \in C : Len(q) <= Len(m)
  BY <1>6 DEF LongestCommonPrefix
<1>8. ASSUME NEW k \in Nat, k <= Len(f), k <= Len(g), SubSeq(g, 1, k) = SubSeq(f, 1, k)
      PROVE  k <= Len(m)
  <2>1. k \in K
    BY <1>1, <1>8
  <2> HIDE DEF K, C, m
  <2>2. QED
    BY <1>3, <1>7, <2>1
<1>9. QED
  BY <1>2, <1>7, <1>8

LEMMA Fronts ==
    ASSUME NEW S, NEW f \in Seq(S), f # <<>>
    PROVE  /\ Front(f) \in Seq(S) /\ Len(Front(f)) = Len(f) - 1 /\ Last(f) \in S
           /\ Len(f) \in Nat /\ Len(f) > 0
           /\ \A i \in 1 .. Len(f) - 1 : Front(f)[i] = f[i]
           /\ f = Append(Front(f), Last(f))
<1>1. Len(f) \in Nat /\ Len(f) > 0
  OBVIOUS
<1>2. /\ Front(f) \in Seq(S) /\ Len(Front(f)) = Len(f) - 1 /\ Last(f) \in S
      /\ \A i \in 1 .. Len(f) - 1 : Front(f)[i] = f[i]
  <2>1. Len(f) - 1 \in 0 .. Len(f) /\ 1 \in 1 .. Len(f) /\ Len(f) \in 1 .. Len(f)
    BY <1>1
  <2>2. Last(f) \in S
    BY <2>1 DEF Last
  <2>3. /\ SubSeq(f, 1, Len(f) - 1) \in Seq(S) /\ Len(SubSeq(f, 1, Len(f) - 1)) = Len(f) - 1
        /\ \A i \in 1 .. Len(f) - 1 : SubSeq(f, 1, Len(f) - 1)[i] = f[i]
    <3> DEFINE m == Len(f) - 1
    <3>1. m \in 0 .. Len(f)
      BY <2>1
    <3> HIDE DEF m
    <3>2. /\ SubSeq(f, 1, m) \in Seq(S) /\ Len(SubSeq(f, 1, m)) = m
          /\ \A i \in 1 .. m : SubSeq(f, 1, m)[i] = f[i]
      BY <3>1
    <3>3. QED
      BY <3>2 DEF m
  <2>4. QED
    BY <2>2, <2>3 DEF Front
<1> DEFINE a == Front(f) x == Last(f) n == Len(f)
<1>3. x = f[n]
  BY DEF Last
<1> HIDE DEF a, x, n
<1>4. f = Append(a, x)
  <2>1. /\ Append(a, x) \in Seq(S) /\ Len(Append(a, x)) = n
        /\ \A i \in 1 .. n : Append(a, x)[i] = f[i]
    BY <1>1, <1>2, <1>3 DEF a, x, n
  <2>2. QED
    BY <2>1 DEF n
<1>5. QED
  BY <1>1, <1>2, <1>4 DEF a, x

\* Lines are put behind the log, or the first of them spoils its last line and is spoilt by it.
Joined(f, g, r) ==
    /\ g # <<>> /\ f # <<>> /\ f[Len(f)].state \in {"bare", "torn"}
    /\ Len(r) = (Len(f) - 1) + Len(g)
    /\ \A i \in 1 .. Len(f) - 1 : r[i] = f[i]
    /\ r[Len(f)] = Line("junk", g[1].ev)
    /\ \A i \in 2 .. Len(g) : r[(Len(f) - 1) + i] = g[i]

LEMMA AppendedLines ==
    ASSUME NEW f \in Seq(Lines), NEW g \in Seq(Lines)
    PROVE  /\ Appended(f, g) \in Seq(Lines)
           /\ Appended(f, g) = f \o g \/ Joined(f, g, Appended(f, g))
           /\ Clean(f) => Appended(f, g) = f \o g
<1>1. CASE g # <<>> /\ Ends(f, {"bare", "torn"})
  <2> DEFINE h == Front(f) j == Line("junk", Head(g).ev) t == Tail(g) r == (h \o <<j>>) \o t
  <2>1. Appended(f, g) = r
    BY <1>1 DEF Appended
  <2>2. f # <<>> /\ f[Len(f)].state \in {"bare", "torn"}
    BY <1>1 DEF Ends, Last
  <2>3. /\ h \in Seq(Lines) /\ Len(h) = Len(f) - 1 /\ Len(f) \in Nat /\ Len(f) > 0
        /\ \A i \in 1 .. Len(f) - 1 : h[i] = f[i]
    BY <2>2, Fronts
  <2>4. j \in Lines /\ j = Line("junk", g[1].ev)
    <3>1. Head(g) \in Lines /\ Head(g) = g[1]
      BY <1>1
    <3>2. QED
      BY <3>1 DEF Line, Lines
  <2>5. /\ t \in Seq(Lines) /\ Len(t) = Len(g) - 1 /\ Len(g) \in Nat /\ Len(g) > 0
        /\ \A i \in 2 .. Len(g) : t[i - 1] = g[i]
    BY <1>1
  <2> DEFINE b == h \o <<j>>
  <2> HIDE DEF h, j, t
  <2>6. b \in Seq(Lines) /\ Len(b) = Len(f) /\ b[Len(f)] = j /\ \A i \in 1 .. Len(f) - 1 : b[i] = f[i]
    BY <2>3, <2>4
  <2> HIDE DEF b
  <2>7. /\ b \o t \in Seq(Lines) /\ Len(b \o t) = (Len(f) - 1) + Len(g)
        /\ \A i \in 1 .. Len(f) : (b \o t)[i] = b[i]
        /\ \A i \in 1 .. Len(t) : (b \o t)[Len(f) + i] = t[i]
    <3>1. Len(f) + Len(t) = (Len(f) - 1) + Len(g)
      BY <2>3, <2>5
    <3>2. b \in Seq(Lines) /\ t \in Seq(Lines) /\ Len(b) = Len(f)
      BY <2>5, <2>6
    <3>3. /\ b \o t \in Seq(Lines) /\ Len(b \o t) = Len(b) + Len(t)
          /\ \A i \in 1 .. Len(b) : (b \o t)[i] = b[i]
          /\ \A i \in 1 .. Len(t) : (b \o t)[Len(b) + i] = t[i]
      BY <3>2
    <3>4. QED
      BY <3>1, <3>2, <3>3
  <2> DEFINE z == b \o t
  <2> HIDE DEF z
  <2>8. \A i \in 2 .. Len(g) : z[(Len(f) - 1) + i] = g[i]
    <3>1. SUFFICES ASSUME NEW i \in 2 .. Len(g) PROVE z[(Len(f) - 1) + i] = g[i]
      OBVIOUS
    <3>2. i - 1 \in 1 .. Len(t) /\ (Len(f) - 1) + i = Len(f) + (i - 1)
      BY <2>3, <2>5
    <3>3. QED
      BY <2>5, <2>7, <3>2 DEF z
  <2>9. z[Len(f)] = j /\ \A i \in 1 .. Len(f) - 1 : z[i] = f[i]
    BY <2>3, <2>6, <2>7 DEF z
  <2>10. Joined(f, g, z)
    BY <1>1, <2>2, <2>4, <2>7, <2>8, <2>9 DEF Joined, z
  <2>11. ~Clean(f)
    <3>1. Len(f) \in DOMAIN f
      BY <2>3
    <3>2. QED
      BY <2>2, <3>1 DEF Clean
  <2>12. Appended(f, g) = z
    BY <2>1 DEF z, b
  <2>13. QED
    BY <2>7, <2>10, <2>11, <2>12 DEF z
<1>2. CASE ~(g # <<>> /\ Ends(f, {"bare", "torn"}))
  <2>1. Appended(f, g) = f \o g
    BY <1>2 DEF Appended
  <2>2. QED
    BY <2>1
<1>3. QED
  BY <1>1, <1>2

LEMMA AppendedTidy ==
    ASSUME NEW f \in Seq(Lines), NEW g \in Seq(Lines), Tidy(f), Tidy(g)
    PROVE  Tidy(Appended(f, g))
<1> DEFINE r == Appended(f, g) n == Len(f) m == Len(g)
<1>1. n \in Nat /\ m \in Nat /\ DOMAIN f = 1 .. n /\ DOMAIN g = 1 .. m
  OBVIOUS
<1>2. r \in Seq(Lines) /\ (r = f \o g \/ Joined(f, g, r))
  BY AppendedLines
<1>3. ASSUME r = f \o g PROVE Tidy(r)
  <2>1. CASE g = <<>>
    BY <1>3, <2>1
  <2>2. CASE g # <<>> /\ ~Ends(f, {"bare", "torn"})
    <3>1. /\ m > 0 /\ DOMAIN r = 1 .. n + m /\ Len(r) = n + m
          /\ \A i \in 1 .. n : r[i] = f[i]
          /\ \A i \in 1 .. m : r[n + i] = g[i]
      BY <1>1, <1>3, <2>2
    <3>2. \A i \in 1 .. n : f[i].state \notin {"bare", "torn"}
      <4>1. n > 0 => f # <<>>
        OBVIOUS
      <4>2. n > 0 => f[n].state \notin {"bare", "torn"}
        BY <2>2, <4>1 DEF Ends, Last
      <4>3. QED
        BY <1>1, <4>2 DEF Tidy
    <3>3. \A i \in 1 .. m : g[i].state \in {"bare", "torn"} => i = m
      BY <1>1 DEF Tidy
    <3> HIDE DEF r, n, m
    <3>4. ASSUME NEW i \in 1 .. n + m, r[i].state \in {"bare", "torn"} PROVE i = n + m
      <4>1. CASE i \in 1 .. n
        BY <3>1, <3>2, <3>4, <4>1
      <4>2. CASE i - n \in 1 .. m
        <5>1. r[i] = g[i - n]
          BY <1>1, <3>1, <4>2
        <5>2. i - n = m
          BY <3>3, <3>4, <4>2, <5>1
        <5>3. QED
          BY <1>1, <5>2
      <4>3. QED
        BY <1>1, <4>1, <4>2
    <3>5. QED
      BY <3>1, <3>4 DEF Tidy
  <2>3. CASE g # <<>> /\ Ends(f, {"bare", "torn"})
    \* The first branch of Appended, whose length is another.
    <3>1. f # <<>> /\ Front(f) \in Seq(Lines) /\ Len(Front(f)) = n - 1
      BY <2>3, Fronts DEF Ends
    <3>2. Head(g) \in Lines /\ Tail(g) \in Seq(Lines) /\ Len(Tail(g)) = m - 1 /\ m > 0
      BY <2>3
    <3> DEFINE h == Front(f) j == Line("junk", Head(g).ev) t == Tail(g)
    <3>3. j \in Lines /\ r = (h \o <<j>>) \o t
      BY <2>3, <3>2 DEF Appended, Line, Lines
    <3> HIDE DEF h, j, t
    <3>4. Len((h \o <<j>>) \o t) = ((n - 1) + 1) + (m - 1)
      <4>1. h \o <<j>> \in Seq(Lines) /\ Len(h \o <<j>>) = Len(h) + 1
        BY <3>1, <3>3 DEF h
      <4> DEFINE b == h \o <<j>>
      <4> HIDE DEF b
      <4>2. Len(b \o t) = Len(b) + Len(t)
        BY <3>2, <4>1 DEF b, t
      <4>3. QED
        BY <3>1, <3>2, <4>1, <4>2 DEF b, h, t
    <3>5. Len(f \o g) = n + m
      OBVIOUS
    <3>6. QED
      BY <1>1, <1>3, <3>3, <3>4, <3>5
  <2>4. QED
    BY <2>1, <2>2, <2>3
<1>4. ASSUME Joined(f, g, r) PROVE Tidy(r)
  <2>1. /\ m > 0 /\ n > 0 /\ DOMAIN r = 1 .. (n - 1) + m /\ Len(r) = (n - 1) + m
    BY <1>1, <1>2, <1>4 DEF Joined
  <2> HIDE DEF r
  <2>2. ASSUME NEW i \in 1 .. (n - 1) + m, r[i].state \in {"bare", "torn"} PROVE i = (n - 1) + m
    <3>1. CASE i \in 1 .. n - 1
      <4>1. r[i] = f[i] /\ i \in DOMAIN f
        BY <1>1, <1>4, <3>1 DEF Joined
      <4>2. i = n
        BY <2>2, <4>1 DEF Tidy
      <4>3. QED
        BY <1>1, <3>1, <4>2
    <3>2. CASE i = n
      <4>1. r[i].state = "junk"
        BY <1>4, <3>2 DEF Joined, Line
      <4>2. QED
        BY <2>2, <4>1
    <3>3. CASE i - (n - 1) \in 2 .. m
      <4>1. r[i] = g[i - (n - 1)] /\ i - (n - 1) \in DOMAIN g
        <5> DEFINE k == i - (n - 1)
        <5>1. k \in 2 .. m /\ i = (n - 1) + k
          BY <1>1, <3>3
        <5> HIDE DEF k
        <5>2. r[(n - 1) + k] = g[k] /\ k \in DOMAIN g
          BY <1>1, <1>4, <5>1 DEF Joined
        <5>3. QED
          BY <5>1, <5>2 DEF k
      <4>2. i - (n - 1) = m
        BY <2>2, <4>1 DEF Tidy
      <4>3. QED
        BY <1>1, <4>2
    <3>4. i \in 1 .. n - 1 \/ i = n \/ i - (n - 1) \in 2 .. m
      <4>1. n \in Nat /\ m \in Nat /\ n > 0 /\ m > 0
        BY <1>1, <2>1
      <4> HIDE DEF n, m
      <4>2. QED
        BY <2>2, <4>1
    <3>5. QED
      BY <3>1, <3>2, <3>3, <3>4
  <2>3. QED
    BY <2>1, <2>2 DEF Tidy
<1>5. QED
  BY <1>2, <1>3, <1>4

LEMMA WholeIsClean ==
    ASSUME NEW es \in Seq(Events)
    PROVE  Clean(Whole(es)) /\ Tidy(Whole(es))
<1> DEFINE g == Whole(es)
<1>1. DOMAIN g = 1 .. Len(es) /\ \A i \in 1 .. Len(es) : g[i] = Line("whole", es[i])
  BY WholeType
<1> HIDE DEF g
<1>2. \A i \in DOMAIN g : g[i].state = "whole"
  BY <1>1 DEF Line
<1>3. QED
  BY <1>2 DEF Clean, Tidy, g

\* Clean files are the whole records of a sequence of events: their own.
LEMMA CleanIsWhole ==
    ASSUME NEW f \in Seq(Lines), Clean(f)
    PROVE  f = Whole(Records(f))
<1> DEFINE es == [i \in 1 .. Len(f) |-> f[i].ev]
<1>1. \A i \in 1 .. Len(f) : f[i] = Line("whole", f[i].ev) /\ f[i].ev \in Events
  <2>1. SUFFICES ASSUME NEW i \in 1 .. Len(f) PROVE f[i] = Line("whole", f[i].ev) /\ f[i].ev \in Events
    OBVIOUS
  <2>2. f[i] \in Lines /\ f[i].state = "whole"
    BY DEF Clean
  <2>3. QED
    BY <2>2 DEF Line, Lines
<1>2. es \in Seq(Events) /\ Len(es) = Len(f) /\ \A i \in 1 .. Len(f) : es[i] = f[i].ev
  <2>1. es \in [1 .. Len(f) -> Events] /\ Len(f) \in Nat
    BY <1>1
  <2> HIDE DEF es
  <2>2. es \in Seq(Events) /\ Len(es) = Len(f)
    BY <2>1
  <2>3. QED
    BY <2>2 DEF es
<1> HIDE DEF es
<1>3. f = Whole(es)
  <2> DEFINE g == Whole(es)
  <2>1. g \in Seq(Lines) /\ Len(g) = Len(f) /\ \A i \in 1 .. Len(f) : g[i] = f[i]
    BY <1>1, <1>2, WholeType
  <2> HIDE DEF g
  <2>2. f = g
    BY <2>1
  <2>3. QED
    BY <2>2 DEF g
<1>4. Records(f) = es
  BY <1>2, <1>3, RecordsWhole
<1>5. QED
  BY <1>3, <1>4

LEMMA CleanConcat ==
    ASSUME NEW f \in Seq(Lines), NEW es \in Seq(Events), Clean(f)
    PROVE  /\ Appended(f, Whole(es)) = f \o Whole(es)
           /\ Appended(f, Whole(es)) \in Seq(Lines)
           /\ Clean(Appended(f, Whole(es)))
           /\ Records(Appended(f, Whole(es))) = Records(f) \o es
<1> DEFINE g == Whole(es)
<1>1. g \in Seq(Lines) /\ Clean(g) /\ Records(g) = es
  BY WholeType, WholeIsClean, RecordsWhole
<1> HIDE DEF g
<1>2. Appended(f, g) = f \o g
  BY <1>1, AppendedLines
<1>3. Clean(f \o g)
  <2>1. f \o g \in Seq(Lines) /\ DOMAIN (f \o g) = 1 .. Len(f) + Len(g) /\ Len(f) \in Nat /\ Len(g) \in Nat
    BY <1>1
  <2>2. ASSUME NEW i \in 1 .. Len(f) + Len(g) PROVE (f \o g)[i].state = "whole"
    <3>1. CASE i \in 1 .. Len(f)
      <4>1. (f \o g)[i] = f[i] /\ i \in DOMAIN f
        BY <1>1, <3>1
      <4>2. QED
        BY <4>1 DEF Clean
    <3>2. CASE i - Len(f) \in 1 .. Len(g)
      <4>1. (f \o g)[i] = g[i - Len(f)] /\ i - Len(f) \in DOMAIN g
        BY <1>1, <2>1, <3>2
      <4>2. QED
        BY <1>1, <4>1 DEF Clean
    <3>3. QED
      BY <2>1, <3>1, <3>2
  <2>3. QED
    BY <2>1, <2>2 DEF Clean
<1>4. Records(f \o g) = Records(f) \o es
  BY <1>1, RecordsConcat
<1>5. f \o g \in Seq(Lines)
  BY <1>1
<1>6. QED
  BY <1>2, <1>3, <1>4, <1>5 DEF g

\* A short write: some whole records, then perhaps a cut one.
LEMMA CutLines ==
    ASSUME NEW es \in Seq(Events), NEW n \in 0 .. Len(es) - 1, NEW s \in {"none", "torn", "bare"}
    PROVE  /\ SubSeq(es, 1, n) \in Seq(Events) /\ es[n + 1] \in Events
           /\ Cut(es, n, s) \in Seq(Lines) /\ Tidy(Cut(es, n, s))
           /\ \/ Cut(es, n, s) = Whole(SubSeq(es, 1, n))
              \/ /\ s \in {"torn", "bare"}
                 /\ Cut(es, n, s) = Append(Whole(SubSeq(es, 1, n)), Line(s, es[n + 1]))
<1> DEFINE p == SubSeq(es, 1, n) x == es[n + 1]
<1>1. p \in Seq(Events) /\ Len(p) = n /\ x \in Events /\ n \in Nat /\ n # Len(es)
  OBVIOUS
<1> HIDE DEF p
<1>2. Whole(p) \in Seq(Lines) /\ Tidy(Whole(p)) /\ Len(Whole(p)) = n /\ Clean(Whole(p))
  BY <1>1, WholeType, WholeIsClean
<1> DEFINE h == Whole(p) l == Line(s, x)
<1>3. CASE s = "none"
  <2>1. Cut(es, n, s) = h \o <<>>
    BY <1>3 DEF Cut, p
  <2> HIDE DEF h
  <2>2. h \o <<>> = h
    BY <1>2 DEF h
  <2>3. QED
    BY <1>1, <1>2, <2>1, <2>2 DEF p, h
<1>4. CASE s \in {"torn", "bare"}
  <2>1. l \in Lines /\ l.state = s
    BY <1>1, <1>4 DEF Line, Lines
  <2>2. Cut(es, n, s) = h \o <<l>>
    BY <1>1, <1>4 DEF Cut, p
  <2> HIDE DEF h, l
  <2>3. h \in Seq(Lines) /\ Len(h) = n /\ Tidy(h) /\ Clean(h)
    BY <1>2 DEF h
  <2>4. h \o <<l>> = Append(h, l)
    BY <2>1, <2>3
  <2> DEFINE r == Append(h, l)
  <2>5. r \in Seq(Lines) /\ Len(r) = n + 1 /\ DOMAIN r = 1 .. n + 1 /\ \A i \in 1 .. n : r[i] = h[i]
    BY <1>1, <2>1, <2>3
  <2>6. Tidy(r)
    <3>1. \A i \in 1 .. n : h[i].state = "whole"
      BY <2>3 DEF Clean
    <3> HIDE DEF r
    <3>2. QED
      BY <1>1, <2>5, <3>1 DEF Tidy
  <2>7. QED
    BY <1>1, <1>4, <2>2, <2>4, <2>5, <2>6 DEF p, h, l
<1>5. QED
  BY <1>3, <1>4

\* What Open makes of the log.
LEMMA RepairedLines ==
    ASSUME NEW f \in Seq(Lines), Tidy(f)
    PROVE  /\ Repaired(f) \in Seq(Lines)
           /\ \A i \in DOMAIN Repaired(f) : Repaired(f)[i].state \in {"whole", "junk"}
           /\ Records(Repaired(f)) = Records(f)
           /\ Clean(f) => Repaired(f) = f
           /\ Cuttable(f) => Clean(Repaired(f))
           /\ Distinct(f) => Distinct(Repaired(f))
           /\ Len(Repaired(f)) <= Len(f)
           /\ ~Ends(f, {"bare"}) => Repaired(f) = SubSeq(f, 1, Len(Repaired(f)))
<1> DEFINE n == Len(f)
<1>1. n \in Nat /\ DOMAIN f = 1 .. n
  OBVIOUS
<1>2. \A i \in 1 .. n : f[i] \in Lines
  OBVIOUS
<1>3. CASE Ends(f, {"torn"}) \/ Ends(f, {"bare"})
  <2> DEFINE h == Front(f) l == Last(f) y == Line("whole", l.ev)
  <2>1. f # <<>> /\ l.state \in {"torn", "bare"}
    BY <1>3 DEF Ends
  <2>2. /\ h \in Seq(Lines) /\ Len(h) = n - 1 /\ l \in Lines /\ n > 0
        /\ \A i \in 1 .. n - 1 : h[i] = f[i]
        /\ f = Append(h, l)
    BY <2>1, Fronts
  <2>3. l = f[n] /\ y \in Lines /\ y.state = "whole" /\ y.ev = l.ev
    BY <2>2 DEF Last, Line, Lines
  <2> HIDE DEF h, l, y
  <2>4. \A i \in 1 .. n - 1 : h[i].state \in {"whole", "junk"}
    <3>1. \A i \in 1 .. n - 1 : f[i].state \notin {"bare", "torn"}
      BY <1>1 DEF Tidy
    <3>2. \A i \in 1 .. n - 1 : f[i].state \in {"whole", "bare", "torn", "junk"}
      BY <1>1, <1>2 DEF Lines
    <3>3. QED
      BY <2>2, <3>1, <3>2
  <2>5. ~Clean(f)
    BY <1>1, <2>1, <2>2, <2>3 DEF Clean
  <2>6. Cuttable(f) => \A i \in 1 .. n - 1 : h[i].state = "whole"
    BY <1>1, <2>2 DEF Cuttable
  <2>7. Distinct(f) => \A i, j \in 1 .. n : f[i].ev = f[j].ev => i = j
    BY <1>1 DEF Distinct
  <2>8. Records(f) = IF Parses(l) THEN Append(Records(h), l.ev) ELSE Records(h)
    BY <2>2, RecordsAppend
  <2>9. CASE l.state = "torn"
    <3>1. Ends(f, {"torn"}) /\ ~Ends(f, {"bare"})
      BY <2>1, <2>9 DEF Ends, l
    <3>2. Repaired(f) = h
      BY <3>1 DEF Repaired, h
    <3>3. DOMAIN h = 1 .. n - 1
      BY <1>1, <2>2
    <3>4. Records(f) = Records(h)
      BY <2>8, <2>9 DEF Parses
    <3>5. h = SubSeq(f, 1, Len(h))
      BY <2>2 DEF h, Front
    <3>6. Cuttable(f) => Clean(h)
      BY <2>6, <3>3 DEF Clean
    <3>7. Distinct(f) => Distinct(h)
      <4>1. SUFFICES ASSUME Distinct(f) PROVE Distinct(h)
        OBVIOUS
      <4>2. \A i, j \in 1 .. n - 1 : h[i].ev = h[j].ev => i = j
        BY <1>1, <2>2, <2>7, <4>1
      <4>3. QED
        BY <3>3, <4>2 DEF Distinct
    <3>8. Len(h) <= n
      BY <1>1, <2>2
    <3>9. QED
      BY <2>2, <2>4, <2>5, <3>2, <3>3, <3>4, <3>5, <3>6, <3>7, <3>8
  <2>10. CASE l.state = "bare"
    <3>1. Ends(f, {"bare"}) /\ ~Ends(f, {"torn"})
      BY <2>1, <2>10 DEF Ends, l
    <3>2. Repaired(f) = h \o <<y>>
      BY <3>1 DEF Repaired, h, y, l
    <3>3. h \o <<y>> = Append(h, y)
      BY <2>2, <2>3
    <3> DEFINE r == Append(h, y)
    <3>4. /\ r \in Seq(Lines) /\ Len(r) = n /\ DOMAIN r = 1 .. n /\ r[n] = y
          /\ \A i \in 1 .. n - 1 : r[i] = h[i]
      BY <1>1, <2>2, <2>3
    <3>5. Records(r) = Records(f)
      <4>1. Records(r) = IF Parses(y) THEN Append(Records(h), y.ev) ELSE Records(h)
        BY <2>2, <2>3, RecordsAppend
      <4>2. Parses(y) /\ Parses(l)
        BY <2>3, <2>10 DEF Parses
      <4>3. QED
        BY <2>3, <2>8, <4>1, <4>2
    <3> HIDE DEF r
    <3>6. \A i \in 1 .. n : i \in 1 .. n - 1 \/ i = n
      <4> HIDE DEF n
      <4>1. QED
        BY <1>1
    <3>7. \A i \in 1 .. n : r[i].state \in {"whole", "junk"}
      BY <2>3, <2>4, <3>4, <3>6
    <3>8. Cuttable(f) => Clean(r)
      BY <2>3, <2>6, <3>4, <3>6 DEF Clean
    <3>9. \A i \in 1 .. n : r[i].ev = f[i].ev
      BY <2>2, <2>3, <3>4, <3>6
    <3>10. Distinct(f) => Distinct(r)
      BY <2>7, <3>4, <3>9 DEF Distinct
    <3>11. Repaired(f) = r
      BY <3>2, <3>3 DEF r
    <3>12. Len(r) <= n
      BY <1>1, <3>4
    <3> HIDE DEF n
    <3>13. QED
      BY <2>5, <3>1, <3>4, <3>5, <3>7, <3>8, <3>10, <3>11, <3>12 DEF n
  <2>11. QED
    BY <2>1, <2>9, <2>10
<1>4. CASE ~(Ends(f, {"torn"}) \/ Ends(f, {"bare"}))
  <2>1. Repaired(f) = f
    BY <1>4 DEF Repaired
  <2>2. n > 0 => f # <<>>
    OBVIOUS
  <2>3. n > 0 => f[n].state \notin {"bare", "torn"}
    BY <1>4, <2>2 DEF Ends, Last
  <2>4. \A i \in 1 .. n : f[i].state \in {"whole", "bare", "torn", "junk"}
    BY <1>2 DEF Lines
  <2>5. \A i \in 1 .. n : f[i].state \in {"whole", "junk"}
    BY <1>1, <2>3, <2>4 DEF Tidy
  <2>6. Cuttable(f) => Clean(f)
    BY <1>1, <2>5 DEF Cuttable, Clean
  <2>7. f = SubSeq(f, 1, Len(f))
    OBVIOUS
  <2>8. QED
    BY <1>1, <2>1, <2>5, <2>6, <2>7
<1>5. QED
  BY <1>3, <1>4

\* What a power cut leaves but for the log that was last synced or the log as it is: at
\* least the lines the two have in common, then perhaps a piece of one more.
LeftOver(f, n) ==
    /\ ~Swapping
    /\ n \in 0 .. Len(file)
    /\ \A k \in Nat : Settled(k) => k <= n
    /\ \/ f = SubSeq(file, 1, n)
       \/ /\ n < Len(file)
          /\ \E s \in {"torn", "bare"} : f = Append(SubSeq(file, 1, n), Line(s, file[n + 1].ev))

LEMMA PowerCutLeaves ==
    ASSUME file \in Seq(Lines), stable \in Seq(Lines), NEW f \in AfterPowerCut
    PROVE  \/ f \in {stable, file}
           \/ \E n \in Nat : LeftOver(f, n)
<1> DEFINE same == Len(LongestCommonPrefix({stable, file}))
<1>1. same \in Nat /\ same <= Len(file) /\ Len(file) \in Nat
  BY CommonPart
<1>2. \A k \in Nat : Settled(k) => k <= same
  <2>1. SUFFICES ASSUME NEW k \in Nat, Settled(k) PROVE k <= same
    OBVIOUS
  <2>2. k <= Len(stable) /\ k <= Len(file) /\ SubSeq(file, 1, k) = SubSeq(stable, 1, k)
    BY <1>1, <2>1 DEF Settled
  <2>3. QED
    BY <2>2, CommonPart
<1>3. CASE Swapping
  BY <1>3 DEF AfterPowerCut, Swapping
<1>4. CASE ~Swapping
  <2> DEFINE L(n, s) == SubSeq(file, 1, n) \o <<Line(s, file[n + 1].ev)>>
             A == {SubSeq(file, 1, n) : n \in same .. Len(file)}
             B == {L(n, s) : n \in same .. Len(file) - 1, s \in {"torn", "bare"}}
  <2>1. AfterPowerCut = {stable, file} \cup A \cup B
    BY <1>4 DEF AfterPowerCut, Swapping
  <2> HIDE DEF same, L
  <2>2. CASE f \in A
    <3>1. PICK n \in same .. Len(file) : f = SubSeq(file, 1, n)
      BY <2>2
    <3>2. n \in Nat /\ LeftOver(f, n)
      BY <1>1, <1>2, <1>4, <3>1 DEF LeftOver
    <3>3. QED
      BY <3>2
  <2>3. CASE f \in B
    <3>1. PICK n \in same .. Len(file) - 1, s \in {"torn", "bare"} : f = L(n, s)
      BY <2>3
    <3>2. n \in Nat /\ n \in 0 .. Len(file) /\ n < Len(file) /\ same <= n
      BY <1>1
    <3>3. SubSeq(file, 1, n) \in Seq(Lines) /\ file[n + 1] \in Lines
      BY <3>2
    <3>4. Line(s, file[n + 1].ev) \in Lines
      BY <3>3 DEF Line, Lines
    <3> DEFINE l == Line(s, file[n + 1].ev) p == SubSeq(file, 1, n)
    <3> HIDE DEF l, p
    <3>5. p \o <<l>> = Append(p, l)
      BY <3>3, <3>4 DEF p, l
    <3>6. LeftOver(f, n)
      BY <1>1, <1>2, <1>4, <3>1, <3>2, <3>5 DEF LeftOver, p, l, L
    <3>7. QED
      BY <3>2, <3>6
  <2> HIDE DEF A, B
  <2>4. QED
    BY <2>1, <2>2, <2>3
<1>5. QED
  BY <1>3, <1>4

LEMMA LeftOverLines ==
    ASSUME file \in Seq(Lines), NEW n \in Nat, NEW f, LeftOver(f, n)
    PROVE  /\ f \in Seq(Lines) /\ SubSeq(file, 1, n) \in Seq(Lines) /\ Len(SubSeq(file, 1, n)) = n
           /\ n <= Len(f)
           /\ \A i \in 1 .. n : f[i] = file[i]
           /\ \A i \in DOMAIN f : i \in DOMAIN file /\ f[i].ev = file[i].ev
           /\ DOMAIN f = 1 .. n \/ DOMAIN f = 1 .. n + 1
           /\ Tidy(file) => Tidy(f)
<1> DEFINE p == SubSeq(file, 1, n)
<1>1. n \in 0 .. Len(file) /\ Len(file) \in Nat /\ DOMAIN file = 1 .. Len(file)
  BY DEF LeftOver
<1>2. p \in Seq(Lines) /\ Len(p) = n /\ \A i \in 1 .. n : p[i] = file[i] /\ file[i] \in Lines
  BY <1>1
<1>3. CASE f = p
  <2>1. Tidy(file) => Tidy(f)
    <3> HIDE DEF p
    <3>1. DOMAIN f = 1 .. n
      BY <1>2, <1>3
    <3>2. QED
      BY <1>1, <1>2, <1>3, <3>1 DEF Tidy
  <2>2. DOMAIN f = 1 .. n
    BY <1>2, <1>3
  <2>3. \A i \in 1 .. n : i \in DOMAIN file
    BY <1>1
  <2> HIDE DEF p
  <2>4. QED
    BY <1>2, <1>3, <2>1, <2>2, <2>3 DEF p
<1>4. CASE f # p
  <2>1. PICK s \in {"torn", "bare"} : n < Len(file) /\ f = Append(p, Line(s, file[n + 1].ev))
    BY <1>4 DEF LeftOver
  <2> DEFINE l == Line(s, file[n + 1].ev)
  <2>2. file[n + 1] \in Lines
    BY <1>1, <2>1
  <2>3. l \in Lines /\ l.ev = file[n + 1].ev
    BY <2>2 DEF Line, Lines
  <2> HIDE DEF p, l
  <2>4. /\ f \in Seq(Lines) /\ Len(f) = n + 1 /\ DOMAIN f = 1 .. n + 1 /\ f[n + 1] = l
        /\ \A i \in 1 .. n : f[i] = p[i]
    BY <1>2, <2>1, <2>3 DEF l
  <2>5. \A i \in 1 .. n + 1 : i \in DOMAIN file
    BY <1>1, <2>1
  <2>6. \A i \in 1 .. n + 1 : i \in 1 .. n \/ i = n + 1
    OBVIOUS
  <2>7. \A i \in 1 .. n + 1 : f[i].ev = file[i].ev
    BY <1>2, <2>3, <2>4, <2>6
  <2>8. Tidy(file) => Tidy(f)
    <3>1. SUFFICES ASSUME Tidy(file) PROVE \A i \in 1 .. n : f[i].state \notin {"bare", "torn"}
      BY <2>4, <2>6 DEF Tidy
    <3>2. \A i \in 1 .. n : f[i] = file[i] /\ i \in DOMAIN file /\ i # Len(file)
      <4>1. \A i \in 1 .. n : i \in 1 .. n + 1 /\ i # Len(file)
        <5> DEFINE m == Len(file)
        <5>1. m \in Nat /\ n < m
          BY <1>1, <2>1
        <5> HIDE DEF m
        <5>2. \A i \in 1 .. n : i \in 1 .. n + 1 /\ i # m
          BY <5>1
        <5>3. QED
          BY <5>2 DEF m
      <4>2. QED
        BY <1>2, <2>4, <2>5, <4>1
    <3>3. QED
      BY <3>1, <3>2 DEF Tidy
  <2>9. QED
    BY <1>2, <2>4, <2>5, <2>7, <2>8 DEF p
<1>5. QED
  BY <1>3, <1>4

-----------------------------------------------------------------------------
\* Types, and what each point of a call has prepared.

LEMMA Bounds ==
    /\ MaxEvents \in Nat /\ Slack \in Nat /\ MaxWrites \in Nat /\ MaxCrashes \in Nat
    /\ \A batch \in Batches : batch \in Seq(Events) /\ ToSet(batch) \in SUBSET Events
<1>1. Batches \subseteq Seq(Events)
  BY HotLogAssumption
<1>2. ASSUME NEW batch \in Batches PROVE batch \in Seq(Events) /\ ToSet(batch) \in SUBSET Events
  BY <1>1, SetOfSeq
<1>3. QED
  BY <1>2, HotLogAssumption

\* A short write is types and tidiness as the whole one.
LEMMA ShortWriteType ==
    ASSUME TypeInv, pc = "write", ShortWrite
    PROVE  file' \in Seq(Lines) /\ Tidy(file')
<1>1. PICK n \in 0 .. Len(buf) - 1, s \in {"none", "torn", "bare"} :
          file' = Appended(file, Cut(buf, n, s))
  BY DEF ShortWrite
<1>2. buf \in Seq(Events) /\ file \in Seq(Lines) /\ Tidy(file)
  BY DEF TypeInv
<1>3. Cut(buf, n, s) \in Seq(Lines) /\ Tidy(Cut(buf, n, s))
  BY <1>2, CutLines
<1> DEFINE c == Cut(buf, n, s)
<1> HIDE DEF c
<1>4. Appended(file, c) \in Seq(Lines) /\ Tidy(Appended(file, c))
  BY <1>2, <1>3, AppendedLines, AppendedTidy DEF c
<1>5. QED
  BY <1>1, <1>4 DEF c

LEMMA TypeIngest ==
    ASSUME TypeInv, NEW batch \in Batches, Ingest(batch)
    PROVE  TypeInv'
<1> DEFINE new == NotSeen(batch)
<1>1. batch \in Seq(Events) /\ ToSet(batch) \in SUBSET Events
  BY Bounds
<1>2. /\ new \in Seq(Events) /\ IsInjective(new)
      /\ ToSet(new) = ToSet(batch) \ ToSet(evs)
  BY <1>1, NotSeenType, NotSeenOnce
<1> HIDE DEF new
<1>3. CASE new = <<>>
  BY <1>1, <1>3 DEF Ingest, new, TypeInv, Control, Swapping
<1>4. CASE new # <<>>
  <2>1. /\ pc' = "write" /\ buf' = new /\ w = "open" /\ writes < MaxWrites /\ pc = "free" /\ up
        /\ UNCHANGED <<file, stable, up, evs, w, target, writes, crashes, failed, acked>>
        /\ erased' \in SUBSET Events
    BY <1>4 DEF Ingest, new, TypeInv
  <2>2. Control'
    BY <1>2, <1>4, <2>1 DEF TypeInv, Control, Swapping
  <2>3. QED
    BY <1>2, <2>1, <2>2 DEF TypeInv
<1>5. QED
  BY <1>3, <1>4

LEMMA TypeWrites ==
    ASSUME TypeInv, Write \/ WriteFails \/ Sync \/ SyncFails
    PROVE  TypeInv'
<1>1. /\ file \in Seq(Lines) /\ Tidy(file) /\ evs \in Seq(Events) /\ buf \in Seq(Events)
      /\ acked \in SUBSET Events /\ writes \in Nat /\ MaxWrites \in Nat
  BY Bounds DEF TypeInv
<1>2. CASE Write
  <2> DEFINE b == Whole(buf)
  <2>1. b \in Seq(Lines) /\ Tidy(b)
    BY <1>1, WholeType, WholeIsClean
  <2> HIDE DEF b
  <2>2. Appended(file, b) \in Seq(Lines) /\ Tidy(Appended(file, b))
    BY <1>1, <2>1, AppendedLines, AppendedTidy
  <2>3. file' = Appended(file, b)
    BY <1>2 DEF Write, b
  <2>4. writes' \in 0 .. MaxWrites
    BY <1>1, <1>2 DEF Write, TypeInv, Control
  <2>5. Control'
    BY <1>2 DEF Write, TypeInv, Control, Swapping
  <2>6. QED
    BY <1>2, <2>2, <2>3, <2>4, <2>5 DEF Write, TypeInv
<1>3. CASE WriteFails
  <2>1. file' \in Seq(Lines) /\ Tidy(file')
    BY <1>3, ShortWriteType DEF WriteFails
  <2>2. writes' \in 0 .. MaxWrites
    BY <1>1, <1>3 DEF WriteFails, TypeInv, Control
  <2>3. Control'
    BY <1>3 DEF WriteFails, Return, TypeInv, Control, Swapping
  <2>4. QED
    BY <1>3, <2>1, <2>2, <2>3 DEF WriteFails, Return, TypeInv
<1>4. CASE Sync
  <2> DEFINE all == evs \o buf
  <2>1. all \in Seq(Events) /\ ToSet(buf) \in SUBSET Events
    BY <1>1, SetOfSeq
  <2> HIDE DEF all
  <2>2. evs' = all /\ acked' \in SUBSET Events
    BY <1>1, <1>4, <2>1 DEF Sync, all
  <2>3. CASE OverCap(Len(all))
    <3>1. pc' = "compactCap" /\ buf' = Newest(all) /\ target' = target
      BY <1>4, <2>2, <2>3 DEF Sync
    <3>2. Newest(all) \in Seq(Events)
      <4>1. Len(all) \in Nat /\ Len(all) >= MaxEvents
        BY <2>1, <2>3, Bounds DEF OverCap
      <4>2. QED
        BY <2>1, <4>1, NewestEnds
    <3>3. Control'
      BY <1>4, <2>2, <2>3, <3>1 DEF Sync, TypeInv, Control, Swapping
    <3>4. QED
      BY <1>4, <2>1, <2>2, <3>1, <3>2, <3>3 DEF Sync, TypeInv
  <2>4. CASE ~OverCap(Len(all))
    <3>1. Return
      BY <1>4, <2>2, <2>4 DEF Sync
    <3>2. Control'
      BY <1>4, <3>1 DEF Sync, Return, TypeInv, Control, Swapping
    <3>3. QED
      BY <1>4, <2>1, <2>2, <3>1, <3>2 DEF Sync, Return, TypeInv
  <2>5. QED
    BY <2>3, <2>4
<1>5. CASE SyncFails
  <2>1. evs \o buf \in Seq(Events)
    BY <1>1
  <2>2. Control'
    BY <1>5 DEF SyncFails, Return, TypeInv, Control, Swapping
  <2>3. QED
    BY <1>5, <2>1, <2>2 DEF SyncFails, Return, TypeInv
<1>6. QED
  BY <1>2, <1>3, <1>4, <1>5

LEMMA TypeDiscard ==
    ASSUME TypeInv, NEW events \in SUBSET Events, Discard(events)
    PROVE  TypeInv'
<1> DEFINE kept == Without(evs, events)
<1>1. kept \in Seq(Events)
  BY WithoutType DEF TypeInv
<1> HIDE DEF kept
<1>2. CASE Len(kept) < Len(evs)
  <2>1. /\ pc' = "compact" /\ buf' = kept /\ target' = events /\ pc = "free" /\ up
        /\ UNCHANGED <<file, stable, up, evs, w, acked, erased, writes, crashes, failed>>
    BY <1>2 DEF Discard, kept
  <2>2. Control'
    BY <2>1 DEF TypeInv, Control, Swapping, kept
  <2>3. QED
    BY <1>1, <2>1, <2>2 DEF TypeInv
<1>3. CASE ~(Len(kept) < Len(evs))
  BY <1>3 DEF Discard, kept, TypeInv, Control, Swapping
<1>4. QED
  BY <1>2, <1>3

LEMMA TypeCompaction ==
    ASSUME TypeInv, CompactFails \/ Rename \/ RenameFails \/ Swap \/ ReopenFails \/ Clear
    PROVE  TypeInv'
<1>1. buf \in Seq(Events) /\ <<>> \in Seq(Events) /\ <<>> \in Seq(Lines) /\ Tidy(<<>>)
  BY DEF TypeInv, Tidy
<1>2. CASE CompactFails \/ RenameFails
  <2>1. /\ Return /\ w' \in {"open", "broken", "nil"} /\ up /\ failed' = TRUE
        /\ UNCHANGED <<file, stable, up, evs, acked, erased, writes, crashes>>
    BY <1>2 DEF CompactFails, RenameFails, Compacting, TypeInv, Control
  <2>2. Control'
    BY <2>1 DEF Return, TypeInv, Control, Swapping
  <2>3. QED
    BY <1>1, <2>1, <2>2 DEF Return, TypeInv
<1>3. CASE Rename
  <2>1. Whole(buf) \in Seq(Lines) /\ Tidy(Whole(buf))
    BY <1>1, WholeType, WholeIsClean
  <2>2. Control'
    BY <1>3 DEF Rename, Compacting, TypeInv, Control, Swapping
  <2>3. QED
    BY <1>3, <2>1, <2>2 DEF Rename, TypeInv
<1>4. CASE Swap
  <2>1. Control'
    BY <1>4 DEF Swap, Return, TypeInv, Control, Swapping
  <2>2. QED
    BY <1>1, <1>4, <2>1 DEF Swap, Return, TypeInv
<1>5. CASE ReopenFails
  <2>1. Control'
    BY <1>5 DEF ReopenFails, Return, TypeInv, Control, Swapping
  <2>2. QED
    BY <1>1, <1>5, <2>1 DEF ReopenFails, Return, TypeInv
<1>6. CASE Clear
  <2>1. Control'
    BY <1>6 DEF Clear, TypeInv, Control, Swapping
  <2>2. file' \in Seq(Lines) /\ Tidy(file') /\ failed' \in BOOLEAN
    BY <1>1, <1>6 DEF Clear, TypeInv
  <2>3. QED
    BY <1>1, <1>6, <2>1, <2>2 DEF Clear, TypeInv
<1>7. QED
  BY <1>2, <1>3, <1>4, <1>5, <1>6

\* After a power cut the log is what was synced, what was written, or a part of that.
LEMMA PowerCutType ==
    ASSUME TypeInv, PowerCut
    PROVE  file' \in Seq(Lines) /\ Tidy(file')
<1>1. file \in Seq(Lines) /\ stable \in Seq(Lines) /\ Tidy(file) /\ Tidy(stable) /\ file' \in AfterPowerCut
  BY DEF TypeInv, PowerCut
<1>2. file' \in {stable, file} \/ \E n \in Nat : LeftOver(file', n)
  BY <1>1, PowerCutLeaves
<1>3. ASSUME NEW n \in Nat, LeftOver(file', n) PROVE file' \in Seq(Lines) /\ Tidy(file')
  BY <1>1, <1>3, LeftOverLines
<1>4. QED
  BY <1>1, <1>2, <1>3

LEMMA TypeRestarts ==
    ASSUME TypeInv, Close \/ Crash \/ PowerCut \/ Open
    PROVE  TypeInv'
<1>1. <<>> \in Seq(Events) /\ crashes \in Nat /\ MaxCrashes \in Nat /\ crashes <= MaxCrashes
  BY Bounds DEF TypeInv
<1>2. ASSUME Stop PROVE Control'
  BY <1>2 DEF Stop, Return, TypeInv, Control, Swapping
<1>3. CASE Close
  BY <1>1, <1>2, <1>3 DEF Close, Stop, Return, TypeInv
<1>4. CASE Crash
  <2>1. file' \in Seq(Lines) /\ Tidy(file') /\ failed' \in BOOLEAN
    BY <1>4, ShortWriteType DEF Crash, TypeInv
  <2>2. crashes' \in 0 .. MaxCrashes
    BY <1>1, <1>4 DEF Crash
  <2>3. QED
    BY <1>1, <1>2, <1>4, <2>1, <2>2 DEF Crash, Stop, Return, TypeInv
<1>5. CASE PowerCut
  <2>1. file' \in Seq(Lines) /\ Tidy(file')
    BY <1>5, PowerCutType
  <2>2. crashes' \in 0 .. MaxCrashes
    BY <1>1, <1>5 DEF PowerCut
  <2>3. QED
    BY <1>1, <1>2, <1>5, <2>1, <2>2 DEF PowerCut, Stop, Return, TypeInv
<1>6. CASE Open
  <2>1. Replay(file) \in Seq(Events)
    BY RecordsType, IndexedType DEF TypeInv, Replay
  <2>2. Repaired(file) \in Seq(Lines) /\ Tidy(Repaired(file))
    <3>1. file \in Seq(Lines) /\ Tidy(file)
      BY DEF TypeInv
    <3> DEFINE r == Repaired(file)
    <3>2. r \in Seq(Lines) /\ \A i \in DOMAIN r : r[i].state \in {"whole", "junk"}
      BY <3>1, RepairedLines
    <3> HIDE DEF r
    <3>3. QED
      BY <3>2 DEF Tidy, r
  <2>3. pc = "free" /\ buf = <<>> /\ target = {}
    BY <1>6 DEF Open, TypeInv, Control
  <2>4. Control'
    BY <1>6, <2>3 DEF Open, Control, Swapping
  <2>5. QED
    BY <1>6, <2>1, <2>2, <2>4 DEF Open, TypeInv
<1>7. QED
  BY <1>3, <1>4, <1>5, <1>6

\* The two calls that remove events.
LEMMA DiscardTypes ==
    /\ \A cutoff : Prune(cutoff) => \E events \in SUBSET Events : Discard(events)
    /\ \A user : DeleteUser(user) => \E events \in SUBSET Events : Discard(events)
BY DEF Prune, DeleteUser

LEMMA TypeInductive ==
    TypeInv /\ [Next]_vars => TypeInv'
<1>1. SUFFICES ASSUME TypeInv, [Next]_vars PROVE TypeInv'
  OBVIOUS
<1>2. CASE UNCHANGED vars
  BY <1>1, <1>2 DEF vars, TypeInv, Control, Swapping
<1>3. ASSUME NEW batch \in Batches, Ingest(batch) PROVE TypeInv'
  BY <1>1, <1>3, TypeIngest
<1>4. ASSUME NEW events \in SUBSET Events, Discard(events) PROVE TypeInv'
  BY <1>1, <1>4, TypeDiscard
<1>5. QED
  BY <1>1, <1>2, <1>3, <1>4, TypeWrites, DiscardTypes, TypeCompaction, TypeRestarts DEF Next

LEMMA TypeInit ==
    Init => TypeInv
<1>1. SUFFICES ASSUME Init PROVE TypeInv
  OBVIOUS
<1>2. <<>> \in Seq(Events) /\ <<>> \in Seq(Lines) /\ Tidy(<<>>)
  BY DEF Tidy
<1>3. Control
  BY <1>1 DEF Init, Control, Swapping
<1>4. 0 \in 0 .. MaxWrites /\ 0 \in 0 .. MaxCrashes
  BY Bounds
<1>5. QED
  BY <1>1, <1>2, <1>3, <1>4 DEF Init, TypeInv

LEMMA TypeInvariant ==
    Spec => []TypeInv
<1>1. QED
  BY TypeInit, TypeInductive, PTL DEF Spec

\* The variables hold values of their types, and only the last line of the log
\* can be unterminated (Append and repair in file.go), whatever fails or
\* crashes.
THEOREM TypeCorrect == Spec => []TypeOK
<1>1. TypeInv => TypeOK
  <2>1. SUFFICES ASSUME TypeInv PROVE TypeOK
    OBVIOUS
  <2>2. ASSUME NEW f \in {file, stable}, NEW i \in DOMAIN f
        PROVE  /\ f[i].state \in {"whole", "bare", "torn", "junk"}
               /\ f[i].ev \in Events
               /\ f[i].state \in {"bare", "torn"} => i = Len(f)
    <3>1. f \in Seq(Lines) /\ Tidy(f)
      BY <2>1 DEF TypeInv
    <3>2. f[i] \in Lines
      BY <3>1
    <3>3. QED
      BY <3>1, <3>2 DEF Lines, Tidy
  <2>3. QED
    BY <2>1, <2>2 DEF TypeInv, TypeOK
<1>2. QED
  BY <1>1, TypeInvariant, PTL

-----------------------------------------------------------------------------
\* What is served is on a line that no append can damage.

LEMMA LastingAppended ==
    ASSUME NEW f \in Seq(Lines), NEW g \in Seq(Lines)
    PROVE  Lasting(f) \subseteq Lasting(Appended(f, g))
<1> DEFINE r == Appended(f, g)
<1>1. /\ r \in Seq(Lines) /\ (r = f \o g \/ Joined(f, g, r))
      /\ Len(f) \in Nat /\ Len(g) \in Nat /\ DOMAIN f = 1 .. Len(f)
  <2>1. Len(f) \in Nat /\ Len(g) \in Nat /\ DOMAIN f = 1 .. Len(f)
    OBVIOUS
  <2>2. r \in Seq(Lines) /\ (r = f \o g \/ Joined(f, g, r))
    BY AppendedLines
  <2>3. QED
    BY <2>1, <2>2
<1>2. ASSUME NEW i \in DOMAIN f, f[i].state \in {"whole", "junk"}
      PROVE  i \in DOMAIN r /\ r[i] = f[i]
  <2>1. CASE r = f \o g
    <3>1. DOMAIN (f \o g) = 1 .. Len(f) + Len(g) /\ (f \o g)[i] = f[i]
      OBVIOUS
    <3>2. QED
      BY <1>1, <2>1, <3>1
  <2>2. CASE Joined(f, g, r)
    <3>1. i # Len(f)
      BY <1>2, <2>2 DEF Joined
    <3>2. i \in 1 .. Len(f) - 1 /\ Len(g) > 0
      BY <1>1, <2>2, <3>1 DEF Joined
    <3>3. DOMAIN r = 1 .. (Len(f) - 1) + Len(g)
      BY <1>1, <2>2 DEF Joined
    <3>4. QED
      BY <1>1, <2>2, <3>2, <3>3 DEF Joined
  <2>3. QED
    BY <1>1, <2>1, <2>2
<1> HIDE DEF r
<1>3. QED
  BY <1>2 DEF Lasting, r

LEMMA LastingWritten ==
    ASSUME NEW f \in Seq(Lines), NEW es \in Seq(Events)
    PROVE  ToSet(es) \subseteq Lasting(Appended(f, Whole(es)))
<1> DEFINE g == Whole(es) r == Appended(f, g)
<1>1. /\ g \in Seq(Lines) /\ Len(g) = Len(es)
      /\ \A i \in 1 .. Len(es) : g[i] = Line("whole", es[i])
  BY WholeType
<1> HIDE DEF g
<1>2. /\ r \in Seq(Lines) /\ (r = f \o g \/ Joined(f, g, r))
      /\ Len(f) \in Nat /\ Len(g) \in Nat
  <2>1. Len(f) \in Nat /\ Len(g) \in Nat
    BY <1>1
  <2>2. r \in Seq(Lines) /\ (r = f \o g \/ Joined(f, g, r))
    BY <1>1, AppendedLines
  <2>3. QED
    BY <2>1, <2>2
<1>3. ASSUME NEW i \in 1 .. Len(es)
      PROVE  \E j \in DOMAIN r : r[j].state \in {"whole", "junk"} /\ r[j].ev = es[i]
  <2>0. g[i].state = "whole" /\ g[i].ev = es[i]
    <3>1. g[i] = Line("whole", es[i])
      BY <1>1, <1>3
    <3>2. QED
      BY <3>1 DEF Line
  <2>1. CASE r = f \o g
    <3>1. Len(f) + i \in DOMAIN (f \o g) /\ (f \o g)[Len(f) + i] = g[i]
      BY <1>1, <1>2
    <3>2. QED
      BY <2>0, <2>1, <3>1
  <2>2. CASE Joined(f, g, r)
    <3>1. Len(f) > 0 /\ DOMAIN r = 1 .. (Len(f) - 1) + Len(g)
      BY <1>2, <2>2 DEF Joined
    <3>2. CASE i = 1
      <4>1. Len(f) \in DOMAIN r
        BY <1>1, <1>2, <3>1, <3>2
      <4>2. r[Len(f)] = Line("junk", g[1].ev) /\ g[1] = Line("whole", es[1])
        BY <1>1, <2>2, <3>2 DEF Joined
      <4>3. QED
        BY <3>2, <4>1, <4>2 DEF Line
    <3>3. CASE i \in 2 .. Len(g)
      <4>1. (Len(f) - 1) + i \in DOMAIN r /\ r[(Len(f) - 1) + i] = g[i]
        BY <1>1, <1>2, <2>2, <3>1, <3>3 DEF Joined
      <4>2. QED
        BY <2>0, <4>1
    <3>4. QED
      BY <1>1, <1>2, <3>2, <3>3
  <2>3. QED
    BY <1>2, <2>1, <2>2
<1> HIDE DEF r
<1>4. QED
  BY <1>3 DEF Lasting, ToSet, r, g

\* Once Open has seen to the last line, what parses is on a whole line.
LEMMA LastingRecords ==
    ASSUME NEW f \in Seq(Lines), \A i \in DOMAIN f : f[i].state \in {"whole", "junk"}
    PROVE  ToSet(Records(f)) \subseteq Lasting(f)
BY RecordsSet DEF Lasting, Parses

\* A replay serves records of the log; all of them, unless it trims.
LEMMA ReplaySet ==
    ASSUME NEW f \in Seq(Lines)
    PROVE  /\ ToSet(Replay(f)) \subseteq ToSet(Records(f))
           /\ ~OverCap(Len(Records(f))) => Replay(f) = Records(f)
<1>1. Records(f) \in Seq(Events) /\ Indexed(Records(f)) \in Seq(Events)
  BY RecordsType, IndexedType
<1>2. EndsWith(Records(f), Indexed(Records(f)))
  BY <1>1, IndexedEnds
<1>3. QED
  BY <1>1, <1>2, IndexedEnds, EndsWithIsSuffix DEF Replay

LEMMA LocalInductive ==
    TypeInv /\ TypeInv' /\ LocalInv /\ [Next]_vars => LocalInv'
<1>1. SUFFICES ASSUME TypeInv, TypeInv', LocalInv, [Next]_vars PROVE LocalInv'
  OBVIOUS
<1>2. file \in Seq(Lines) /\ buf \in Seq(Events) /\ evs \in Seq(Events)
  BY <1>1 DEF TypeInv
<1>3. ToSet(<<>>) = {}
  BY <1>2, SetOfSeq
<1>4. ASSUME NEW batch \in Batches, Ingest(batch) PROVE LocalInv'
  BY <1>1, <1>4 DEF Ingest, LocalInv, Swapping
<1>5. CASE Write
  <2>1. /\ file' = Appended(file, Whole(buf)) /\ pc' = "sync" /\ pc = "write"
        /\ UNCHANGED <<up, evs, w, buf>>
    BY <1>5 DEF Write
  <2>2. Whole(buf) \in Seq(Lines)
    BY <1>2, WholeType
  <2>3. Lasting(file) \subseteq Lasting(file') /\ ToSet(buf) \subseteq Lasting(file')
    BY <1>2, <2>1, <2>2, LastingAppended, LastingWritten
  <2>4. QED
    BY <1>1, <2>1, <2>3 DEF LocalInv, Swapping
<1>6. CASE WriteFails
  <2>1. PICK n \in 0 .. Len(buf) - 1, s \in {"none", "torn", "bare"} :
            file' = Appended(file, Cut(buf, n, s))
    BY <1>6 DEF WriteFails, ShortWrite
  <2>2. Cut(buf, n, s) \in Seq(Lines)
    BY <1>2, CutLines
  <2>3. Lasting(file) \subseteq Lasting(file')
    BY <1>2, <2>1, <2>2, LastingAppended
  <2>4. pc = "write" /\ pc' = "free" /\ UNCHANGED <<up, evs, w>>
    BY <1>6 DEF WriteFails, Return
  <2>5. QED
    BY <1>1, <2>3, <2>4 DEF LocalInv, Swapping
<1>7. CASE Sync \/ SyncFails
  <2>1. /\ evs' = evs \o buf /\ pc = "sync" /\ pc' \in {"free", "compactCap"}
        /\ UNCHANGED <<file, up, w>>
    BY <1>7 DEF Sync, SyncFails, Return
  <2>2. ToSet(evs') = ToSet(evs) \cup ToSet(buf)
    BY <1>2, <2>1, SetOfConcat
  <2>3. QED
    BY <1>1, <2>1, <2>2 DEF LocalInv, Swapping
<1>8. ASSUME NEW events \in SUBSET Events, Discard(events) PROVE LocalInv'
  BY <1>1, <1>8 DEF Discard, LocalInv, Swapping
<1>9. CASE CompactFails \/ RenameFails
  BY <1>1, <1>9 DEF CompactFails, RenameFails, Compacting, Return, LocalInv, Swapping
<1>10. CASE Rename
  BY <1>1, <1>10 DEF Rename, Compacting, LocalInv, Swapping
<1>11. CASE Swap
  <2>1. file = Whole(buf)
    BY <1>1, <1>11 DEF Swap, LocalInv, TypeInv, Control, Swapping
  <2>2. ToSet(buf) \subseteq Lasting(Whole(buf))
    <3>1. Whole(buf) \in Seq(Lines) /\ Clean(Whole(buf)) /\ Records(Whole(buf)) = buf
      BY <1>2, WholeType, WholeIsClean, RecordsWhole
    <3> DEFINE b == Whole(buf)
    <3> HIDE DEF b
    <3>2. ToSet(Records(b)) \subseteq Lasting(b)
      BY <3>1, LastingRecords DEF b, Clean
    <3>3. QED
      BY <3>1, <3>2 DEF b
  <2>3. QED
    BY <1>11, <2>1, <2>2 DEF Swap, Return, LocalInv, Swapping
<1>12. CASE ReopenFails
  BY <1>12 DEF ReopenFails, LocalInv
<1>13. CASE Clear
  BY <1>3, <1>13 DEF Clear, LocalInv, Swapping
<1>14. CASE Close \/ Crash \/ PowerCut
  BY <1>14 DEF Close, Crash, PowerCut, Stop, LocalInv
<1>15. CASE Open
  <2>1. Tidy(file)
    BY <1>1 DEF TypeInv
  <2> DEFINE r == Repaired(file)
  <2>2. /\ r \in Seq(Lines) /\ Records(r) = Records(file)
        /\ \A i \in DOMAIN r : r[i].state \in {"whole", "junk"}
    BY <1>2, <2>1, RepairedLines
  <2> HIDE DEF r
  <2>3. ToSet(Records(file)) \subseteq Lasting(r)
    BY <2>2, LastingRecords
  <2>4. ToSet(Replay(file)) \subseteq Lasting(r)
    BY <1>2, <2>3, ReplaySet
  <2>5. file' = r /\ evs' = Replay(file) /\ pc' = "free"
    BY <1>1, <1>15 DEF Open, TypeInv, Control, r
  <2>6. QED
    BY <2>4, <2>5 DEF LocalInv, Swapping
<1>16. CASE UNCHANGED vars
  BY <1>1, <1>16 DEF vars, LocalInv, Swapping
<1>17. QED
  BY <1>1, <1>4, <1>5, <1>6, <1>7, <1>8, <1>9, <1>10, <1>11, <1>12, <1>13, <1>14, <1>15, <1>16,
     DiscardTypes DEF Next

LEMMA LocalInit ==
    Init => LocalInv
BY DEF Init, LocalInv, Swapping, ToSet

\* A damaged line costs the one record on it: whatever calls fail and whatever
\* crashes, what the process serves is on a whole line, which a restart reads
\* again, or was written onto the fragment of a short write (Store.Ingest,
\* OpenCapped).
THEOREM DamageStaysLocal == Spec => []DamageIsLocal
<1>1. TypeInv /\ LocalInv => DamageIsLocal
  <2>1. SUFFICES ASSUME TypeInv, LocalInv, w = "open", up, pc = "free"
                 PROVE  ToSet(evs) \subseteq OnJunkLines \cup
                            ToSet(IF OverCap(Len(Records(file))) THEN Records(file) ELSE Replay(file))
    BY DEF DamageIsLocal
  <2>2. file \in Seq(Lines)
    BY <2>1 DEF TypeInv
  <2>3. ToSet(evs) \subseteq Lasting(file)
    BY <2>1 DEF LocalInv, Swapping
  <2>4. Lasting(file) \subseteq OnJunkLines \cup ToSet(Records(file))
    BY <2>2, RecordsSet DEF Lasting, OnJunkLines, Parses
  <2>5. ~OverCap(Len(Records(file))) => Replay(file) = Records(file)
    BY <2>2, ReplaySet
  <2>6. QED
    BY <2>3, <2>4, <2>5
<1>2. Spec => []LocalInv
  <2>1. TypeInv /\ LocalInv /\ [Next]_vars => LocalInv'
    BY TypeInductive, LocalInductive
  <2>2. QED
    BY <2>1, LocalInit, TypeInvariant, PTL DEF Spec
<1>3. QED
  BY <1>1, <1>2, TypeInvariant, PTL

-----------------------------------------------------------------------------
\* As long as no call fails, what was acknowledged is served.

\* A replay serves what it is to serve of the records of the log.
LEMMA ReplayServes ==
    ASSUME NEW t \in Seq(Events), NEW A \in SUBSET ToSet(t)
    PROVE  A \ BeyondCap(t) \subseteq ToSet(Indexed(t))
<1> DEFINE s == Indexed(t)
<1>1. /\ s \in Seq(Events) /\ EndsWith(t, s)
      /\ Len(s) < MaxEvents \/ MaxEvents = 0 => s = t
      /\ ~OverCap(Len(t)) => s = t
  BY IndexedType, IndexedEnds
<1> HIDE DEF s
<1>2. PICK p \in Seq(Events) : t = p \o s
  BY <1>1 DEF EndsWith
<1>3. /\ MaxEvents \in Nat /\ Slack \in Nat /\ Len(t) \in Nat /\ Len(p) \in Nat /\ Len(s) \in Nat
      /\ Len(t) = Len(p) + Len(s) /\ DOMAIN t = 1 .. Len(t) /\ DOMAIN s = 1 .. Len(s)
      /\ \A i \in 1 .. Len(s) : t[Len(p) + i] = s[i]
  <2>1. MaxEvents \in Nat /\ Slack \in Nat
    BY Bounds
  <2>2. QED
    BY <1>1, <1>2, <2>1
<1>4. CASE s = t
  BY <1>4 DEF s
<1>5. CASE s # t
  <2>1. Len(s) >= MaxEvents /\ MaxEvents > 0 /\ Len(t) > MaxEvents
    BY <1>1, <1>3, <1>5 DEF OverCap
  <2> DEFINE k == Len(t) - MaxEvents
  <2>2. k \in 0 .. Len(t) /\ k >= Len(p)
    BY <1>3, <2>1
  <2>3. BeyondCap(t) = ToSet(SubSeq(t, 1, k))
    BY <1>3, <2>1 DEF BeyondCap
  <2> HIDE DEF k
  <2>4. DOMAIN SubSeq(t, 1, k) = 1 .. k /\ \A i \in 1 .. k : SubSeq(t, 1, k)[i] = t[i]
    BY <2>2
  <2>5. ASSUME NEW i \in 1 .. Len(t), t[i] \notin BeyondCap(t) PROVE t[i] \in ToSet(s)
    <3>1. ~(i <= k)
      <4>1. SUFFICES ASSUME i <= k PROVE FALSE
        OBVIOUS
      <4>2. i \in 1 .. k
        BY <2>2, <4>1
      <4>3. QED
        BY <2>3, <2>4, <2>5, <4>2 DEF ToSet
    <3> DEFINE j == i - Len(p)
    <3>2. j \in 1 .. Len(s) /\ i = Len(p) + j
      BY <1>3, <2>2, <3>1
    <3> HIDE DEF j
    <3>3. t[i] = s[j]
      BY <1>3, <3>2
    <3>4. QED
      BY <1>3, <3>2, <3>3 DEF ToSet
  <2>6. QED
    BY <1>3, <2>5 DEF ToSet, s
<1>6. QED
  BY <1>4, <1>5

LEMMA EmptyFile ==
    /\ <<>> \in Seq(Lines) /\ <<>> \in Seq(Events) /\ Len(<<>>) = 0
    /\ Clean(<<>>) /\ Records(<<>>) = <<>> /\ ToSet(<<>>) = {}
    /\ EndsWith(<<>>, <<>>) /\ ~OverCap(0)
<1>1. <<>> \in Seq(Lines) /\ <<>> \in Seq(Events) /\ Len(<<>>) = 0
  OBVIOUS
<1>2. Records(<<>>) = <<>> /\ ToSet(<<>>) = {} /\ EndsWith(<<>>, <<>>)
  BY <1>1, RecordsType, SetOfSeq, EndsWithSelf
<1>3. Clean(<<>>)
  BY DEF Clean
<1>4. ~OverCap(0)
  BY Bounds DEF OverCap
<1>5. QED
  BY <1>1, <1>2, <1>3, <1>4

LEMMA ServedInit ==
    Init => ServedInv
<1>1. SUFFICES ASSUME Init PROVE Serving
  BY DEF ServedInv
<1> DEFINE e == <<>>
<1>2. /\ Clean(e) /\ Records(e) = e /\ EndsWith(e, e) /\ ToSet(e) = {}
      /\ ~OverCap(Len(e))
  BY EmptyFile
<1>3. file = e /\ evs = e /\ acked = {} /\ up /\ w = "open" /\ pc = "free"
  BY <1>1 DEF Init
<1> HIDE DEF e
<1>4. QED
  BY <1>2, <1>3 DEF Serving, Swapping, Held

LEMMA ServedIngest ==
    ASSUME TypeInv, Serving, NEW batch \in Batches, Ingest(batch)
    PROVE  Serving'
<1>1. batch \in Seq(Events)
  BY Bounds
<1>2. /\ NotSeen(batch) \in Seq(Events)
      /\ ToSet(NotSeen(batch)) = ToSet(batch) \ ToSet(evs)
  BY <1>1, NotSeenType, NotSeenOnce
<1>3. NotSeen(batch) = <<>> => ToSet(batch) \subseteq ToSet(evs)
  <2>1. ToSet(<<>>) = {}
    BY EmptyFile
  <2>2. QED
    BY <1>2, <2>1
<1>4. /\ up /\ pc = "free" /\ pc' \in {"free", "write"} /\ acked' \in {acked, acked \cup ToSet(batch)}
      /\ acked' # acked => ToSet(batch) \subseteq ToSet(evs)
      /\ UNCHANGED <<file, up, evs, w>>
  BY <1>3 DEF Ingest
<1>5. QED
  BY <1>4 DEF Serving, Swapping, Held

LEMMA ServedWrites ==
    ASSUME TypeInv, Serving, Write \/ Sync
    PROVE  Serving'
<1>1. /\ file \in Seq(Lines) /\ evs \in Seq(Events) /\ buf \in Seq(Events)
      /\ Records(file) \in Seq(Events) /\ MaxEvents \in Nat /\ Slack \in Nat
  BY RecordsType, Bounds DEF TypeInv
<1>2. CASE Write
  <2>1. /\ pc = "write" /\ pc' = "sync" /\ file' = Appended(file, Whole(buf))
        /\ UNCHANGED <<up, evs, w, buf, acked>> /\ up
    BY <1>2 DEF Write, TypeInv, Control
  <2>2. /\ Clean(file') /\ Records(file') = Records(file) \o buf
    BY <1>1, <2>1, CleanConcat DEF Serving
  <2>3. EndsWith(Records(file), evs)
    BY <2>1 DEF Serving, Swapping, Held
  <2>4. EndsWith(Records(file'), evs \o buf)
    BY <1>1, <2>2, <2>3, EndsWithConcat
  <2>5. Len(evs) < MaxEvents \/ MaxEvents = 0 => Records(file') = evs \o buf
    BY <2>1, <2>2 DEF Serving, Swapping, Held
  <2>6. Held' = evs \o buf
    BY <2>1 DEF Held
  <2>7. QED
    BY <2>1, <2>2, <2>4, <2>5, <2>6 DEF Serving, Swapping
<1>3. CASE Sync
  <2> DEFINE all == evs \o buf
  <2>1. /\ all \in Seq(Events) /\ Len(all) = Len(evs) + Len(buf) /\ Len(evs) \in Nat /\ Len(buf) \in Nat
        /\ ToSet(all) = ToSet(evs) \cup ToSet(buf)
    BY <1>1, SetOfConcat
  <2>2. /\ up /\ pc = "sync" /\ Held = all /\ ~Swapping
    BY <1>3 DEF Sync, TypeInv, Control, Held, Swapping
  <2> HIDE DEF all
  <2>3. /\ evs' = all /\ acked' = acked \cup ToSet(buf) /\ UNCHANGED <<file, up, w>>
        /\ IF OverCap(Len(all)) THEN pc' = "compactCap" ELSE pc' = "free"
    BY <1>3 DEF Sync, Return, all
  <2>4. Held' = all
    BY <2>3 DEF Held
  <2>5. EndsWith(Records(file), all) /\ acked \subseteq ToSet(evs)
    BY <2>2 DEF Serving
  <2>6. Len(all) < MaxEvents \/ MaxEvents = 0 => Records(file) = all
    BY <1>1, <2>1, <2>2 DEF Serving
  <2>7. QED
    BY <2>1, <2>2, <2>3, <2>4, <2>5, <2>6 DEF Serving, Swapping
<1>4. QED
  BY <1>2, <1>3

LEMMA ServedDiscard ==
    ASSUME TypeInv, Serving, NEW events \in SUBSET Events, Discard(events)
    PROVE  Serving'
<1>1. /\ up /\ pc = "free" /\ pc' \in {"free", "compact"}
      /\ UNCHANGED <<file, up, evs, w, acked>>
  BY DEF Discard
<1>2. QED
  BY <1>1 DEF Serving, Swapping, Held

\* A compaction for the cap keeps what it does not drop; so does one that removes events.
LEMMA CompactionKeeps ==
    ASSUME TypeInv, Compacting, acked \subseteq ToSet(evs)
    PROVE  acked \ Dropped \subseteq ToSet(buf)
<1>1. CASE pc = "compact"
  <2>1. evs \in Seq(Events) /\ buf = Without(evs, target)
    BY <1>1 DEF TypeInv, Control
  <2>2. ToSet(buf) = ToSet(evs) \ target
    BY <2>1, WithoutKeeps
  <2>3. QED
    BY <1>1, <2>2 DEF Dropped
<1>2. CASE pc = "compactCap"
  BY <1>2 DEF Dropped
<1>3. QED
  BY <1>1, <1>2 DEF Compacting

LEMMA ServedCompaction ==
    ASSUME TypeInv, Serving, Rename \/ Swap \/ Clear, ~failed'
    PROVE  Serving'
<1>1. /\ file \in Seq(Lines) /\ evs \in Seq(Events) /\ buf \in Seq(Events)
      /\ MaxEvents \in Nat /\ Slack \in Nat
  BY Bounds DEF TypeInv
<1>2. CASE Rename
  <2>1. /\ up /\ ~Swapping /\ Compacting /\ w = "open" /\ file' = Whole(buf)
        /\ acked' = acked \ Dropped /\ UNCHANGED <<up, evs, w, buf>>
        /\ Swapping' /\ (pc' # "swapCap" => pc # "compactCap")
    BY <1>2 DEF Rename, Compacting, Swapping, TypeInv, Control
  <2>2. acked' \subseteq ToSet(buf)
    BY <2>1, CompactionKeeps DEF Serving
  <2>3. Clean(Whole(buf))
    BY <1>1, WholeIsClean
  <2>4. pc' # "swapCap" => ~OverCap(Len(evs))
    BY <2>1 DEF Serving, Compacting
  <2>5. QED
    BY <2>1, <2>2, <2>3, <2>4 DEF Serving
<1>3. CASE Swap
  <2>1. /\ up /\ Swapping /\ w = "open" /\ pc' = "free" /\ evs' = buf
        /\ UNCHANGED <<file, up, w, acked>>
    BY <1>3 DEF Swap, Return, Swapping, TypeInv, Control
  <2>2. file = Whole(buf) /\ acked \subseteq ToSet(buf) /\ Clean(file)
    BY <2>1 DEF Serving
  <2>3. Records(file) = buf /\ EndsWith(buf, buf)
    BY <1>1, <2>2, RecordsWhole, EndsWithSelf
  <2>4. ~OverCap(Len(buf))
    <3>1. CASE pc = "swap"
      <4>1. ~OverCap(Len(evs)) /\ buf = Without(evs, target)
        BY <3>1 DEF Serving, TypeInv, Control
      <4>2. Len(buf) <= Len(evs) /\ Len(buf) \in Nat /\ Len(evs) \in Nat
        BY <1>1, <4>1, WithoutKeeps
      <4>3. QED
        BY <1>1, <4>1, <4>2 DEF OverCap
    <3>2. CASE pc = "swapCap"
      <4>1. OverCap(Len(evs)) /\ buf = Newest(evs)
        BY <3>2 DEF TypeInv, Control
      <4>2. Len(evs) >= MaxEvents
        BY <1>1, <4>1 DEF OverCap
      <4>3. Len(buf) = MaxEvents
        BY <1>1, <4>1, <4>2, NewestEnds
      <4>4. QED
        BY <1>1, <4>3 DEF OverCap
    <3>3. QED
      BY <2>1, <3>1, <3>2 DEF Swapping
  <2>5. QED
    BY <2>1, <2>2, <2>3, <2>4 DEF Serving, Swapping, Held
<1>4. CASE Clear
  <2> DEFINE e == <<>>
  <2>1. /\ Clean(e) /\ Records(e) = e /\ EndsWith(e, e) /\ ToSet(e) = {}
        /\ ~OverCap(Len(e))
    BY EmptyFile
  <2>2. file' = e /\ evs' = e /\ acked' = {} /\ up' /\ w' = "open" /\ pc' = "free"
    BY <1>4 DEF Clear
  <2> HIDE DEF e
  <2>3. QED
    BY <2>1, <2>2 DEF Serving, Swapping, Held
<1>5. QED
  BY <1>2, <1>3, <1>4

\* What is acknowledged is in the log at every point of a call.
LEMMA ServedInLog ==
    ASSUME TypeInv, Serving
    PROVE  acked \subseteq ToSet(Records(file))
<1>1. file \in Seq(Lines) /\ evs \in Seq(Events) /\ buf \in Seq(Events) /\ Records(file) \in Seq(Events)
  BY RecordsType DEF TypeInv
<1>2. CASE ~up
  BY <1>2 DEF Serving
<1>3. CASE Swapping
  BY <1>1, <1>3, RecordsWhole DEF Serving
<1>4. CASE up /\ ~Swapping
  <2>1. Held \in Seq(Events) /\ ToSet(evs) \subseteq ToSet(Held)
    BY <1>1, SetOfConcat DEF Held
  <2>2. EndsWith(Records(file), Held) /\ acked \subseteq ToSet(evs)
    BY <1>4 DEF Serving
  <2>3. ToSet(Held) \subseteq ToSet(Records(file))
    BY <1>1, <2>1, <2>2, EndsWithIsSuffix
  <2>4. QED
    BY <2>1, <2>2, <2>3
<1>5. QED
  BY <1>2, <1>3, <1>4

LEMMA ServedRestarts ==
    ASSUME TypeInv, Serving, "power" \notin Crashes, Close \/ Crash \/ PowerCut \/ Open, ~failed'
    PROVE  Serving'
<1>1. ~PowerCut
  BY DEF PowerCut
<1>2. CASE Close \/ Crash
  <2>1. /\ file' = file /\ ~up' /\ evs' = <<>> /\ pc' = "free" /\ acked' = acked
    BY <1>2 DEF Close, Crash, Stop, Return
  <2>2. acked \subseteq ToSet(Records(file))
    BY ServedInLog
  <2>3. ~OverCap(Len(evs'))
    BY <2>1, EmptyFile
  <2>4. QED
    BY <2>1, <2>2, <2>3 DEF Serving, Swapping
<1>3. CASE Open
  <2>1. file \in Seq(Lines) /\ Tidy(file) /\ Clean(file) /\ pc = "free" /\ ~up
    BY <1>3 DEF Open, TypeInv, Serving, Control
  <2> DEFINE t == Records(file) s == Indexed(t)
  <2>2. t \in Seq(Events) /\ acked \subseteq ToSet(t)
    BY <2>1, RecordsType DEF Serving
  <2>3. /\ file' = file /\ evs' = s /\ acked' = acked \ BeyondCap(t) /\ up' /\ w' = "open" /\ pc' = "free"
    BY <1>3, <2>1, RepairedLines DEF Open, Replay
  <2> HIDE DEF t
  <2>4. acked \ BeyondCap(t) \subseteq ToSet(s)
    BY <2>2, ReplayServes
  <2>5. /\ EndsWith(t, s) /\ ~OverCap(Len(s))
        /\ Len(s) < MaxEvents \/ MaxEvents = 0 => s = t
    BY <2>2, IndexedEnds
  <2> HIDE DEF s
  <2>6. Records(file') = t /\ Held' = s
    BY <2>3 DEF t, Held
  <2>7. QED
    BY <2>1, <2>3, <2>4, <2>5, <2>6 DEF Serving, Swapping
<1>4. QED
  BY <1>1, <1>2, <1>3

LEMMA ServedInductive ==
    ASSUME "power" \notin Crashes
    PROVE  TypeInv /\ ServedInv /\ [Next]_vars => ServedInv'
<1>1. SUFFICES ASSUME TypeInv, ServedInv, [Next]_vars, ~failed' PROVE Serving'
  BY DEF ServedInv
<1>2. failed' = failed \/ failed' = TRUE
  BY <1>1 DEF Next, vars, Ingest, Write, WriteFails, Sync, SyncFails, Prune, DeleteUser, Discard,
              CompactFails, Rename, RenameFails, Swap, ReopenFails, Clear, Close, Crash, PowerCut, Open
<1>3. Serving
  BY <1>1, <1>2 DEF ServedInv
<1>4. CASE UNCHANGED vars
  BY <1>3, <1>4 DEF vars, Serving, Swapping, Held
<1>5. ASSUME NEW batch \in Batches, Ingest(batch) PROVE Serving'
  BY <1>1, <1>3, <1>5, ServedIngest
<1>6. ASSUME NEW events \in SUBSET Events, Discard(events) PROVE Serving'
  BY <1>1, <1>3, <1>6, ServedDiscard
<1>7. ~(WriteFails \/ SyncFails \/ CompactFails \/ RenameFails \/ ReopenFails)
  BY <1>1 DEF WriteFails, SyncFails, CompactFails, RenameFails, ReopenFails
<1>8. CASE Write \/ Sync
  BY <1>1, <1>3, <1>8, ServedWrites
<1>9. CASE Rename \/ Swap \/ Clear
  BY <1>1, <1>3, <1>9, ServedCompaction
<1>10. CASE Close \/ Crash \/ PowerCut \/ Open
  BY <1>1, <1>3, <1>10, ServedRestarts
<1>11. QED
  BY <1>1, <1>4, <1>5, <1>6, <1>7, <1>8, <1>9, <1>10, DiscardTypes DEF Next

\* As long as no call fails and the machine keeps its power, what was
\* acknowledged is served while the process lives and after a restart, and what
\* is served is the newest of the log, within the cap (Ingest,
\* enforceCapLocked, trimDuringReplay).
THEOREM AcknowledgedIsServed ==
    ASSUME "power" \notin Crashes
    PROVE  Spec => []AckServed
<1>1. TypeInv /\ ServedInv => AckServed
  <2>1. SUFFICES ASSUME TypeInv, ServedInv, ~failed
                 PROVE  /\ up /\ pc = "free" => acked \subseteq ToSet(evs) /\ HoldsNewest
                        /\ acked \subseteq ToSet(Records(file))
    BY DEF AckServed
  <2>2. Serving
    BY <2>1 DEF ServedInv
  <2>3. acked \subseteq ToSet(Records(file))
    BY <2>1, <2>2, ServedInLog
  <2>4. ASSUME up, pc = "free" PROVE acked \subseteq ToSet(evs) /\ HoldsNewest
    <3>1. /\ acked \subseteq ToSet(evs) /\ EndsWith(Records(file), evs)
          /\ ~OverCap(Len(evs))
          /\ Len(evs) < MaxEvents \/ MaxEvents = 0 => Records(file) = evs
      BY <2>2, <2>4 DEF Serving, Swapping, Held
    <3>2. evs \in Seq(Events) /\ Records(file) \in Seq(Events)
      BY <2>1, RecordsType DEF TypeInv
    <3>3. IsSuffix(evs, Records(file))
      BY <3>1, <3>2, EndsWithIsSuffix
    <3>4. QED
      BY <3>1, <3>3 DEF HoldsNewest
  <2>5. QED
    BY <2>3, <2>4
<1>2. TypeInv /\ ServedInv /\ [Next]_vars => ServedInv'
  BY ServedInductive
<1>3. QED
  BY <1>1, <1>2, ServedInit, TypeInvariant, PTL DEF Spec

-----------------------------------------------------------------------------
\* Where no write fails, an unterminated line is the last one, and nothing is written onto it.

LEMMA CleanIsCuttable ==
    ASSUME NEW f \in Seq(Lines), Clean(f)
    PROVE  /\ Cuttable(f)
           /\ \A l \in Lines : l.state \in {"torn", "bare"} => Cuttable(Append(f, l))
<1>1. Cuttable(f)
  BY DEF Clean, Cuttable
<1>2. ASSUME NEW l \in Lines, l.state \in {"torn", "bare"} PROVE Cuttable(Append(f, l))
  <2> DEFINE r == Append(f, l) n == Len(f)
  <2>1. /\ DOMAIN f = 1 .. n /\ DOMAIN r = 1 .. n + 1 /\ n \in Nat /\ r[n + 1] = l
        /\ \A i \in 1 .. n : r[i] = f[i]
    BY AppendElements
  <2>2. Len(r) = n + 1
    OBVIOUS
  <2> HIDE DEF r, n
  <2>3. \A i \in 1 .. n + 1 : i \in 1 .. n \/ i = n + 1
    BY <2>1
  <2>4. \A i \in 1 .. n : f[i].state = "whole"
    BY <2>1 DEF Clean
  <2>5. QED
    BY <1>2, <2>1, <2>2, <2>3, <2>4 DEF Cuttable, r
<1>3. QED
  BY <1>1, <1>2

\* A short write behind a log of whole lines.
LEMMA ShortWriteLines ==
    ASSUME TypeInv, Clean(file), ShortWrite
    PROVE  \E p \in Seq(Events) :
               /\ \E n \in 0 .. Len(buf) - 1 : p = SubSeq(buf, 1, n)
               /\ \/ file' = file \o Whole(p)
                  \/ \E s \in {"torn", "bare"} :
                         /\ Len(p) + 1 \in 1 .. Len(buf)
                         /\ Line(s, buf[Len(p) + 1]) \in Lines
                         /\ file' = Append(file \o Whole(p), Line(s, buf[Len(p) + 1]))
<1>1. PICK n \in 0 .. Len(buf) - 1, s \in {"none", "torn", "bare"} :
          file' = Appended(file, Cut(buf, n, s))
  BY DEF ShortWrite
<1>2. buf \in Seq(Events) /\ file \in Seq(Lines) /\ Len(buf) \in Nat
  BY DEF TypeInv
<1> DEFINE p == SubSeq(buf, 1, n) c == Cut(buf, n, s)
<1>3. p \in Seq(Events) /\ Len(p) = n /\ n + 1 \in 1 .. Len(buf) /\ buf[n + 1] \in Events
  BY <1>2
<1>4. c \in Seq(Lines) /\ (c = Whole(p) \/ (s \in {"torn", "bare"} /\ c = Append(Whole(p), Line(s, buf[n + 1]))))
  BY <1>2, CutLines
<1> HIDE DEF c
<1>5. file' = file \o c
  BY <1>1, <1>2, <1>4, AppendedLines DEF c
<1>6. CASE c = Whole(p)
  BY <1>3, <1>5, <1>6
<1>7. CASE s \in {"torn", "bare"} /\ c = Append(Whole(p), Line(s, buf[n + 1]))
  <2> DEFINE l == Line(s, buf[n + 1]) h == Whole(p)
  <2>1. l \in Lines
    BY <1>3, <1>7 DEF Line, Lines
  <2>2. h \in Seq(Lines)
    BY <1>3, WholeType
  <2> HIDE DEF l, h
  <2>3. file \o Append(h, l) = Append(file \o h, l)
    BY <1>2, <2>1, <2>2
  <2>4. file' = Append(file \o h, l)
    BY <1>5, <1>7, <2>3 DEF h, l
  <2> HIDE DEF p
  <2>5. QED
    BY <1>3, <1>7, <2>1, <2>4 DEF h, l, p
<1>8. QED
  BY <1>4, <1>6, <1>7

LEMMA LinesInductive ==
    ASSUME "write" \notin Faults
    PROVE  TypeInv /\ LinesInv /\ [Next]_vars => LinesInv'
<1>1. SUFFICES ASSUME TypeInv, LinesInv, [Next]_vars PROVE LinesInv'
  OBVIOUS
<1>2. file \in Seq(Lines) /\ stable \in Seq(Lines) /\ buf \in Seq(Events) /\ Tidy(file)
  BY <1>1 DEF TypeInv
<1>3. CASE UNCHANGED <<file, stable, up>>
  BY <1>1, <1>3 DEF LinesInv
<1>4. CASE Write
  <2>1. Clean(file) /\ file' = Appended(file, Whole(buf)) /\ up' = up /\ stable' = stable
    BY <1>1, <1>4 DEF Write, LinesInv, TypeInv, Control
  <2>2. Clean(file') /\ file' \in Seq(Lines)
    BY <1>2, <2>1, CleanConcat
  <2>3. QED
    BY <1>1, <2>1, <2>2, CleanIsCuttable DEF LinesInv
<1>5. ~WriteFails
  BY DEF WriteFails
<1>6. CASE Sync \/ Swap \/ ReopenFails \/ Close
  <2>1. /\ file' = file /\ stable' \in {file, stable} /\ (up' => up)
    BY <1>6 DEF Sync, Swap, ReopenFails, Close, Stop
  <2>2. QED
    BY <1>1, <2>1 DEF LinesInv
<1>7. CASE Rename
  <2>1. Clean(Whole(buf)) /\ Whole(buf) \in Seq(Lines)
    BY <1>2, WholeIsClean, WholeType
  <2>2. file' = Whole(buf) /\ stable' = stable
    BY <1>7 DEF Rename
  <2>3. QED
    BY <1>1, <2>1, <2>2, CleanIsCuttable DEF LinesInv
<1>8. CASE Clear
  <2>1. file' \in {<<>>, file} /\ stable' = stable /\ up' = up
    BY <1>8 DEF Clear
  <2>2. Clean(<<>>) /\ Cuttable(<<>>)
    BY EmptyFile, CleanIsCuttable
  <2>3. QED
    BY <1>1, <2>1, <2>2 DEF LinesInv
<1>9. CASE Crash
  <2>1. ~up' /\ stable' = stable
    BY <1>9 DEF Crash, Stop
  <2>2. CASE file' = file
    BY <1>1, <2>1, <2>2 DEF LinesInv
  <2>3. CASE pc = "write" /\ ShortWrite
    <3>1. Clean(file)
      BY <1>1, <2>3 DEF LinesInv, TypeInv, Control
    <3>2. PICK p \in Seq(Events) :
              \/ file' = file \o Whole(p)
              \/ \E s \in {"torn", "bare"} :
                     /\ Line(s, buf[Len(p) + 1]) \in Lines
                     /\ file' = Append(file \o Whole(p), Line(s, buf[Len(p) + 1]))
      BY <1>1, <2>3, <3>1, ShortWriteLines
    <3> DEFINE h == file \o Whole(p)
    <3>3. h \in Seq(Lines) /\ Clean(h)
      BY <1>2, <3>1, CleanConcat
    <3> HIDE DEF h
    <3>4. CASE file' = h
      BY <1>1, <2>1, <3>3, <3>4, CleanIsCuttable DEF LinesInv
    <3>5. ASSUME NEW s \in {"torn", "bare"}, Line(s, buf[Len(p) + 1]) \in Lines,
                 file' = Append(h, Line(s, buf[Len(p) + 1]))
          PROVE  LinesInv'
      <4> DEFINE l == Line(s, buf[Len(p) + 1])
      <4>1. l \in Lines /\ l.state \in {"torn", "bare"}
        BY <3>5 DEF Line
      <4> HIDE DEF l
      <4>2. Cuttable(Append(h, l))
        BY <3>3, <4>1, CleanIsCuttable
      <4>3. QED
        BY <1>1, <2>1, <3>5, <4>2 DEF LinesInv, l
    <3>6. QED
      BY <3>2, <3>4, <3>5 DEF h
  <2>4. QED
    BY <1>9, <2>2, <2>3 DEF Crash
<1>10. CASE PowerCut
  <2>1. ~up' /\ stable' = file' /\ file' \in AfterPowerCut
    BY <1>10 DEF PowerCut, Stop
  <2>2. ASSUME NEW n \in Nat, LeftOver(file', n) PROVE Cuttable(file')
    <3> DEFINE m == Len(file)
    <3>1. /\ file' \in Seq(Lines) /\ \A i \in 1 .. n : file'[i] = file[i]
      BY <1>2, <2>2, LeftOverLines
    <3>2. n \in 0 .. m /\ m \in Nat /\ DOMAIN file = 1 .. m
      BY <1>2, <2>2 DEF LeftOver
    <3>3. \A i \in 1 .. m : file[i].state = "whole" \/ (i = m /\ file[i].state # "junk")
      BY <1>1, <3>2 DEF LinesInv, Cuttable
    <3>4. CASE file' = SubSeq(file, 1, n)
      <4>1. Len(file') = n /\ DOMAIN file' = 1 .. n
        BY <1>2, <3>2, <3>4
      <4>2. \A i \in 1 .. n : i \in 1 .. m /\ (i = m => i = n)
        <5> HIDE DEF m
        <5>1. QED
          BY <3>2
      <4>3. QED
        BY <3>1, <3>3, <4>1, <4>2 DEF Cuttable
    <3>5. ASSUME NEW s \in {"torn", "bare"}, n < m,
                 file' = Append(SubSeq(file, 1, n), Line(s, file[n + 1].ev))
          PROVE  Cuttable(file')
      <4> DEFINE p == SubSeq(file, 1, n) l == Line(s, file[n + 1].ev)
      <4>1. p \in Seq(Lines) /\ Len(p) = n /\ \A i \in 1 .. n : p[i] = file[i]
        BY <1>2, <3>2
      <4>2. file[n + 1] \in Lines
        BY <1>2, <3>2, <3>5
      <4>3. l \in Lines /\ l.state \in {"torn", "bare"}
        BY <4>2 DEF Line, Lines
      <4>4. \A i \in 1 .. n : i \in 1 .. m /\ i # m
        <5> HIDE DEF m
        <5>1. QED
          BY <3>2, <3>5
      <4>5. DOMAIN p = 1 .. n
        BY <4>1
      <4> HIDE DEF p, l
      <4>6. Clean(p)
        BY <3>3, <4>1, <4>4, <4>5 DEF Clean
      <4>7. QED
        BY <3>5, <4>1, <4>3, <4>6, CleanIsCuttable DEF p, l
    <3>6. QED
      BY <2>2, <3>4, <3>5 DEF LeftOver
  <2>3. file' \in {stable, file} \/ \E n \in Nat : LeftOver(file', n)
    BY <1>2, <2>1, PowerCutLeaves
  <2>4. QED
    BY <1>1, <2>1, <2>2, <2>3 DEF LinesInv
<1>11. CASE Open
  <2> DEFINE r == Repaired(file)
  <2>1. r \in Seq(Lines) /\ Clean(r)
    BY <1>1, <1>2, RepairedLines DEF LinesInv
  <2>2. file' = r /\ stable' \in {r, stable}
    BY <1>11 DEF Open
  <2> HIDE DEF r
  <2>3. QED
    BY <1>1, <2>1, <2>2, CleanIsCuttable DEF LinesInv
<1>12. ASSUME NEW batch \in Batches, Ingest(batch) PROVE LinesInv'
  BY <1>3, <1>12 DEF Ingest
<1>13. ASSUME NEW events \in SUBSET Events, Discard(events) PROVE LinesInv'
  BY <1>3, <1>13 DEF Discard
<1>14. CASE SyncFails \/ CompactFails \/ RenameFails \/ UNCHANGED vars
  BY <1>3, <1>14 DEF SyncFails, CompactFails, RenameFails, vars
<1>15. QED
  BY <1>1, <1>4, <1>5, <1>6, <1>7, <1>8, <1>9, <1>10, <1>11, <1>12, <1>13, <1>14, DiscardTypes DEF Next

LEMMA LinesInvariant ==
    ASSUME "write" \notin Faults
    PROVE  Spec => []LinesInv
<1>1. Init => LinesInv
  BY EmptyFile, CleanIsCuttable DEF Init, LinesInv
<1>2. TypeInv /\ LinesInv /\ [Next]_vars => LinesInv'
  BY LinesInductive
<1>3. QED
  BY <1>1, <1>2, TypeInvariant, PTL DEF Spec

-----------------------------------------------------------------------------
\* What was acknowledged is on disk.

\* The records of a prefix are records of the whole; so are those of the settled lines
\* records of what a power cut leaves.
LEMMA RecordsOfPrefix ==
    ASSUME NEW f \in Seq(Lines), NEW g \in Seq(Lines), NEW k \in Nat, k <= Len(f), k <= Len(g),
           \A i \in 1 .. k : f[i] = g[i]
    PROVE  ToSet(Records(SubSeq(f, 1, k))) \subseteq ToSet(Records(g))
<1> DEFINE p == SubSeq(f, 1, k)
<1>1. p \in Seq(Lines) /\ DOMAIN p = 1 .. k /\ \A i \in 1 .. k : p[i] = f[i]
  OBVIOUS
<1>2. \A i \in 1 .. k : i \in DOMAIN g
  OBVIOUS
<1> HIDE DEF p
<1>3. /\ ToSet(Records(p)) = {p[i].ev : i \in {j \in DOMAIN p : Parses(p[j])}}
      /\ ToSet(Records(g)) = {g[i].ev : i \in {j \in DOMAIN g : Parses(g[j])}}
  BY <1>1, RecordsSet
<1>4. \A i \in DOMAIN p : i \in DOMAIN g /\ g[i] = p[i]
  BY <1>1, <1>2
<1>5. QED
  BY <1>3, <1>4 DEF p

LEMMA SettledLines ==
    ASSUME file \in Seq(Lines), stable \in Seq(Lines), NEW k \in Nat, Settled(k), Within(k)
    PROVE  acked \cup ToSet(evs) \subseteq ToSet(Records(file)) \cap ToSet(Records(stable))
<1>1. k <= Len(file) /\ k <= Len(stable) /\ SubSeq(file, 1, k) = SubSeq(stable, 1, k)
  BY DEF Settled
<1>2. \A i \in 1 .. k : file[i] = stable[i]
  <2>1. \A i \in 1 .. k : SubSeq(file, 1, k)[i] = file[i] /\ SubSeq(stable, 1, k)[i] = stable[i]
    BY <1>1
  <2>2. QED
    BY <1>1, <2>1
<1>3. /\ ToSet(Records(SubSeq(file, 1, k))) \subseteq ToSet(Records(file))
      /\ ToSet(Records(SubSeq(file, 1, k))) \subseteq ToSet(Records(stable))
  BY <1>1, <1>2, RecordsOfPrefix
<1>4. QED
  BY <1>3 DEF Within

\* A log that is what was last synced is settled.
LEMMA AllSettled ==
    ASSUME NEW f \in Seq(Lines)
    PROVE  /\ Len(f) \in Nat /\ Len(f) \in 0 .. Len(f) /\ Len(f) <= Len(f) /\ SubSeq(f, 1, Len(f)) = f
OBVIOUS

LEMMA DurableInLog ==
    ASSUME TypeInv, DurableInv
    PROVE  /\ acked \subseteq ToSet(Records(file)) \cap ToSet(Records(stable))
           /\ ~Swapping => ToSet(evs) \subseteq ToSet(Records(file)) \cap ToSet(Records(stable))
<1>1. file \in Seq(Lines) /\ stable \in Seq(Lines) /\ buf \in Seq(Events) /\ Len(file) \in Nat
  BY DEF TypeInv
<1>2. CASE Swapping
  BY <1>1, <1>2, RecordsWhole DEF DurableInv, AckDurable
<1>3. CASE ~Swapping
  <2>1. \E k \in Nat : Settled(k) /\ Within(k)
    BY <1>1, <1>3 DEF TypeInv, DurableInv, Swapping, Compacting
  <2>2. QED
    BY <1>1, <1>3, <2>1, SettledLines
<1>4. QED
  BY <1>2, <1>3

LEMMA DurableInit ==
    Init => DurableInv
<1>1. SUFFICES ASSUME Init PROVE DurableInv
  OBVIOUS
<1> DEFINE e == <<>>
<1>2. /\ e \in Seq(Lines) /\ Len(e) = 0 /\ SubSeq(e, 1, 0) = e /\ Records(e) = e /\ ToSet(e) = {}
  BY EmptyFile
<1>3. file = e /\ stable = e /\ evs = e /\ acked = {} /\ up /\ pc = "free"
  BY <1>1 DEF Init
<1> HIDE DEF e
<1>4. QED
  BY <1>2, <1>3 DEF DurableInv, Settled, Within, AckDurable, Swapping, Compacting

LEMMA DurableIngest ==
    ASSUME TypeInv, DurableInv, NEW batch \in Batches, Ingest(batch)
    PROVE  DurableInv'
<1>1. batch \in Seq(Events)
  BY Bounds
<1>2. ToSet(NotSeen(batch)) = ToSet(batch) \ ToSet(evs)
  BY <1>1, NotSeenOnce
<1>3. NotSeen(batch) = <<>> => ToSet(batch) \subseteq ToSet(evs)
  <2>1. ToSet(<<>>) = {}
    BY EmptyFile
  <2>2. QED
    BY <1>2, <2>1
<1>4. /\ up /\ pc = "free" /\ pc' \in {"free", "write"} /\ acked' \in {acked, acked \cup ToSet(batch)}
      /\ acked' # acked => ToSet(batch) \subseteq ToSet(evs)
      /\ UNCHANGED <<file, stable, up, evs>>
  BY <1>3 DEF Ingest
<1>5. acked' \subseteq ToSet(evs) /\ ToSet(evs) \subseteq ToSet(Records(stable))
  BY <1>4, DurableInLog DEF DurableInv, Swapping
<1>6. Settled(Len(file)) /\ ToSet(evs) \subseteq ToSet(Records(SubSeq(file, 1, Len(file))))
  BY <1>4 DEF DurableInv, Within
<1>7. QED
  BY <1>4, <1>5, <1>6 DEF DurableInv, Settled, Within, AckDurable, Swapping, Compacting

LEMMA DurableWrites ==
    ASSUME TypeInv, LinesInv, DurableInv, Write \/ Sync
    PROVE  DurableInv'
<1>1. file \in Seq(Lines) /\ stable \in Seq(Lines) /\ evs \in Seq(Events) /\ buf \in Seq(Events)
  BY DEF TypeInv
<1>2. CASE Write
  <2>1. /\ pc = "write" /\ pc' = "sync" /\ file' = Appended(file, Whole(buf)) /\ up
        /\ UNCHANGED <<stable, up, evs, w, buf, acked>> /\ Clean(file)
    BY <1>2 DEF Write, TypeInv, Control, LinesInv
  <2>0. PICK n \in Nat : n = Len(file)
    BY <1>1
  <2> DEFINE g == Whole(buf) r == file \o g
  <2>2. g \in Seq(Lines) /\ Records(g) = buf
    BY <1>1, WholeType, RecordsWhole
  <2> HIDE DEF g
  <2>3. file' = r
    BY <1>1, <2>1, CleanConcat DEF g
  <2>4. /\ r \in Seq(Lines) /\ n <= Len(r) /\ SubSeq(r, 1, n) = SubSeq(file, 1, n)
        /\ n \in 0 .. Len(r)
    <3>1. r \in Seq(Lines) /\ Len(g) \in Nat /\ Len(r) = n + Len(g) /\ \A i \in 1 .. n : r[i] = file[i]
      BY <1>1, <2>0, <2>2
    <3>2. n <= Len(r) /\ n \in 0 .. Len(r)
      <4> HIDE DEF r
      <4>1. QED
        BY <3>1
    <3>3. SubSeq(r, 1, n) = SubSeq(file, 1, n)
      <4> HIDE DEF r
      <4>1. /\ SubSeq(r, 1, n) = [i \in 1 .. n |-> r[i]]
            /\ SubSeq(file, 1, n) = [i \in 1 .. n |-> file[i]]
        BY <1>1, <2>0, <3>1, <3>2
      <4>2. QED
        BY <3>1, <4>1
    <3>4. QED
      BY <3>1, <3>2, <3>3
  <2>5. ToSet(buf) \subseteq ToSet(Records(r))
    <3>1. Records(r) = Records(file) \o buf /\ Records(file) \in Seq(Events)
      BY <1>1, <2>2, RecordsConcat, RecordsType
    <3>2. QED
      BY <1>1, <3>1, SetOfConcat
  <2> HIDE DEF r
  <2>6. Settled(n)' /\ Within(n)'
    <3>1. Settled(n) /\ Within(n)
      BY <2>0, <2>1 DEF DurableInv
    <3>2. QED
      BY <2>1, <2>3, <2>4, <3>1 DEF Settled, Within
  <2>7. QED
    BY <2>1, <2>3, <2>4, <2>5, <2>6 DEF DurableInv, AckDurable, Swapping, Compacting
<1>3. CASE Sync
  <2>1. /\ pc = "sync" /\ pc' \in {"free", "compactCap"} /\ stable' = file /\ evs' = evs \o buf
        /\ acked' = acked \cup ToSet(buf) /\ up /\ UNCHANGED <<file, up>>
    BY <1>3 DEF Sync, Return, TypeInv, Control
  <2>2. ToSet(evs') = ToSet(evs) \cup ToSet(buf)
    BY <1>1, <2>1, SetOfConcat
  <2>3. acked' \cup ToSet(evs') \subseteq ToSet(Records(file))
    BY <2>1, <2>2, DurableInLog DEF DurableInv, Swapping
  <2>4. acked' \subseteq ToSet(evs')
    BY <2>1, <2>2 DEF DurableInv, Swapping
  <2>5. Settled(Len(file))' /\ Within(Len(file))'
    BY <1>1, <2>1, <2>3, AllSettled DEF Settled, Within
  <2>6. QED
    BY <2>1, <2>3, <2>4, <2>5 DEF DurableInv, AckDurable, Swapping, Compacting
<1>4. QED
  BY <1>2, <1>3

LEMMA DurableQuiet ==
    ASSUME TypeInv, DurableInv,
           CompactFails \/ RenameFails \/ (\E events \in SUBSET Events : Discard(events))
    PROVE  DurableInv'
<1>1. /\ pc = "free" \/ Compacting
      /\ pc' = "free" \/ Compacting'
      /\ up /\ UNCHANGED <<file, stable, up, evs, acked>>
  BY DEF CompactFails, RenameFails, Discard, Compacting, Return, TypeInv, Control
<1>2. Settled(Len(file))' /\ Within(Len(file))'
  BY <1>1 DEF DurableInv, Settled, Within
<1>3. QED
  BY <1>1, <1>2 DEF DurableInv, AckDurable, Swapping, Compacting

LEMMA DurableCompaction ==
    ASSUME "dirSync" \notin Faults, TypeInv, DurableInv, Rename \/ Swap \/ Clear
    PROVE  DurableInv'
<1>1. file \in Seq(Lines) /\ buf \in Seq(Events)
  BY DEF TypeInv
<1>2. CASE Rename
  <2>1. /\ up /\ ~Swapping /\ Compacting /\ Swapping' /\ file' = Whole(buf)
        /\ acked' = acked \ Dropped /\ UNCHANGED <<stable, buf>>
    BY <1>2 DEF Rename, Compacting, Swapping, TypeInv, Control
  <2>2. acked' \subseteq ToSet(buf)
    BY <2>1, CompactionKeeps DEF DurableInv
  <2>3. QED
    BY <2>1, <2>2 DEF DurableInv, AckDurable, Swapping, Compacting
<1>3. CASE Swap
  <2>1. /\ Swapping /\ pc' = "free" /\ evs' = buf /\ stable' = file /\ UNCHANGED <<file, up, acked>>
    BY <1>3 DEF Swap, Return, Swapping
  <2>2. acked \subseteq ToSet(buf) /\ ToSet(buf) = ToSet(Records(file))
    BY <1>1, <2>1, RecordsWhole DEF DurableInv
  <2>3. Settled(Len(file))' /\ Within(Len(file))'
    BY <1>1, <2>1, <2>2, AllSettled DEF Settled, Within
  <2>4. QED
    BY <2>1, <2>2, <2>3 DEF DurableInv, AckDurable, Swapping, Compacting
<1>4. CASE Clear
  <2>1. /\ pc = "free" /\ pc' = "free" /\ evs' = <<>> /\ acked' = {} /\ stable' = stable
        /\ file' \in {<<>>, file}
    BY <1>4 DEF Clear
  <2>2. ToSet(<<>>) = {} /\ Len(<<>>) = 0 /\ SubSeq(<<>>, 1, 0) = <<>>
    BY EmptyFile
  <2>3. Settled(Len(file))'
    <3>1. CASE file' = file
      BY <2>1, <3>1 DEF DurableInv, Settled
    <3>2. CASE file' = <<>>
      <4>1. stable \in Seq(Lines) /\ Len(stable) \in Nat /\ SubSeq(stable, 1, 0) = <<>>
        BY DEF TypeInv
      <4> DEFINE e == <<>>
      <4>2. Len(e) = 0 /\ SubSeq(e, 1, 0) = e /\ SubSeq(stable, 1, 0) = e /\ file' = e
        BY <2>2, <3>2, <4>1
      <4> HIDE DEF e
      <4>3. QED
        BY <2>1, <4>1, <4>2 DEF Settled
    <3>3. QED
      BY <2>1, <3>1, <3>2
  <2>4. Within(Len(file))'
    BY <2>1, <2>2 DEF Within
  <2>5. QED
    BY <2>1, <2>2, <2>3, <2>4 DEF DurableInv, AckDurable, Swapping, Compacting
<1>5. QED
  BY <1>2, <1>3, <1>4

\* What a power cut leaves holds what was acknowledged.
LEMMA DurablePowerCut ==
    ASSUME TypeInv, DurableInv, PowerCut
    PROVE  acked \subseteq ToSet(Records(file'))
<1>1. file \in Seq(Lines) /\ stable \in Seq(Lines) /\ Len(file) \in Nat /\ file' \in AfterPowerCut
  BY DEF TypeInv, PowerCut
<1>2. CASE file' \in {stable, file}
  BY <1>2, DurableInLog
<1>3. ASSUME NEW n \in Nat, LeftOver(file', n) PROVE acked \subseteq ToSet(Records(file'))
  <2>1. ~Swapping /\ \A k \in Nat : Settled(k) => k <= n
    BY <1>3 DEF LeftOver
  <2>2. PICK k \in Nat : Settled(k) /\ Within(k)
    BY <1>1, <2>1 DEF TypeInv, DurableInv, Swapping, Compacting
  <2>3. /\ file' \in Seq(Lines) /\ n <= Len(file') /\ Len(file') \in Nat
        /\ \A i \in 1 .. n : file'[i] = file[i]
    BY <1>1, <1>3, LeftOverLines
  <2>4. k <= n /\ k <= Len(file)
    BY <2>1, <2>2 DEF Settled
  <2>5. k <= Len(file') /\ \A i \in 1 .. k : file[i] = file'[i]
    BY <2>3, <2>4
  <2>6. ToSet(Records(SubSeq(file, 1, k))) \subseteq ToSet(Records(file'))
    BY <1>1, <2>3, <2>4, <2>5, RecordsOfPrefix
  <2>7. QED
    BY <2>2, <2>6 DEF Within
<1>4. QED
  BY <1>1, <1>2, <1>3, PowerCutLeaves

LEMMA DurableRestarts ==
    ASSUME "process" \notin Crashes, TypeInv, TypeInv', LinesInv, DurableInv,
           Close \/ Crash \/ PowerCut \/ Open
    PROVE  DurableInv'
<1>1. file \in Seq(Lines) /\ stable \in Seq(Lines) /\ Tidy(file) /\ file' \in Seq(Lines)
  BY DEF TypeInv
<1>2. ToSet(<<>>) = {}
  BY EmptyFile
<1>3. CASE Close
  <2>1. /\ pc = "free" /\ pc' = "free" /\ ~up' /\ evs' = <<>> /\ stable' \in {file, stable}
        /\ UNCHANGED <<file, acked>>
    BY <1>3 DEF Close, Stop, Return
  <2>2. acked \subseteq ToSet(Records(file)) /\ acked \subseteq ToSet(Records(stable))
    BY DurableInLog
  <2>3. Settled(Len(file))'
    BY <1>1, <2>1, AllSettled DEF DurableInv, Settled
  <2>4. Within(Len(file))'
    BY <1>1, <1>2, <2>1, <2>2, AllSettled DEF Within
  <2>5. QED
    BY <2>1, <2>2, <2>3, <2>4 DEF DurableInv, AckDurable, Swapping, Compacting
<1>4. ~Crash
  BY DEF Crash
<1>5. CASE PowerCut
  <2>1. pc' = "free" /\ ~up' /\ evs' = <<>> /\ stable' = file' /\ UNCHANGED acked
    BY <1>5 DEF PowerCut, Stop, Return
  <2>2. acked \subseteq ToSet(Records(file'))
    BY <1>5, DurablePowerCut
  <2>3. Settled(Len(file))' /\ Within(Len(file))'
    BY <1>1, <1>2, <2>1, <2>2, AllSettled DEF Settled, Within
  <2>4. QED
    BY <2>1, <2>2, <2>3 DEF DurableInv, AckDurable, Swapping, Compacting
<1>6. CASE Open
  <2>1. /\ pc = "free" /\ pc' = "free" /\ up' /\ evs' = Replay(file) /\ file' = Repaired(file)
        /\ stable' = IF Ends(file, {"bare"}) THEN file' ELSE stable
        /\ acked' = acked \ BeyondCap(Records(file))
    BY <1>6 DEF Open, TypeInv, Control
  <2> DEFINE t == Records(file)
  <2>2. t \in Seq(Events) /\ acked \subseteq ToSet(t)
    BY <1>1, RecordsType, DurableInLog
  <2>3. acked' \subseteq ToSet(evs') /\ ToSet(evs') \subseteq ToSet(t)
    BY <1>1, <2>1, <2>2, ReplayServes, ReplaySet DEF Replay
  <2>4. Records(file') = t
    BY <1>1, <2>1, RepairedLines
  <2>5. Within(Len(file))'
    <3>1. SubSeq(file', 1, Len(file')) = file'
      BY <1>1, AllSettled
    <3>2. acked' \cup ToSet(evs') \subseteq ToSet(Records(SubSeq(file', 1, Len(file'))))
      BY <2>3, <2>4, <3>1
    <3>3. QED
      BY <3>2 DEF Within
  <2>6. Settled(Len(file))'
    <3>1. CASE Ends(file, {"bare"})
      BY <1>1, <2>1, <3>1, AllSettled DEF Settled
    <3>2. CASE ~Ends(file, {"bare"})
      <4> DEFINE m == Len(file')
      <4>1. m \in Nat /\ m <= Len(file) /\ file' = SubSeq(file, 1, m) /\ stable' = stable
        BY <1>1, <2>1, <3>2, RepairedLines
      <4>2. /\ Len(file) <= Len(stable) /\ SubSeq(file, 1, Len(file)) = SubSeq(stable, 1, Len(file))
            /\ Len(file) \in Nat /\ Len(stable) \in Nat
        BY <1>1, <2>1 DEF DurableInv, Settled
      <4>3. SubSeq(stable, 1, m) = file'
        <5> DEFINE n == Len(file) a == SubSeq(file, 1, n) b == SubSeq(stable, 1, n)
        <5>1. a = b /\ n \in Nat /\ m <= n /\ n <= Len(stable)
          BY <4>1, <4>2
        <5>2. \A i \in 1 .. n : a[i] = file[i] /\ b[i] = stable[i]
          BY <1>1, <4>2
        <5> HIDE DEF a, b, m, n
        <5>3. \A i \in 1 .. m : file[i] = stable[i]
          BY <4>1, <5>1, <5>2
        <5>4. /\ SubSeq(stable, 1, m) = [i \in 1 .. m |-> stable[i]]
              /\ SubSeq(file, 1, m) = [i \in 1 .. m |-> file[i]]
          BY <1>1, <4>1, <5>1 DEF n
        <5>5. QED
          BY <4>1, <5>3, <5>4
      <4>4. SubSeq(file', 1, m) = file' /\ m \in 0 .. m /\ m <= Len(stable)
        BY <1>1, <4>1, <4>2, AllSettled
      <4>5. QED
        BY <4>1, <4>3, <4>4 DEF Settled
    <3>3. QED
      BY <3>1, <3>2
  <2>7. AckDurable'
    <3>1. acked' \subseteq ToSet(Records(stable)) /\ acked' \subseteq ToSet(Records(file'))
      BY <2>1, <2>2, <2>4, DurableInLog
    <3>2. QED
      BY <2>1, <3>1 DEF AckDurable
  <2>8. QED
    BY <2>1, <2>3, <2>5, <2>6, <2>7 DEF DurableInv, Swapping, Compacting
<1>7. QED
  BY <1>3, <1>4, <1>5, <1>6

LEMMA DurableInductive ==
    ASSUME "process" \notin Crashes, Faults \cap {"write", "sync", "dirSync", "reopen"} = {}
    PROVE  TypeInv /\ TypeInv' /\ LinesInv /\ DurableInv /\ [Next]_vars => DurableInv'
<1>1. SUFFICES ASSUME TypeInv, TypeInv', LinesInv, DurableInv, [Next]_vars PROVE DurableInv'
  OBVIOUS
<1>2. ~(WriteFails \/ SyncFails \/ ReopenFails) /\ "dirSync" \notin Faults
  BY DEF WriteFails, SyncFails, ReopenFails
<1>3. CASE UNCHANGED vars
  BY <1>1, <1>3 DEF vars, DurableInv, Settled, Within, AckDurable, Swapping, Compacting
<1>4. ASSUME NEW batch \in Batches, Ingest(batch) PROVE DurableInv'
  BY <1>1, <1>4, DurableIngest
<1>5. CASE Write \/ Sync
  BY <1>1, <1>5, DurableWrites
<1>6. CASE CompactFails \/ RenameFails \/ (\E events \in SUBSET Events : Discard(events))
  BY <1>1, <1>6, DurableQuiet
<1>7. CASE Rename \/ Swap \/ Clear
  BY <1>1, <1>2, <1>7, DurableCompaction
<1>8. CASE Close \/ Crash \/ PowerCut \/ Open
  BY <1>1, <1>8, DurableRestarts
<1>9. QED
  BY <1>1, <1>2, <1>3, <1>4, <1>5, <1>6, <1>7, <1>8, DiscardTypes DEF Next

LEMMA DurableInvariant ==
    ASSUME "process" \notin Crashes, Faults \cap {"write", "sync", "dirSync", "reopen"} = {}
    PROVE  Spec => []DurableInv
<1>1. TypeInv /\ LinesInv /\ DurableInv /\ [Next]_vars => DurableInv'
  BY TypeInductive, DurableInductive
<1>2. Spec => []LinesInv
  BY LinesInvariant
<1>3. QED
  BY <1>1, <1>2, DurableInit, TypeInvariant, PTL DEF Spec

\* An acknowledged event is on disk and survives any power cut, wherever in a
\* call it falls: the batch was synced before it was indexed, and a compaction
\* renames a synced file and syncs the directory (Append, syncLog,
\* rewriteLocked).
THEOREM AcknowledgedIsDurable ==
    ASSUME "process" \notin Crashes, Faults \cap {"write", "sync", "dirSync", "reopen"} = {}
    PROVE  Spec => []AckDurable
<1>1. Spec => []DurableInv
  BY DurableInvariant
<1>2. DurableInv => AckDurable
  BY DEF DurableInv
<1>3. QED
  BY <1>1, <1>2, PTL

-----------------------------------------------------------------------------
\* Without a cap the process and the log agree, and no event is counted twice.

\* Lines that carry the first events of es, in order.
LEMMA DistinctLines ==
    ASSUME NEW f \in Seq(Lines), NEW es \in Seq(Events), IsInjective(es),
           \A i \in DOMAIN f : i \in DOMAIN es /\ f[i].ev = es[i]
    PROVE  Distinct(f)
BY DEF Distinct, IsInjective

LEMMA DistinctWhole ==
    ASSUME NEW es \in Seq(Events), IsInjective(es)
    PROVE  Distinct(Whole(es))
<1> DEFINE g == Whole(es)
<1>1. g \in Seq(Lines) /\ DOMAIN g = 1 .. Len(es) /\ \A i \in 1 .. Len(es) : g[i] = Line("whole", es[i])
  BY WholeType
<1>2. DOMAIN es = 1 .. Len(es)
  OBVIOUS
<1> HIDE DEF g
<1>3. \A i \in DOMAIN g : i \in DOMAIN es /\ g[i].ev = es[i]
  BY <1>1, <1>2 DEF Line
<1>4. Distinct(g)
  BY <1>1, <1>3, DistinctLines
<1>5. QED
  BY <1>4 DEF g

LEMMA DistinctRecords ==
    ASSUME NEW f \in Seq(Lines), Distinct(f)
    PROVE  IsInjective(Records(f))
<1> DEFINE P == {g \in Seq(Lines) : Distinct(g) => IsInjective(Records(g))}
<1>1. <<>> \in P
  BY EmptyFile, InjectiveEmpty
<1>2. ASSUME NEW g \in Seq(Lines), NEW x \in Lines, g \in P PROVE Append(g, x) \in P
  <2> DEFINE r == Append(g, x) n == Len(g)
  <2>1. /\ DOMAIN g = 1 .. n /\ DOMAIN r = 1 .. n + 1 /\ n \in Nat
        /\ r[n + 1] = x /\ \A i \in 1 .. n : r[i] = g[i]
    BY AppendElements
  <2>2. r \in Seq(Lines) /\ x.ev \in Events /\ Records(g) \in Seq(Events)
    <3>1. r \in Seq(Lines)
      OBVIOUS
    <3>2. x.ev \in Events
      BY DEF Lines
    <3>3. QED
      BY <3>1, <3>2, RecordsType
  <2>3. Records(r) = IF Parses(x) THEN Append(Records(g), x.ev) ELSE Records(g)
    BY RecordsAppend
  <2> HIDE DEF r, n
  <2>4. SUFFICES ASSUME Distinct(r) PROVE IsInjective(Records(r))
    BY <2>2 DEF r
  <2>5. \A i, j \in 1 .. n + 1 : r[i].ev = r[j].ev => i = j
    BY <2>1, <2>4 DEF Distinct
  <2>6. \A i \in 1 .. n : i \in 1 .. n + 1 /\ i # n + 1
    BY <2>1
  <2>7. Distinct(g)
    BY <2>1, <2>5, <2>6 DEF Distinct
  <2>8. IsInjective(Records(g))
    BY <1>2, <2>7
  <2>9. x.ev \notin ToSet(Records(g))
    <3>1. ToSet(Records(g)) = {g[i].ev : i \in {j \in DOMAIN g : Parses(g[j])}}
      BY RecordsSet
    <3>2. \A i \in 1 .. n : g[i].ev # x.ev
      BY <2>1, <2>5, <2>6
    <3>3. QED
      BY <2>1, <3>1, <3>2
  <2>10. CASE Parses(x)
    <3>1. Records(r) = Append(Records(g), x.ev)
      BY <2>3, <2>10 DEF r
    <3>2. IsInjective(Append(Records(g), x.ev))
      BY <2>2, <2>8, <2>9, InjectiveAppend
    <3>3. QED
      BY <3>1, <3>2
  <2>11. CASE ~Parses(x)
    BY <2>3, <2>8, <2>11 DEF r
  <2>12. QED
    BY <2>10, <2>11
<1>3. f \in P
  <2> HIDE DEF P
  <2>1. QED
    BY <1>1, <1>2, SequencesInduction
<1>4. QED
  BY <1>3

\* The log holds what the process has and the running call prepares.
LEMMA MirrorWhole ==
    ASSUME TypeInv, LinesInv, MirrorInv, up, ~Swapping
    PROVE  file = Whole(Held) /\ Records(file) = Held /\ IsInjective(Held)
<1>1. file \in Seq(Lines) /\ Clean(file) /\ Distinct(file) /\ Records(file) = Held
  BY DEF TypeInv, LinesInv, MirrorInv
<1>2. file = Whole(Held) /\ IsInjective(Records(file))
  BY <1>1, CleanIsWhole, DistinctRecords
<1>3. QED
  BY <1>1, <1>2

LEMMA NoCap ==
    ASSUME MaxEvents = 0
    PROVE  /\ \A n : ~OverCap(n)
           /\ TypeInv => pc \notin {"compactCap", "swapCap"}
           /\ \A f \in Seq(Lines) : Replay(f) = Records(f)
<1>1. \A n : ~OverCap(n)
  BY DEF OverCap
<1>2. TypeInv => pc \notin {"compactCap", "swapCap"}
  BY <1>1 DEF TypeInv, Control
<1>3. \A f \in Seq(Lines) : Replay(f) = Records(f)
  BY <1>1, ReplaySet
<1>4. QED
  BY <1>1, <1>2, <1>3

LEMMA MirrorInit ==
    Init => MirrorInv
<1>1. SUFFICES ASSUME Init PROVE MirrorInv
  OBVIOUS
<1> DEFINE e == <<>>
<1>2. Records(e) = e /\ Distinct(e) /\ IsInjective(e)
  BY EmptyFile, InjectiveEmpty DEF Distinct
<1>3. file = e /\ stable = e /\ evs = e /\ up /\ pc = "free"
  BY <1>1 DEF Init
<1> HIDE DEF e
<1>4. QED
  BY <1>2, <1>3 DEF MirrorInv, Swapping, Held

LEMMA MirrorWrites ==
    ASSUME MaxEvents = 0, TypeInv, LinesInv, MirrorInv, Write \/ Sync \/ SyncFails
    PROVE  MirrorInv'
<1>1. /\ file \in Seq(Lines) /\ evs \in Seq(Events) /\ buf \in Seq(Events) /\ up /\ ~Swapping
      /\ Clean(file)
  BY DEF TypeInv, Control, LinesInv, Write, Sync, SyncFails, Swapping
<1>2. Records(file) = Held /\ IsInjective(Held) /\ IsInjective(evs)
  BY <1>1, MirrorWhole DEF MirrorInv
<1>3. CASE Write
  <2>1. /\ pc = "write" /\ pc' = "sync" /\ file' = Appended(file, Whole(buf))
        /\ UNCHANGED <<stable, up, evs, buf>>
    BY <1>3 DEF Write
  <2> DEFINE all == evs \o buf
  <2>2. all \in Seq(Events) /\ IsInjective(all)
    <3>1. IsInjective(buf) /\ ToSet(evs) \cap ToSet(buf) = {}
      BY <2>1 DEF TypeInv, Control
    <3>2. QED
      BY <1>1, <1>2, <3>1, InjectiveConcat
  <2>3. Records(file) = evs
    BY <1>2, <2>1 DEF Held
  <2> HIDE DEF all
  <2>4. Records(file') = all /\ file' \in Seq(Lines) /\ Clean(file')
    BY <1>1, <2>1, <2>3, CleanConcat DEF all
  <2>5. Distinct(file')
    BY <2>2, <2>4, CleanIsWhole, DistinctWhole
  <2>6. Held' = all
    BY <2>1 DEF Held, all
  <2>7. QED
    BY <1>2, <2>1, <2>4, <2>5, <2>6 DEF MirrorInv, Swapping
<1>4. CASE Sync \/ SyncFails
  <2>1. /\ pc = "sync" /\ pc' = "free" /\ evs' = evs \o buf /\ stable' \in {file, stable}
        /\ UNCHANGED <<file, up>>
    BY <1>4, NoCap DEF Sync, SyncFails, Return
  <2>2. Held = evs' /\ Held' = evs'
    BY <2>1 DEF Held
  <2>3. QED
    BY <1>1, <1>2, <2>1, <2>2 DEF MirrorInv, Swapping
<1>5. QED
  BY <1>3, <1>4

LEMMA MirrorQuiet ==
    ASSUME MaxEvents = 0, TypeInv, MirrorInv,
           \/ CompactFails \/ RenameFails
           \/ \E batch \in Batches : Ingest(batch)
           \/ \E events \in SUBSET Events : Discard(events)
    PROVE  MirrorInv'
<1>1. /\ pc \in {"free", "compact"} /\ pc' \in {"free", "write", "compact"}
      /\ UNCHANGED <<file, stable, up, evs>>
  BY NoCap DEF CompactFails, RenameFails, Compacting, Return, Ingest, Discard
<1>2. QED
  BY <1>1 DEF MirrorInv, Swapping, Held

LEMMA MirrorCompaction ==
    ASSUME MaxEvents = 0, TypeInv, LinesInv, MirrorInv, Rename \/ Swap
    PROVE  MirrorInv'
<1>1. /\ file \in Seq(Lines) /\ evs \in Seq(Events) /\ buf \in Seq(Events) /\ up
      /\ pc \in {"compact", "swap"} /\ buf = Without(evs, target)
  BY NoCap DEF TypeInv, Control, Rename, Swap, Compacting
<1>2. IsInjective(buf)
  BY <1>1, WithoutKeeps DEF MirrorInv
<1>3. CASE Rename
  <2>1. pc' = "swap" /\ file' = Whole(buf) /\ UNCHANGED <<stable, up, evs, buf>>
    BY <1>1, <1>3 DEF Rename, Compacting
  <2>2. Distinct(file') /\ Records(file') = buf
    BY <1>1, <1>2, <2>1, DistinctWhole, RecordsWhole
  <2>3. QED
    BY <2>1, <2>2 DEF MirrorInv, Swapping
<1>4. CASE Swap
  <2>1. /\ pc = "swap" /\ pc' = "free" /\ evs' = buf /\ stable' \in {file, stable}
        /\ UNCHANGED <<file, up>>
    BY <1>1, <1>4 DEF Swap, Return
  <2>2. Records(file) = buf
    BY <1>1, <2>1 DEF MirrorInv, Swapping
  <2>3. QED
    BY <1>2, <2>1, <2>2 DEF MirrorInv, Swapping, Held
<1>5. QED
  BY <1>3, <1>4

LEMMA ConcatElements ==
    ASSUME NEW S, NEW s \in Seq(S), NEW t \in Seq(S)
    PROVE  /\ s \o t \in Seq(S) /\ Len(s \o t) = Len(s) + Len(t)
           /\ DOMAIN (s \o t) = 1 .. Len(s) + Len(t) /\ Len(s) \in Nat /\ Len(t) \in Nat
           /\ \A i \in 1 .. Len(s) : (s \o t)[i] = s[i]
           /\ \A i \in 1 .. Len(t) : (s \o t)[Len(s) + i] = t[i]
OBVIOUS

\* The lines of a log and of a batch behind it carry the events of both.
LEMMA CarriedConcat ==
    ASSUME NEW f \in Seq(Lines), NEW g \in Seq(Lines), NEW es \in Seq(Events), NEW fs \in Seq(Events),
           Len(f) = Len(es), \A i \in 1 .. Len(f) : f[i].ev = es[i],
           Len(g) <= Len(fs), \A i \in 1 .. Len(g) : g[i].ev = fs[i]
    PROVE  /\ f \o g \in Seq(Lines) /\ Len(f \o g) = Len(f) + Len(g)
           /\ \A i \in 1 .. Len(f) + Len(g) : i \in DOMAIN (es \o fs) /\ (f \o g)[i].ev = (es \o fs)[i]
<1> DEFINE h == f \o g all == es \o fs m == Len(f) n == Len(g)
<1>1. /\ h \in Seq(Lines) /\ Len(h) = m + n /\ m \in Nat /\ n \in Nat
      /\ \A i \in 1 .. m : h[i] = f[i]
      /\ \A i \in 1 .. n : h[m + i] = g[i]
  <2>1. /\ f \o g \in Seq(Lines) /\ Len(f \o g) = Len(f) + Len(g)
        /\ Len(f) \in Nat /\ Len(g) \in Nat
    BY ConcatElements
  <2>2. \A i \in 1 .. Len(f) : (f \o g)[i] = f[i]
    BY ConcatElements
  <2>3. \A i \in 1 .. Len(g) : (f \o g)[Len(f) + i] = g[i]
    BY ConcatElements
  <2>4. QED
    BY <2>1, <2>2, <2>3
<1>2. /\ DOMAIN all = 1 .. m + Len(fs) /\ Len(fs) \in Nat /\ n <= Len(fs)
      /\ \A i \in 1 .. m : all[i] = es[i]
      /\ \A i \in 1 .. Len(fs) : all[m + i] = fs[i]
  <2>1. /\ DOMAIN all = 1 .. Len(es) + Len(fs) /\ Len(fs) \in Nat /\ Len(es) \in Nat
        /\ \A i \in 1 .. Len(es) : all[i] = es[i]
        /\ \A i \in 1 .. Len(fs) : all[Len(es) + i] = fs[i]
    BY ConcatElements
  <2>2. m = Len(es) /\ n <= Len(fs)
    OBVIOUS
  <2> HIDE DEF m, n, all
  <2>3. QED
    BY <2>1, <2>2
<1> HIDE DEF h, all, m, n
<1>3. ASSUME NEW i \in 1 .. m + n PROVE i \in DOMAIN all /\ h[i].ev = all[i]
  <2>1. i \in DOMAIN all
    BY <1>1, <1>2
  <2>2. CASE i \in 1 .. m
    BY <1>1, <1>2, <2>1, <2>2 DEF m
  <2>3. CASE i - m \in 1 .. n
    <3> DEFINE j == i - m
    <3>1. j \in 1 .. n /\ j \in 1 .. Len(fs) /\ i = m + j
      BY <1>1, <1>2, <2>3
    <3> HIDE DEF j
    <3>2. h[i] = g[j] /\ g[j].ev = fs[j] /\ all[i] = fs[j]
      BY <1>1, <1>2, <3>1 DEF n
    <3>3. QED
      BY <2>1, <3>2
  <2>4. QED
    BY <1>1, <2>2, <2>3
<1>4. QED
  BY <1>1, <1>3 DEF h, all, m, n

\* What a crash leaves of a write are lines of the first events of the log and the batch.
LEMMA DistinctShortWrite ==
    ASSUME TypeInv, LinesInv, MirrorInv, pc = "write", ShortWrite, file' \in Seq(Lines)
    PROVE  Distinct(file')
<1>1. /\ file \in Seq(Lines) /\ evs \in Seq(Events) /\ buf \in Seq(Events) /\ up /\ ~Swapping
      /\ Clean(file) /\ IsInjective(buf) /\ ToSet(evs) \cap ToSet(buf) = {} /\ IsInjective(evs)
  BY DEF TypeInv, Control, LinesInv, MirrorInv, Swapping
<1>2. file = Whole(evs)
  BY <1>1, MirrorWhole DEF Held
<1> DEFINE all == evs \o buf m == Len(evs)
<1>3. all \in Seq(Events) /\ IsInjective(all)
  BY <1>1, InjectiveConcat
<1>4. /\ m \in Nat /\ Len(buf) \in Nat /\ DOMAIN all = 1 .. m + Len(buf)
      /\ \A i \in 1 .. m : all[i] = evs[i]
      /\ \A i \in 1 .. Len(buf) : all[m + i] = buf[i]
  BY <1>1
<1>5. Len(file) = m /\ \A i \in 1 .. m : file[i].ev = evs[i]
  <2>1. Len(file) = m /\ \A i \in 1 .. m : file[i] = Line("whole", evs[i])
    BY <1>1, <1>2, WholeType
  <2>2. \A x \in Events : Line("whole", x).ev = x
    BY DEF Line
  <2>3. \A i \in 1 .. m : evs[i] \in Events
    BY <1>1
  <2>4. QED
    BY <2>1, <2>2, <2>3
<1>6. PICK p \in Seq(Events) :
          /\ \E n \in 0 .. Len(buf) - 1 : p = SubSeq(buf, 1, n)
          /\ \/ file' = file \o Whole(p)
             \/ \E s \in {"torn", "bare"} :
                    /\ Len(p) + 1 \in 1 .. Len(buf)
                    /\ Line(s, buf[Len(p) + 1]) \in Lines
                    /\ file' = Append(file \o Whole(p), Line(s, buf[Len(p) + 1]))
  BY <1>1, ShortWriteLines
<1> DEFINE n == Len(p) g == Whole(p) h == file \o g
<1>7. n \in Nat /\ n <= Len(buf) /\ \A i \in 1 .. n : p[i] = buf[i]
  <2>1. PICK k \in 0 .. Len(buf) - 1 : p = SubSeq(buf, 1, k)
    BY <1>6
  <2>2. Len(p) = k /\ \A i \in 1 .. k : p[i] = buf[i]
    BY <1>1, <2>1
  <2>3. QED
    BY <1>4, <2>2
<1>8. g \in Seq(Lines) /\ Len(g) = n /\ \A i \in 1 .. n : g[i].ev = p[i]
  <2>1. g \in Seq(Lines) /\ Len(g) = n /\ \A i \in 1 .. n : g[i] = Line("whole", p[i])
    BY WholeType
  <2>2. \A x \in Events : Line("whole", x).ev = x
    BY DEF Line
  <2>3. \A i \in 1 .. n : p[i] \in Events
    BY <1>7
  <2> HIDE DEF g
  <2>4. QED
    BY <2>1, <2>2, <2>3
<1> HIDE DEF g
<1>9. h \in Seq(Lines) /\ Len(h) = m + n /\ \A i \in 1 .. m + n : i \in DOMAIN all /\ h[i].ev = all[i]
  <2>1. file \in Seq(Lines) /\ Len(file) = Len(evs) /\ \A i \in 1 .. Len(file) : file[i].ev = evs[i]
    BY <1>1, <1>5
  <2>2. /\ g \in Seq(Lines) /\ Len(g) = n /\ Len(g) <= Len(buf)
        /\ \A i \in 1 .. Len(g) : g[i].ev = buf[i]
    BY <1>7, <1>8
  <2>3. /\ h \in Seq(Lines) /\ Len(h) = Len(file) + Len(g)
        /\ \A i \in 1 .. Len(file) + Len(g) : i \in DOMAIN all /\ h[i].ev = all[i]
    <3>1. /\ file \o g \in Seq(Lines) /\ Len(file \o g) = Len(file) + Len(g)
          /\ \A i \in 1 .. Len(file) + Len(g) : i \in DOMAIN (evs \o buf) /\ (file \o g)[i].ev = (evs \o buf)[i]
      <4> HIDE DEF h, m, n, all
      <4>1. evs \in Seq(Events) /\ buf \in Seq(Events)
        BY <1>1
      <4>2. Len(g) <= Len(buf) /\ \A i \in 1 .. Len(g) : g[i].ev = buf[i]
        BY <2>2
      <4>3. file \in Seq(Lines) /\ g \in Seq(Lines)
        BY <2>1, <2>2
      <4>4. QED
        BY <2>1, <4>1, <4>2, <4>3, CarriedConcat
    <3>2. QED
      BY <3>1 DEF h, all
  <2> HIDE DEF all, h
  <2>4. QED
    BY <2>1, <2>2, <2>3
<1> HIDE DEF all
<1>10. CASE file' = h
  <2> HIDE DEF h, m, n
  <2>1. DOMAIN h = 1 .. m + n
    BY <1>9
  <2>2. QED
    BY <1>3, <1>9, <1>10, <2>1, DistinctLines
<1>11. ASSUME NEW s \in {"torn", "bare"}, n + 1 \in 1 .. Len(buf), Line(s, buf[n + 1]) \in Lines,
              file' = Append(h, Line(s, buf[n + 1]))
       PROVE  Distinct(file')
  <2> DEFINE l == Line(s, buf[n + 1]) r == Append(h, l)
  <2>1. l.ev = buf[n + 1] /\ l \in Lines
    BY <1>11 DEF Line
  <2> HIDE DEF l, h
  <2>2. /\ r \in Seq(Lines) /\ DOMAIN r = 1 .. (m + n) + 1 /\ r[(m + n) + 1] = l
        /\ \A i \in 1 .. m + n : r[i] = h[i]
    BY <1>9, <2>1, AppendElements
  <2> HIDE DEF r, m, n
  <2>3. (m + n) + 1 \in DOMAIN all /\ all[(m + n) + 1] = buf[n + 1]
    <3>1. (m + n) + 1 = m + (n + 1)
      BY <1>4, <1>7
    <3>2. QED
      BY <1>4, <1>7, <1>11, <3>1
  <2>4. \A i \in 1 .. (m + n) + 1 : i \in 1 .. m + n \/ i = (m + n) + 1
    BY <1>4, <1>7
  <2>5. \A i \in 1 .. (m + n) + 1 : i \in DOMAIN all /\ r[i].ev = all[i]
    BY <1>9, <2>1, <2>2, <2>3, <2>4
  <2>6. Distinct(r)
    BY <1>3, <2>2, <2>5, DistinctLines
  <2>7. QED
    BY <1>11, <2>6 DEF r, l
<1>12. QED
  BY <1>6, <1>10, <1>11 DEF g

LEMMA MirrorRestarts ==
    ASSUME MaxEvents = 0, TypeInv, TypeInv', LinesInv, LinesInv', MirrorInv,
           Close \/ Crash \/ PowerCut \/ Open
    PROVE  MirrorInv'
<1>1. file \in Seq(Lines) /\ stable \in Seq(Lines) /\ Tidy(file) /\ file' \in Seq(Lines)
  BY DEF TypeInv
<1>2. IsInjective(<<>>)
  BY InjectiveEmpty
<1>3. CASE Close
  <2>1. ~up' /\ evs' = <<>> /\ file' = file /\ stable' \in {file, stable}
    BY <1>3 DEF Close, Stop
  <2>2. QED
    BY <1>2, <2>1 DEF MirrorInv
<1>4. CASE Crash
  <2>1. ~up' /\ evs' = <<>> /\ stable' = stable
    BY <1>4 DEF Crash, Stop
  <2>2. Distinct(file')
    BY <1>1, <1>4, DistinctShortWrite DEF Crash, MirrorInv
  <2>3. QED
    BY <1>2, <2>1, <2>2 DEF MirrorInv
<1>5. CASE PowerCut
  <2>1. ~up' /\ evs' = <<>> /\ stable' = file' /\ file' \in AfterPowerCut
    BY <1>5 DEF PowerCut, Stop
  <2>2. ASSUME NEW n \in Nat, LeftOver(file', n) PROVE Distinct(file')
    <3>1. \A i \in DOMAIN file' : i \in DOMAIN file /\ file'[i].ev = file[i].ev
      BY <1>1, <2>2, LeftOverLines
    <3>2. Distinct(file)
      BY DEF MirrorInv
    <3>3. QED
      BY <3>1, <3>2 DEF Distinct
  <2>3. Distinct(file')
    BY <1>1, <2>1, <2>2, PowerCutLeaves DEF MirrorInv
  <2>4. QED
    BY <1>2, <2>1, <2>3 DEF MirrorInv
<1>6. CASE Open
  <2>1. /\ evs' = Replay(file) /\ file' = Repaired(file) /\ stable' \in {file', stable}
        /\ pc' = "free"
    BY <1>6 DEF Open, TypeInv, Control
  <2>2. Distinct(file') /\ Records(file') = Records(file)
    BY <1>1, <2>1, RepairedLines DEF MirrorInv
  <2>3. Replay(file) = Records(file)
    BY <1>1, NoCap
  <2>4. IsInjective(Records(file))
    BY <1>1, DistinctRecords DEF MirrorInv
  <2>5. QED
    BY <2>1, <2>2, <2>3, <2>4 DEF MirrorInv, Swapping, Held
<1>7. QED
  BY <1>3, <1>4, <1>5, <1>6

LEMMA MirrorInductive ==
    ASSUME MaxEvents = 0, ~MayClear, Faults \cap {"write", "reopen"} = {}
    PROVE  TypeInv /\ TypeInv' /\ LinesInv /\ LinesInv' /\ MirrorInv /\ [Next]_vars => MirrorInv'
<1>1. SUFFICES ASSUME TypeInv, TypeInv', LinesInv, LinesInv', MirrorInv, [Next]_vars PROVE MirrorInv'
  OBVIOUS
<1>2. ~(WriteFails \/ ReopenFails \/ Clear)
  BY DEF WriteFails, ReopenFails, Clear
<1>3. CASE UNCHANGED vars
  BY <1>1, <1>3 DEF vars, MirrorInv, Swapping, Held
<1>4. CASE Write \/ Sync \/ SyncFails
  BY <1>1, <1>4, MirrorWrites
<1>5. CASE \/ CompactFails \/ RenameFails
           \/ \E batch \in Batches : Ingest(batch)
           \/ \E events \in SUBSET Events : Discard(events)
  BY <1>1, <1>5, MirrorQuiet
<1>6. CASE Rename \/ Swap
  BY <1>1, <1>6, MirrorCompaction
<1>7. CASE Close \/ Crash \/ PowerCut \/ Open
  BY <1>1, <1>7, MirrorRestarts
<1>8. QED
  BY <1>1, <1>2, <1>3, <1>4, <1>5, <1>6, <1>7, DiscardTypes DEF Next

LEMMA MirrorInvariant ==
    ASSUME MaxEvents = 0, ~MayClear, Faults \cap {"write", "reopen"} = {}
    PROVE  Spec => []MirrorInv
<1>1. TypeInv /\ LinesInv /\ [Next]_vars => TypeInv' /\ LinesInv'
  BY TypeInductive, LinesInductive
<1>2. TypeInv /\ LinesInv /\ MirrorInv /\ [Next]_vars => MirrorInv'
  BY <1>1, MirrorInductive
<1>3. Spec => []LinesInv
  BY LinesInvariant
<1>4. QED
  BY <1>2, <1>3, MirrorInit, TypeInvariant, PTL DEF Spec

\* Between calls a restart would serve exactly what the process serves, in the
\* same order, and no event is counted twice, whatever clients retry: after any
\* crash, and when a sync, a compaction or a rename fails (Ingest's index,
\* OpenCapped).
THEOREM RestartServesTheSame ==
    ASSUME MaxEvents = 0, ~MayClear, Faults \cap {"write", "reopen"} = {}
    PROVE  Spec => []MemoryMatchesFile
<1>1. TypeInv /\ MirrorInv => MemoryMatchesFile
  <2>1. SUFFICES ASSUME TypeInv, MirrorInv PROVE MemoryMatchesFile
    OBVIOUS
  <2>2. file \in Seq(Lines)
    BY <2>1 DEF TypeInv
  <2>3. Replay(file) = Records(file)
    BY <2>2, NoCap
  <2>4. IsInjective(Records(file)) /\ IsInjective(evs)
    BY <2>1, <2>2, DistinctRecords DEF MirrorInv
  <2>5. up /\ pc = "free" => evs = Records(file)
    BY <2>1 DEF MirrorInv, Swapping, Held
  <2>6. QED
    BY <2>3, <2>4, <2>5 DEF MemoryMatchesFile
<1>2. Spec => []MirrorInv
  BY MirrorInvariant
<1>3. QED
  BY <1>1, <1>2, TypeInvariant, PTL

-----------------------------------------------------------------------------
\* What was erased stays gone.

\* While the process is up, what it serves are the records of the log, but for the running call.
LEMMA ServedRecords ==
    ASSUME TypeInv, MirrorInv, up
    PROVE  /\ pc # "sync" /\ ~Swapping => ToSet(Records(file)) = ToSet(evs)
           /\ pc = "sync" => ToSet(Records(file)) = ToSet(evs) \cup ToSet(buf)
           /\ Swapping => ToSet(Records(file)) = ToSet(buf)
<1>1. evs \in Seq(Events) /\ buf \in Seq(Events)
  BY DEF TypeInv
<1>2. ToSet(evs \o buf) = ToSet(evs) \cup ToSet(buf)
  BY <1>1, SetOfConcat
<1>3. Records(file) = IF Swapping THEN buf ELSE IF pc = "sync" THEN evs \o buf ELSE evs
  BY DEF MirrorInv, Held
<1>4. pc = "sync" => ~Swapping
  BY DEF Swapping
<1>5. QED
  BY <1>2, <1>3, <1>4

\* A power cut keeps what was served, and of the running append some, or takes all
\* of what the running compaction is to remove, or none.
LEMMA PowerCutHolds ==
    ASSUME TypeInv, LinesInv, DurableInv, MirrorInv, ErasedInv, PowerCut
    PROVE  LET left == ToSet(Records(file'))
           IN /\ up
              /\ Swapping => left \in {ToSet(evs), ToSet(buf)}
              /\ ~Swapping => ToSet(evs) \subseteq left
              /\ pc = "sync" => left \subseteq ToSet(evs) \cup ToSet(buf)
              /\ pc # "sync" /\ ~Swapping => left \subseteq ToSet(evs)
<1>1. /\ file \in Seq(Lines) /\ stable \in Seq(Lines) /\ Len(file) \in Nat /\ file' \in AfterPowerCut /\ up
      /\ Clean(file)
  BY DEF TypeInv, LinesInv, PowerCut, Stop
<1>2. /\ pc # "sync" /\ ~Swapping => ToSet(Records(file)) = ToSet(evs)
      /\ pc = "sync" => ToSet(Records(file)) = ToSet(evs) \cup ToSet(buf)
      /\ Swapping => ToSet(Records(file)) = ToSet(buf)
      /\ ToSet(Records(stable)) = ToSet(evs)
  BY <1>1, ServedRecords DEF ErasedInv
<1>3. CASE file' \in {stable, file}
  BY <1>1, <1>2, <1>3 DEF Swapping
<1>4. ASSUME NEW n \in Nat, LeftOver(file', n)
      PROVE  /\ ~Swapping /\ ToSet(evs) \subseteq ToSet(Records(file'))
             /\ ToSet(Records(file')) \subseteq ToSet(Records(file))
  <2>1. ~Swapping /\ \A k \in Nat : Settled(k) => k <= n
    BY <1>4 DEF LeftOver
  <2>2. PICK k \in Nat : Settled(k) /\ Within(k)
    BY <1>1, <2>1 DEF TypeInv, DurableInv, Swapping, Compacting
  <2>3. /\ file' \in Seq(Lines) /\ n <= Len(file') /\ Len(file') \in Nat
        /\ \A i \in 1 .. n : file'[i] = file[i]
        /\ \A i \in DOMAIN file' : i \in DOMAIN file /\ file'[i].ev = file[i].ev
    BY <1>1, <1>4, LeftOverLines
  <2>4. k <= n /\ k <= Len(file)
    BY <2>1, <2>2 DEF Settled
  <2>5. k <= Len(file') /\ \A i \in 1 .. k : file[i] = file'[i]
    BY <2>3, <2>4
  <2>6. ToSet(Records(SubSeq(file, 1, k))) \subseteq ToSet(Records(file'))
    BY <1>1, <2>3, <2>4, <2>5, RecordsOfPrefix
  <2>7. ToSet(evs) \subseteq ToSet(Records(file'))
    BY <2>2, <2>6 DEF Within
  <2>8. /\ ToSet(Records(file')) = {file'[i].ev : i \in {j \in DOMAIN file' : Parses(file'[j])}}
        /\ ToSet(Records(file)) = {file[i].ev : i \in {j \in DOMAIN file : Parses(file[j])}}
    BY <1>1, <2>3, RecordsSet
  <2>9. \A i \in DOMAIN file : Parses(file[i])
    BY <1>1 DEF Clean, Parses
  <2>10. ToSet(Records(file')) \subseteq ToSet(Records(file))
    BY <2>3, <2>8, <2>9
  <2>11. QED
    BY <2>1, <2>7, <2>10
<1>5. CASE \E n \in Nat : LeftOver(file', n)
  BY <1>1, <1>2, <1>4, <1>5
<1>6. QED
  BY <1>1, <1>3, <1>5, PowerCutLeaves

LEMMA ErasedInit ==
    Init => ErasedInv
<1>1. SUFFICES ASSUME Init PROVE ErasedInv
  OBVIOUS
<1> DEFINE e == <<>>
<1>2. Records(e) = e /\ ToSet(e) = {}
  BY EmptyFile
<1>3. stable = e /\ evs = e /\ buf = e /\ erased = {} /\ up
  BY <1>1 DEF Init
<1> HIDE DEF e
<1>4. QED
  BY <1>2, <1>3 DEF ErasedInv

LEMMA ErasedCalls ==
    ASSUME TypeInv, ErasedInv,
           \/ \E batch \in Batches : Ingest(batch)
           \/ \E events \in SUBSET Events : Discard(events)
    PROVE  ErasedInv'
<1>1. evs \in Seq(Events) /\ ToSet(<<>>) = {}
  BY EmptyFile DEF TypeInv
<1>2. ASSUME NEW batch \in Batches, Ingest(batch) PROVE ErasedInv'
  <2>1. batch \in Seq(Events)
    BY Bounds
  <2>2. ToSet(NotSeen(batch)) = ToSet(batch) \ ToSet(evs)
    BY <2>1, NotSeenOnce
  <2>3. /\ buf' \in {buf, NotSeen(batch)} /\ erased' = erased \ ToSet(batch) /\ up
        /\ UNCHANGED <<stable, up, evs>>
    BY <1>2 DEF Ingest
  <2>4. QED
    BY <2>2, <2>3 DEF ErasedInv
<1>3. ASSUME NEW events \in SUBSET Events, Discard(events) PROVE ErasedInv'
  <2> DEFINE kept == Without(evs, events)
  <2>1. /\ ToSet(kept) = ToSet(evs) \ events
        /\ kept \in Seq(Events) /\ Len(kept) <= Len(evs)
        /\ Len(kept) = Len(evs) => kept = evs
    BY <1>1, WithoutKeeps, WithoutType
  <2> HIDE DEF kept
  <2>2. /\ up /\ pc = "free" /\ UNCHANGED <<stable, up, evs>>
        /\ IF Len(kept) < Len(evs)
           THEN buf' = kept /\ erased' = erased
           ELSE erased' = erased \cup events /\ buf' = buf
    BY <1>3 DEF Discard, kept
  <2>3. buf = <<>>
    BY <2>2 DEF TypeInv, Control
  <2>4. CASE Len(kept) < Len(evs)
    BY <2>1, <2>2, <2>4 DEF ErasedInv
  <2>5. CASE ~(Len(kept) < Len(evs))
    <3>1. Len(kept) = Len(evs)
      BY <1>1, <2>1, <2>5
    <3>2. ToSet(evs) \cap events = {}
      BY <2>1, <3>1
    <3>3. QED
      BY <1>1, <2>2, <2>3, <2>5, <3>2 DEF ErasedInv
  <2>6. QED
    BY <2>4, <2>5
<1>4. QED
  BY <1>2, <1>3

LEMMA ErasedWrites ==
    ASSUME MaxEvents = 0, "dirSync" \notin Faults, TypeInv, MirrorInv, ErasedInv,
           Write \/ Sync \/ CompactFails \/ RenameFails \/ Rename \/ Swap
    PROVE  ErasedInv'
<1>1. /\ evs \in Seq(Events) /\ buf \in Seq(Events) /\ up /\ ToSet(<<>>) = {}
  BY EmptyFile DEF TypeInv, Control, Write, Sync, CompactFails, RenameFails, Rename, Swap, Compacting
<1>2. CASE Write \/ CompactFails \/ RenameFails \/ Rename
  <2>1. buf' \in {buf, <<>>} /\ UNCHANGED <<stable, up, evs, erased>>
    BY <1>2 DEF Write, CompactFails, RenameFails, Rename, Return
  <2>2. QED
    BY <1>1, <2>1 DEF ErasedInv
<1>3. CASE Sync
  <2>1. /\ pc = "sync" /\ stable' = file /\ evs' = evs \o buf /\ buf' = <<>> /\ UNCHANGED <<up, erased>>
    BY <1>3, NoCap DEF Sync, Return
  <2>2. ToSet(evs \o buf) = ToSet(evs) \cup ToSet(buf)
    BY <1>1, SetOfConcat
  <2>3. ToSet(Records(file)) = ToSet(evs) \cup ToSet(buf)
    BY <1>1, <2>1, ServedRecords
  <2>4. QED
    BY <1>1, <2>1, <2>2, <2>3 DEF ErasedInv
<1>4. CASE Swap
  <2>1. /\ pc = "swap" /\ Swapping /\ stable' = file /\ evs' = buf /\ buf' = <<>> /\ erased' = erased \cup target
        /\ UNCHANGED up
    BY <1>4, NoCap DEF Swap, Return, Swapping
  <2>2. ToSet(Records(file)) = ToSet(buf)
    BY <1>1, <2>1, ServedRecords
  <2>3. buf = Without(evs, target)
    BY <2>1 DEF TypeInv, Control
  <2>4. ToSet(buf) = ToSet(evs) \ target
    BY <1>1, <2>3, WithoutKeeps
  <2>5. QED
    BY <1>1, <2>1, <2>2, <2>4 DEF ErasedInv
<1>5. QED
  BY <1>2, <1>3, <1>4

LEMMA ErasedRestarts ==
    ASSUME MaxEvents = 0, "process" \notin Crashes, TypeInv, LinesInv, DurableInv, MirrorInv, ErasedInv,
           Close \/ Crash \/ PowerCut \/ Open
    PROVE  ErasedInv'
<1>1. file \in Seq(Lines) /\ Tidy(file) /\ ToSet(<<>>) = {}
  BY EmptyFile DEF TypeInv
<1>2. ~Crash
  BY DEF Crash
<1>3. CASE Close
  <2>1. /\ pc = "free" /\ up /\ ~up' /\ buf' = <<>> /\ stable' \in {file, stable} /\ UNCHANGED <<file, erased>>
    BY <1>3 DEF Close, Stop, Return
  <2>2. ToSet(Records(file)) = ToSet(evs)
    BY <2>1, ServedRecords DEF Swapping
  <2>3. QED
    BY <1>1, <2>1, <2>2 DEF ErasedInv
<1>4. CASE PowerCut
  <2>1. up /\ ~up' /\ buf' = <<>> /\ stable' = file' /\ UNCHANGED erased
    BY <1>4 DEF PowerCut, Stop, Return
  <2>2. ToSet(Records(file')) \subseteq ToSet(evs) \cup ToSet(buf)
    BY <1>4, PowerCutHolds
  <2>3. QED
    BY <1>1, <2>1, <2>2 DEF ErasedInv
<1>5. CASE Open
  <2>1. /\ ~up /\ up' /\ pc = "free" /\ evs' = Replay(file) /\ file' = Repaired(file)
        /\ stable' \in {file', stable} /\ UNCHANGED <<buf, erased>>
    BY <1>5 DEF Open, TypeInv, Control
  <2>2. evs' = Records(file) /\ Records(file') = Records(file)
    BY <1>1, <2>1, NoCap, RepairedLines
  <2>3. QED
    BY <2>1, <2>2 DEF ErasedInv
<1>6. QED
  BY <1>2, <1>3, <1>4, <1>5

LEMMA ErasedInvariant ==
    ASSUME MaxEvents = 0, ~MayClear, "process" \notin Crashes,
           Faults \cap {"write", "sync", "dirSync", "reopen"} = {}
    PROVE  Spec => []ErasedInv
<1> DEFINE Inv == TypeInv /\ LinesInv /\ DurableInv /\ MirrorInv
<1>1. ASSUME Inv, ErasedInv, [Next]_vars PROVE ErasedInv'
  <2>1. TypeInv /\ LinesInv /\ DurableInv /\ MirrorInv
    BY <1>1
  <2> HIDE DEF Inv
  <2>2. ~(WriteFails \/ SyncFails \/ ReopenFails \/ Clear) /\ "dirSync" \notin Faults
    BY DEF WriteFails, SyncFails, ReopenFails, Clear
  <2>3. CASE UNCHANGED vars
    BY <1>1, <2>3 DEF vars, ErasedInv
  <2>4. CASE \/ \E batch \in Batches : Ingest(batch)
             \/ \E events \in SUBSET Events : Discard(events)
    BY <1>1, <2>1, <2>4, ErasedCalls
  <2>5. CASE Write \/ Sync \/ CompactFails \/ RenameFails \/ Rename \/ Swap
    BY <1>1, <2>1, <2>2, <2>5, ErasedWrites
  <2>6. CASE Close \/ Crash \/ PowerCut \/ Open
    BY <1>1, <2>1, <2>6, ErasedRestarts
  <2>7. QED
    BY <1>1, <2>2, <2>3, <2>4, <2>5, <2>6, DiscardTypes DEF Next
<1>2. Spec => []TypeInv /\ []LinesInv /\ []DurableInv /\ []MirrorInv
  BY TypeInvariant, LinesInvariant, DurableInvariant, MirrorInvariant
<1>3. Spec => []Inv
  BY <1>2, PTL
<1> HIDE DEF Inv
<1>4. QED
  BY <1>1, <1>3, ErasedInit, PTL DEF Spec

\* What a Prune or DeleteUser that returned nil was to remove is in neither the
\* log nor what a power cut can bring back, unless it was sent again: the
\* renamed file is synced, and the directory before the call returns.
THEOREM ErasedStaysGone ==
    ASSUME MaxEvents = 0, ~MayClear, "process" \notin Crashes,
           Faults \cap {"write", "sync", "dirSync", "reopen"} = {}
    PROVE  Spec => []ErasedGone
<1>1. TypeInv /\ MirrorInv /\ ErasedInv => ErasedGone
  <2>1. SUFFICES ASSUME TypeInv, MirrorInv, ErasedInv PROVE ErasedGone
    OBVIOUS
  <2>2. Records(file) \in Seq(Events) /\ Records(stable) \in Seq(Events)
    BY <2>1, RecordsType DEF TypeInv
  <2>3. ToSet(Records(file) \o Records(stable)) = ToSet(Records(file)) \cup ToSet(Records(stable))
    BY <2>2, SetOfConcat
  <2>4. CASE up
    BY <2>1, <2>3, <2>4, ServedRecords DEF ErasedInv, ErasedGone
  <2>5. CASE ~up
    BY <2>1, <2>3, <2>5 DEF ErasedInv, ErasedGone
  <2>6. QED
    BY <2>4, <2>5
<1>2. Spec => []MirrorInv
  BY MirrorInvariant
<1>3. QED
  BY <1>1, <1>2, ErasedInvariant, TypeInvariant, PTL

-----------------------------------------------------------------------------
\* The log keeps the promise of the Store interface.

Stored == ToSet(IF up THEN evs ELSE Replay(file))

\* While the process is down it holds the records of its log, and what they are when it stops.
LEMMA StoredNow ==
    ASSUME MaxEvents = 0, TypeInv
    PROVE  Stored = IF up THEN ToSet(evs) ELSE ToSet(Records(file))
<1>1. file \in Seq(Lines)
  BY DEF TypeInv
<1>2. QED
  BY <1>1, NoCap DEF Stored

\* The types of a state and of the next.
LEMMA StoredThen ==
    ASSUME MaxEvents = 0, TypeInv'
    PROVE  /\ Stored' = IF up' THEN ToSet(evs') ELSE ToSet(Records(file'))
           /\ Stored' \subseteq Events
<1>1. file' \in Seq(Lines) /\ evs' \in Seq(Events)
  BY DEF TypeInv
<1>2. Replay(file') = Records(file')
  BY <1>1, NoCap
<1>3. Records(file') \in Seq(Events)
  BY <1>1, RecordsType
<1>4. Stored' = IF up' THEN ToSet(evs') ELSE ToSet(Records(file'))
  BY <1>2 DEF Stored
<1>5. ToSet(evs') \subseteq Events /\ ToSet(Records(file')) \subseteq Events
  BY <1>1, <1>3, SetOfSeq
<1>6. QED
  BY <1>4, <1>5

\* The log gains events: an append that became visible.
LEMMA GainsAreIngested ==
    ASSUME MaxEvents = 0, TypeInv', Stored \subseteq Stored', target' = target
    PROVE  [Promise!Next]_<<Stored, target>>
<1>1. Stored' \in SUBSET Events
  BY StoredThen
<1>2. Promise!Ingest(Stored')
  BY DEF Promise!Ingest, Stored
<1>3. QED
  BY <1>1, <1>2 DEF Promise!Next, Stored

\* The log loses events the running call is for, and the call may end.
LEMMA LossesAreRemoved ==
    ASSUME Stored' \subseteq Stored, Stored \ Stored' \subseteq target, target' \subseteq target
    PROVE  [Promise!Next]_<<Stored, target>>
<1>1. Promise!Remove
  BY DEF Promise!Remove, Stored
<1>2. QED
  BY <1>1 DEF Promise!Next, Stored

\* A call begins.
LEMMA CallsAreRequests ==
    ASSUME TypeInv, (\E cutoff \in Cutoffs : Prune(cutoff)) \/ (\E e \in Events : DeleteUser(e.user))
    PROVE  [Promise!Next]_<<Stored, target>>
<1>1. ASSUME NEW events \in Promise!Requests, Discard(events)
      PROVE  [Promise!Next]_<<Stored, target>>
  <2>1. pc = "free" /\ target' \in {target, events} /\ UNCHANGED <<file, up, evs>>
    BY <1>1 DEF Discard
  <2>2. target = {}
    BY <2>1 DEF TypeInv, Control
  <2>3. Stored' = Stored
    BY <2>1 DEF Stored
  <2>4. CASE target' = target
    BY <2>3, <2>4
  <2>5. CASE target' = events
    <3>1. Promise!Remove
      BY <2>2, <2>3, <2>5 DEF Promise!Remove, Stored
    <3>2. QED
      BY <3>1 DEF Promise!Next, Stored
  <2>6. QED
    BY <2>1, <2>4, <2>5
<1>2. ASSUME NEW cutoff \in Cutoffs, Prune(cutoff)
      PROVE  \E events \in Promise!Requests : Discard(events)
  <2>1. Promise!Prune(cutoff) \in Promise!Requests
    BY DEF Promise!Requests
  <2>2. Discard(Promise!Prune(cutoff))
    BY <1>2 DEF Prune, Promise!Prune
  <2>3. QED
    BY <2>1, <2>2
<1>3. ASSUME NEW e \in Events, DeleteUser(e.user)
      PROVE  \E events \in Promise!Requests : Discard(events)
  <2>1. Promise!DeleteUser(e.user) \in Promise!Requests
    BY DEF Promise!Requests
  <2>2. Discard(Promise!DeleteUser(e.user))
    BY <1>3 DEF DeleteUser, Promise!DeleteUser
  <2>3. QED
    BY <2>1, <2>2
<1>4. QED
  BY <1>1, <1>2, <1>3

\* What a write that a crash cuts leaves is the log, and perhaps some events more.
LEMMA ShortWriteGains ==
    ASSUME TypeInv, LinesInv, pc = "write", ShortWrite
    PROVE  ToSet(Records(file)) \subseteq ToSet(Records(file'))
<1>1. file \in Seq(Lines) /\ Records(file) \in Seq(Events) /\ Clean(file)
  BY RecordsType DEF TypeInv, Control, LinesInv
<1>2. PICK p \in Seq(Events) :
          \/ file' = file \o Whole(p)
          \/ \E s \in {"torn", "bare"} :
                 /\ Line(s, buf[Len(p) + 1]) \in Lines
                 /\ file' = Append(file \o Whole(p), Line(s, buf[Len(p) + 1]))
  BY <1>1, ShortWriteLines
<1> DEFINE g == Whole(p) h == file \o g
<1>3. g \in Seq(Lines) /\ Records(g) = p
  BY WholeType, RecordsWhole
<1> HIDE DEF g
<1>4. h \in Seq(Lines)
  BY <1>1, <1>3
<1>5. Records(h) = Records(file) \o p
  BY <1>1, <1>3, RecordsConcat
<1> HIDE DEF h
<1>6. ToSet(Records(h)) = ToSet(Records(file)) \cup ToSet(p) /\ Records(h) \in Seq(Events)
  BY <1>1, <1>4, <1>5, SetOfConcat, RecordsType
<1>7. CASE file' = h
  BY <1>6, <1>7
<1>8. ASSUME NEW l \in Lines, file' = Append(h, l)
      PROVE  ToSet(Records(file)) \subseteq ToSet(Records(file'))
  <2>1. Records(file') = IF Parses(l) THEN Append(Records(h), l.ev) ELSE Records(h)
    BY <1>4, <1>8, RecordsAppend
  <2>2. l.ev \in Events
    BY DEF Lines
  <2>3. ToSet(Append(Records(h), l.ev)) = ToSet(Records(h)) \cup {l.ev}
    BY <1>6, <2>2, SetOfAppend
  <2>4. QED
    BY <1>6, <2>1, <2>3
<1>9. QED
  BY <1>2, <1>7, <1>8 DEF g, h

\* What a compaction that removes events keeps.
LEMMA CompactionRemoves ==
    ASSUME MaxEvents = 0, TypeInv, Swapping
    PROVE  ToSet(buf) = ToSet(evs) \ target
<1>1. evs \in Seq(Events) /\ buf = Without(evs, target)
  BY NoCap DEF TypeInv, Control, Swapping
<1>2. QED
  BY <1>1, WithoutKeeps

\* Whatever call a stop of the process ends: it had no effect, all of it, or some.
LEMMA StopKeepsPromise ==
    ASSUME MaxEvents = 0, TypeInv, TypeInv', up, ~up', target' = {},
           Swapping => ToSet(Records(file')) \in {ToSet(evs), ToSet(buf)},
           ~Swapping => ToSet(evs) \subseteq ToSet(Records(file')),
           pc \notin {"write", "sync"} /\ ~Swapping => ToSet(Records(file')) \subseteq ToSet(evs)
    PROVE  [Promise!Next]_<<Stored, target>>
<1>1. Stored = ToSet(evs) /\ Stored' = ToSet(Records(file'))
  BY StoredNow, StoredThen
<1>2. CASE Swapping
  <2>1. ToSet(buf) = ToSet(evs) \ target
    BY <1>2, CompactionRemoves
  <2>2. QED
    BY <1>1, <1>2, <2>1, LossesAreRemoved
<1>3. CASE pc \in {"write", "sync"}
  <2>1. target = {} /\ ~Swapping
    BY <1>3 DEF TypeInv, Control, Swapping
  <2>2. QED
    BY <1>1, <2>1, GainsAreIngested
<1>4. CASE pc \notin {"write", "sync"} /\ ~Swapping
  BY <1>1, <1>4, LossesAreRemoved
<1>5. QED
  BY <1>2, <1>3, <1>4

\* Every step but a power cut is a step of EventStore.
LEMMA StepsKeepPromise ==
    ASSUME MaxEvents = 0, ~MayClear, Faults \cap {"write", "reopen"} = {},
           TypeInv, TypeInv', LinesInv, MirrorInv, [Next]_vars, ~PowerCut
    PROVE  [Promise!Next]_<<Stored, target>>
<1>1. /\ file \in Seq(Lines) /\ Tidy(file) /\ evs \in Seq(Events) /\ buf \in Seq(Events)
      /\ target \in SUBSET Events
  BY DEF TypeInv
<1>2. ~(WriteFails \/ ReopenFails \/ Clear)
  BY DEF WriteFails, ReopenFails, Clear
<1>3. CASE UNCHANGED vars
  BY <1>3 DEF vars, Stored
<1>4. ASSUME UNCHANGED <<up, evs>>, up, target' \in {target, {}} PROVE [Promise!Next]_<<Stored, target>>
  <2>1. Stored' = Stored
    BY <1>4 DEF Stored
  <2>2. QED
    BY <1>4, <2>1, LossesAreRemoved
<1>5. ASSUME NEW batch \in Batches, Ingest(batch) PROVE [Promise!Next]_<<Stored, target>>
  BY <1>4, <1>5 DEF Ingest
<1>6. CASE Write \/ Rename
  BY <1>4, <1>6 DEF Write, Rename, Compacting, TypeInv, Control
<1>7. CASE CompactFails \/ RenameFails
  BY <1>4, <1>7 DEF CompactFails, RenameFails, Compacting, Return, TypeInv, Control
<1>8. CASE Sync \/ SyncFails
  <2>1. /\ pc = "sync" /\ up /\ up' = up /\ evs' = evs \o buf /\ target' = {}
    BY <1>8, NoCap DEF Sync, SyncFails, Return, TypeInv, Control
  <2>2. target = {}
    BY <2>1 DEF TypeInv, Control
  <2>3. ToSet(evs \o buf) = ToSet(evs) \cup ToSet(buf)
    BY <1>1, SetOfConcat
  <2>4. Stored \subseteq Stored'
    BY <2>1, <2>3 DEF Stored
  <2>5. QED
    BY <2>1, <2>2, <2>4, GainsAreIngested
<1>9. CASE (\E cutoff \in Cutoffs : Prune(cutoff)) \/ (\E e \in Events : DeleteUser(e.user))
  BY <1>9, CallsAreRequests
<1>10. CASE Swap
  <2>1. /\ Swapping /\ up /\ up' = up /\ evs' = buf /\ target' = {}
    BY <1>10 DEF Swap, Swapping, Return, TypeInv, Control
  <2>2. ToSet(buf) = ToSet(evs) \ target
    BY <2>1, CompactionRemoves
  <2>3. Stored' \subseteq Stored /\ Stored \ Stored' \subseteq target
    BY <2>1, <2>2 DEF Stored
  <2>4. QED
    BY <2>1, <2>3, LossesAreRemoved
<1>11. CASE Close \/ Crash
  <2>1. up /\ ~up' /\ target' = {}
    BY <1>11 DEF Close, Crash, Stop, Return
  <2>2. /\ pc # "sync" /\ ~Swapping => ToSet(Records(file)) = ToSet(evs)
        /\ pc = "sync" => ToSet(Records(file)) = ToSet(evs) \cup ToSet(buf)
        /\ Swapping => ToSet(Records(file)) = ToSet(buf)
    BY <2>1, ServedRecords
  <2>3. CASE file' = file
    BY <2>1, <2>2, <2>3, StopKeepsPromise
  <2>4. CASE pc = "write" /\ ShortWrite
    <3>1. ToSet(Records(file)) \subseteq ToSet(Records(file')) /\ ~Swapping
      BY <2>4, ShortWriteGains DEF Swapping
    <3>2. QED
      BY <2>1, <2>2, <2>4, <3>1, StopKeepsPromise
  <2>5. QED
    BY <1>11, <2>3, <2>4 DEF Close, Crash
<1>12. CASE Open
  <2>1. ~up /\ up' /\ evs' = Replay(file) /\ target' = target
    BY <1>12 DEF Open
  <2>2. Stored' = Stored
    BY <2>1 DEF Stored
  <2>3. QED
    BY <2>1, <2>2
<1>13. QED
  BY <1>2, <1>3, <1>5, <1>6, <1>7, <1>8, <1>9, <1>10, <1>11, <1>12 DEF Next

\* So is a power cut, on a log that syncs whatever it acknowledges or serves.
LEMMA PowerCutKeepsPromise ==
    ASSUME MaxEvents = 0, TypeInv, TypeInv', LinesInv, DurableInv, MirrorInv, ErasedInv, PowerCut
    PROVE  [Promise!Next]_<<Stored, target>>
<1>1. up /\ ~up' /\ target' = {}
  BY DEF PowerCut, Stop, Return
<1>2. /\ Swapping => ToSet(Records(file')) \in {ToSet(evs), ToSet(buf)}
      /\ ~Swapping => ToSet(evs) \subseteq ToSet(Records(file'))
      /\ pc # "sync" /\ ~Swapping => ToSet(Records(file')) \subseteq ToSet(evs)
  BY PowerCutHolds
<1>3. QED
  BY <1>1, <1>2, StopKeepsPromise

LEMMA InitPromise ==
    ASSUME Init
    PROVE  Promise!Init
<1>1. up /\ evs = <<>> /\ target = {} /\ ToSet(<<>>) = {}
  BY EmptyFile DEF Init
<1>2. QED
  BY <1>1 DEF Promise!Init

\* The log keeps the promise of the Store interface: an event enters by being
\* sent, and leaves only while a call that is to remove it runs.  It does so
\* when the process dies at any point and a sync, a compaction, a rename or the
\* sync of the directory fails; or when the power is cut at any point and
\* neither sync fails.  Without a cap: the cap removes what nobody asked it to.
THEOREM KeepsPromise ==
    ASSUME MaxEvents = 0, ~MayClear, Faults \cap {"write", "reopen"} = {},
           \/ "power" \notin Crashes
           \/ "process" \notin Crashes /\ Faults \cap {"sync", "dirSync"} = {}
    PROVE  Spec => ImplementsEventStore
<1> DEFINE Inv == TypeInv /\ LinesInv /\ MirrorInv
           Synced == "process" \notin Crashes /\ Faults \cap {"sync", "dirSync"} = {}
           Refines == [Promise!Next]_<<Stored, target>>
<1>1. Spec => []Inv
  <2>1. Spec => []TypeInv /\ []LinesInv /\ []MirrorInv
    BY TypeInvariant, LinesInvariant, MirrorInvariant
  <2>2. QED
    BY <2>1, PTL
<1>2. Init => Promise!Init
  BY InitPromise
<1>3. Inv /\ Inv' /\ [Next]_vars /\ ~PowerCut => Refines
  BY StepsKeepPromise
<1>4. Refines => [Promise!Next]_<<ToSet(IF up THEN evs ELSE Replay(file)), target>>
  BY DEF Stored
<1>5. CASE "power" \notin Crashes
  <2>1. ~PowerCut
    BY <1>5 DEF PowerCut
  <2>2. Inv /\ Inv' /\ [Next]_vars => Refines
    BY <1>3, <2>1
  <2> HIDE DEF Inv, Refines
  <2>3. QED
    BY <1>1, <1>2, <1>4, <2>2, PTL DEF Spec, ImplementsEventStore, Promise!Spec
<1>6. CASE Synced
  <2>1. Spec => []DurableInv /\ []ErasedInv
    BY <1>6, DurableInvariant, ErasedInvariant
  <2>2. Inv /\ Inv' /\ DurableInv /\ ErasedInv /\ PowerCut => Refines
    BY PowerCutKeepsPromise
  <2> HIDE DEF Inv, Refines
  <2>3. Inv /\ Inv' /\ DurableInv /\ ErasedInv /\ [Next]_vars => Refines
    BY <1>3, <2>2
  <2>4. QED
    BY <1>1, <1>2, <1>4, <2>1, <2>3, PTL DEF Spec, ImplementsEventStore, Promise!Spec
<1>7. QED
  BY <1>5, <1>6
=============================================================================

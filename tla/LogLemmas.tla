------------------------------- MODULE LogLemmas -------------------------------
(***************************************************************************)
(* Lemmas on logs: induction on numbers and sequences, folds one element   *)
(* at a time, the elements of a sequence, and what Without leaves.         *)
(***************************************************************************)
EXTENDS Logs, Naturals, WellFoundedInduction, TLAPS

-----------------------------------------------------------------------------
\* Induction, on sets: a set with 0 that is closed under + 1 has every number,
\* one with <<>> that is closed under Append every sequence.

LEMMA Least ==
    ASSUME NEW T \in SUBSET Nat, T # {}
    PROVE  \E n \in T : \A m \in T : n <= m
<1>1. \E n \in T : \A m \in T : ~(<<m, n>> \in OpToRel(<, Nat))
  BY NatLessThanWellFounded, WFMin
<1>2. ASSUME NEW n \in T, NEW m \in T, ~(<<m, n>> \in OpToRel(<, Nat))
      PROVE  n <= m
  BY <1>2 DEF OpToRel
<1>3. QED
  BY <1>1, <1>2

LEMMA NumbersInduction ==
    ASSUME NEW P, 0 \in P, \A n \in Nat : n \in P => n + 1 \in P
    PROVE  \A n \in Nat : n \in P
<1> DEFINE Out == Nat \ P
<1>1. SUFFICES ASSUME Out # {} PROVE FALSE
  OBVIOUS
<1>2. PICK n \in Out : \A m \in Out : n <= m
  BY <1>1, Least
<1>3. n # 0 /\ n - 1 \in Nat /\ n - 1 \notin Out
  BY <1>2
<1>4. QED
  BY <1>3

LEMMA SequencesInduction ==
    ASSUME NEW S, NEW P, <<>> \in P,
           \A s \in Seq(S), e \in S : s \in P => Append(s, e) \in P
    PROVE  \A s \in Seq(S) : s \in P
<1> DEFINE N == {n \in Nat : \A s \in Seq(S) : Len(s) = n => s \in P}
<1>1. 0 \in N
  OBVIOUS
<1>2. ASSUME NEW n \in Nat, n \in N PROVE n + 1 \in N
  <2>1. SUFFICES ASSUME NEW s \in Seq(S), Len(s) = n + 1 PROVE s \in P
    OBVIOUS
  <2> DEFINE t == SubSeq(s, 1, n)
  <2>2. t \in Seq(S) /\ Len(t) = n /\ s[n + 1] \in S
    BY <2>1
  <2>3. s = Append(t, s[n + 1])
    BY <2>1
  <2>4. QED
    BY <1>2, <2>2, <2>3
<1>3. \A n \in Nat : n \in N
  <2> HIDE DEF N
  <2>1. QED BY <1>1, <1>2, NumbersInduction
<1>4. QED
  BY <1>3

-----------------------------------------------------------------------------
\* Folds.  FoldLeft recurs on sets of positions and removes the largest first;
\* a fold of Len(s) steps is a function of the numbers up to it.

LEMMA MaxOfPositions ==
    ASSUME NEW k \in Nat, NEW s \in SUBSET (1 .. k), k \in s
    PROVE  Max(s) = k
<1>1. \A y \in s : k >= y
  OBVIOUS
<1>2. \A x \in s : (\A y \in s : x >= y) => x = k
  OBVIOUS
<1>3. QED
  BY <1>1, <1>2 DEF Max

LEMMA Greatest ==
    ASSUME NEW n \in Nat, NEW T \in SUBSET (0 .. n), T # {}
    PROVE  \E x \in T : \A y \in T : x >= y
<1> DEFINE D == {n - x : x \in T}
<1>1. D \in SUBSET Nat /\ D # {}
  <2>1. \A x \in T : n - x \in Nat
    OBVIOUS
  <2>2. QED
    BY <2>1
<1>2. PICK d \in D : \A m \in D : d <= m
  <2> HIDE DEF D
  <2>1. QED
    BY <1>1, Least
<1>3. PICK x \in T : d = n - x
  BY <1>2
<1>4. \A y \in T : n - x <= n - y
  BY <1>2, <1>3
<1>5. QED
  BY <1>3, <1>4

LEMMA MaxIn ==
    ASSUME NEW n \in Nat, NEW s \in SUBSET (1 .. n), s # {}
    PROVE  Max(s) \in s
<1>1. s \in SUBSET (0 .. n)
  OBVIOUS
<1>2. \E x \in s : \A y \in s : x >= y
  BY <1>1, Greatest
<1>3. QED
  BY <1>2 DEF Max

\* g is the fold over sets of the positions to n, F over the numbers up to it;
\* `step` has the next value for a position and the value so far.
FoldsSets(g, n, A, base, step) ==
    /\ g \in [SUBSET (1 .. n) -> A]
    /\ \A s \in SUBSET (1 .. n) :
           g[s] = IF s = {} THEN base ELSE step[<<Max(s), g[s \ {Max(s)}]>>]

FoldsNumbers(F, n, A, base, step) ==
    /\ F \in [0 .. n -> A]
    /\ F[0] = base
    /\ \A i \in 1 .. n : F[i] = step[<<i, F[i - 1]>>]

LEMMA FoldExists ==
    ASSUME NEW n \in Nat, NEW A, NEW base \in A, NEW step \in [(1 .. n) \X A -> A]
    PROVE  \E g : FoldsSets(g, n, A, base, step)
<1> DEFINE Folds(k, g) ==
               /\ g \in [SUBSET (1 .. k) -> A]
               /\ \A s \in SUBSET (1 .. k) :
                      g[s] = IF s = {} THEN base ELSE step[<<Max(s), g[s \ {Max(s)}]>>]
           P == {k \in Nat : k <= n => \E g : Folds(k, g)}
<1>1. 0 \in P
  <2>1. Folds(0, [s \in SUBSET (1 .. 0) |-> base])
    OBVIOUS
  <2>2. QED
    BY <2>1
<1>2. ASSUME NEW k \in Nat, k \in P, k + 1 <= n
      PROVE  \E g : Folds(k + 1, g)
  <2>1. PICK g : Folds(k, g)
    <3>1. k <= n
      BY <1>2
    <3>2. QED
      BY <1>2, <3>1
  <2> DEFINE h == [s \in SUBSET (1 .. k + 1) |->
                      IF k + 1 \in s THEN step[<<k + 1, g[s \ {k + 1}]>>] ELSE g[s]]
  <2>2. \A s \in SUBSET (1 .. k + 1) : s \ {k + 1} \in SUBSET (1 .. k)
    OBVIOUS
  <2>3. \A s \in SUBSET (1 .. k + 1) : g[s \ {k + 1}] \in A
    BY <2>1, <2>2
  <2>4. h \in [SUBSET (1 .. k + 1) -> A]
    <3>1. SUFFICES ASSUME NEW s \in SUBSET (1 .. k + 1)
                   PROVE  (IF k + 1 \in s THEN step[<<k + 1, g[s \ {k + 1}]>>] ELSE g[s]) \in A
      OBVIOUS
    <3>2. CASE k + 1 \in s
      <4>1. <<k + 1, g[s \ {k + 1}]>> \in (1 .. n) \X A
        BY <1>2, <2>3
      <4>2. QED
        BY <3>2, <4>1
    <3>3. CASE k + 1 \notin s
      <4>1. s \ {k + 1} = s
        BY <3>3
      <4>2. QED
        BY <2>3, <3>3, <4>1
    <3>4. QED
      BY <3>2, <3>3
  <2>5. ASSUME NEW s \in SUBSET (1 .. k + 1)
        PROVE  h[s] = IF s = {} THEN base ELSE step[<<Max(s), h[s \ {Max(s)}]>>]
    <3>1. CASE k + 1 \in s
      <4>1. Max(s) = k + 1
        BY <3>1, MaxOfPositions
      <4>2. h[s \ {k + 1}] = g[s \ {k + 1}]
        BY <2>2
      <4>3. QED
        BY <3>1, <4>1, <4>2
    <3>2. CASE k + 1 \notin s
      <4>1. s \in SUBSET (1 .. k) /\ h[s] = g[s]
        BY <3>2
      <4>2. \A t \in SUBSET (1 .. k) : h[t] = g[t]
        OBVIOUS
      <4>3. s \ {Max(s)} \in SUBSET (1 .. k)
        BY <4>1
      <4>4. QED
        BY <2>1, <4>1, <4>2, <4>3
    <3>3. QED
      BY <3>1, <3>2
  <2>6. QED
    BY <2>4, <2>5
<1>3. \A k \in Nat : k \in P
  <2>1. \A k \in Nat : k \in P => k + 1 \in P
    <3> HIDE DEF Folds
    <3>1. QED
      BY <1>2
  <2> HIDE DEF P
  <2>2. QED
    BY <1>1, <2>1, NumbersInduction
<1>4. PICK g : Folds(n, g)
  <2> HIDE DEF Folds
  <2>1. QED
    BY <1>3
<1>5. QED
  BY <1>4 DEF FoldsSets

\* The fold over the first i positions.
LEMMA FoldSteps ==
    ASSUME NEW n \in Nat, NEW A, NEW base \in A, NEW step \in [(1 .. n) \X A -> A],
           NEW g, FoldsSets(g, n, A, base, step)
    PROVE  FoldsNumbers([i \in 0 .. n |-> g[1 .. i]], n, A, base, step)
<1>0. /\ g \in [SUBSET (1 .. n) -> A]
      /\ \A s \in SUBSET (1 .. n) :
             g[s] = IF s = {} THEN base ELSE step[<<Max(s), g[s \ {Max(s)}]>>]
  BY DEF FoldsSets
<1> DEFINE F == [i \in 0 .. n |-> g[1 .. i]]
<1>1. F \in [0 .. n -> A]
  <2>1. \A i \in 0 .. n : 1 .. i \in SUBSET (1 .. n)
    OBVIOUS
  <2>2. ASSUME NEW i \in 0 .. n PROVE g[1 .. i] \in A
    <3>1. 1 .. i \in SUBSET (1 .. n)
      OBVIOUS
    <3>2. QED
      BY <1>0, <3>1
  <2>3. QED
    BY <2>2
<1>2. F[0] = base
  <2>1. F[0] = g[1 .. 0]
    OBVIOUS
  <2>2. 1 .. 0 = {} /\ {} \in SUBSET (1 .. n)
    OBVIOUS
  <2>3. g[{}] = base
    BY <1>0, <2>2
  <2>4. QED
    BY <2>1, <2>2, <2>3
<1>3. ASSUME NEW i \in 1 .. n PROVE F[i] = step[<<i, F[i - 1]>>]
  <2>1. 1 .. i \in SUBSET (1 .. n) /\ 1 .. i # {} /\ i \in 1 .. i /\ i \in Nat
    OBVIOUS
  <2>2. Max(1 .. i) = i
    BY <2>1, MaxOfPositions
  <2>3. (1 .. i) \ {i} = 1 .. (i - 1) /\ i - 1 \in 0 .. n
    OBVIOUS
  <2>4. QED
    BY <1>0, <2>1, <2>2, <2>3
<1>4. QED
  <2> HIDE DEF F
  <2>1. FoldsNumbers(F, n, A, base, step)
    BY <1>1, <1>2, <1>3 DEF FoldsNumbers
  <2>2. QED
    BY <2>1 DEF F

\* Recursion on sets of positions has one result, and so has recursion on numbers.
LEMMA FoldUnique ==
    ASSUME NEW n \in Nat, NEW g, NEW h, g[{}] = h[{}],
           \A s \in SUBSET (1 .. n) :
               s # {} /\ g[s \ {Max(s)}] = h[s \ {Max(s)}] => g[s] = h[s]
    PROVE  g[1 .. n] = h[1 .. n]
<1> DEFINE P == {k \in Nat : k <= n => \A s \in SUBSET (1 .. k) : g[s] = h[s]}
<1>1. 0 \in P
  <2>1. \A s \in SUBSET (1 .. 0) : s = {}
    OBVIOUS
  <2>2. QED
    BY <2>1
<1>2. ASSUME NEW k \in Nat, k \in P PROVE k + 1 \in P
  <2>1. SUFFICES ASSUME k + 1 <= n, NEW s \in SUBSET (1 .. k + 1) PROVE g[s] = h[s]
    OBVIOUS
  <2>2. \A t \in SUBSET (1 .. k) : g[t] = h[t]
    BY <1>2, <2>1
  <2>3. CASE k + 1 \in s
    <3>1. Max(s) = k + 1
      BY <2>3, MaxOfPositions
    <3>2. s \ {k + 1} \in SUBSET (1 .. k) /\ s \in SUBSET (1 .. n) /\ s # {}
      BY <2>1, <2>3
    <3>3. QED
      BY <2>2, <3>1, <3>2
  <2>4. CASE k + 1 \notin s
    <3>1. s \in SUBSET (1 .. k)
      BY <2>4
    <3>2. QED
      BY <2>2, <3>1
  <2>5. QED
    BY <2>3, <2>4
<1>3. n \in P
  <2> HIDE DEF P
  <2>1. QED
    BY <1>1, <1>2, NumbersInduction
<1>4. QED
  BY <1>3

LEMMA StepsUnique ==
    ASSUME NEW n \in Nat, NEW F, NEW G, F[0] = G[0],
           \A i \in 1 .. n : F[i - 1] = G[i - 1] => F[i] = G[i]
    PROVE  F[n] = G[n]
<1> DEFINE P == {k \in Nat : k <= n => F[k] = G[k]}
<1>1. 0 \in P
  OBVIOUS
<1>2. ASSUME NEW k \in Nat, k \in P PROVE k + 1 \in P
  <2>1. SUFFICES ASSUME k + 1 <= n PROVE F[k + 1] = G[k + 1]
    OBVIOUS
  <2>2. F[k] = G[k] /\ k + 1 \in 1 .. n /\ (k + 1) - 1 = k
    BY <1>2, <2>1
  <2>3. QED
    BY <2>2
<1>3. n \in P
  <2> HIDE DEF P
  <2>1. QED
    BY <1>1, <1>2, NumbersInduction
<1>4. QED
  BY <1>3

-----------------------------------------------------------------------------
\* The elements of a sequence.

LEMMA AppendElements ==
    ASSUME NEW S, NEW s \in Seq(S), NEW x \in S
    PROVE  /\ DOMAIN s = 1 .. Len(s) /\ DOMAIN Append(s, x) = 1 .. Len(s) + 1 /\ Len(s) \in Nat
           /\ Append(s, x)[Len(s) + 1] = x /\ \A i \in 1 .. Len(s) : Append(s, x)[i] = s[i]
<1>1. Append(s, x) \in Seq(S) /\ Len(Append(s, x)) = Len(s) + 1
  OBVIOUS
<1>2. QED
  BY <1>1

LEMMA SetOfAppend ==
    ASSUME NEW S, NEW s \in Seq(S), NEW x \in S
    PROVE  ToSet(Append(s, x)) = ToSet(s) \cup {x}
<1>1. /\ DOMAIN s = 1 .. Len(s) /\ DOMAIN Append(s, x) = 1 .. Len(s) + 1 /\ Len(s) \in Nat
      /\ Append(s, x)[Len(s) + 1] = x /\ \A i \in 1 .. Len(s) : Append(s, x)[i] = s[i]
  BY AppendElements
<1>2. QED
  BY <1>1 DEF ToSet

LEMMA SetOfConcat ==
    ASSUME NEW S, NEW s \in Seq(S), NEW t \in Seq(S)
    PROVE  ToSet(s \o t) = ToSet(s) \cup ToSet(t)
<1> DEFINE u == s \o t
<1>1. /\ DOMAIN s = 1 .. Len(s) /\ DOMAIN t = 1 .. Len(t) /\ DOMAIN u = 1 .. Len(s) + Len(t)
      /\ Len(s) \in Nat /\ Len(t) \in Nat
      /\ \A i \in 1 .. Len(s) : u[i] = s[i]
      /\ \A i \in 1 .. Len(t) : u[Len(s) + i] = t[i]
  OBVIOUS
<1> HIDE DEF u
<1>2. \A i \in 1 .. Len(s) + Len(t) : u[i] \in ToSet(s) \cup ToSet(t)
  <2>1. SUFFICES ASSUME NEW i \in 1 .. Len(s) + Len(t) PROVE u[i] \in ToSet(s) \cup ToSet(t)
    OBVIOUS
  <2>2. CASE i <= Len(s)
    BY <1>1, <2>2 DEF ToSet
  <2>3. CASE ~(i <= Len(s))
    <3>1. i - Len(s) \in 1 .. Len(t) /\ Len(s) + (i - Len(s)) = i
      BY <1>1, <2>3
    <3>2. QED
      BY <1>1, <3>1 DEF ToSet
  <2>4. QED
    BY <2>2, <2>3
<1>3. \A i \in 1 .. Len(s) : s[i] \in ToSet(u)
  <2>1. \A i \in 1 .. Len(s) : i \in 1 .. Len(s) + Len(t)
    BY <1>1
  <2>2. QED
    BY <1>1, <2>1 DEF ToSet
<1>4. \A i \in 1 .. Len(t) : t[i] \in ToSet(u)
  <2>1. \A i \in 1 .. Len(t) : Len(s) + i \in 1 .. Len(s) + Len(t)
    BY <1>1
  <2>2. QED
    BY <1>1, <2>1 DEF ToSet
<1>5. ToSet(u) \subseteq ToSet(s) \cup ToSet(t)
  BY <1>1, <1>2 DEF ToSet
<1>6. ToSet(s) \subseteq ToSet(u) /\ ToSet(t) \subseteq ToSet(u)
  BY <1>1, <1>3, <1>4 DEF ToSet
<1>7. QED
  BY <1>5, <1>6 DEF u

LEMMA SetOfSeq ==
    ASSUME NEW S, NEW s \in Seq(S)
    PROVE  ToSet(s) \subseteq S /\ ToSet(<<>>) = {} /\ (ToSet(s) = {} => s = <<>>)
<1>1. DOMAIN s = 1 .. Len(s) /\ Len(s) \in Nat /\ \A i \in 1 .. Len(s) : s[i] \in S
  OBVIOUS
<1>2. s # <<>> => 1 \in DOMAIN s
  OBVIOUS
<1>3. ToSet(<<>>) = {}
  BY DEF ToSet
<1>4. QED
  BY <1>1, <1>2, <1>3 DEF ToSet

\* Distinct elements stay so when a new one is appended.
LEMMA InjectiveAppend ==
    ASSUME NEW S, NEW s \in Seq(S), NEW x \in S, IsInjective(s), x \notin ToSet(s)
    PROVE  IsInjective(Append(s, x))
<1>1. /\ DOMAIN s = 1 .. Len(s) /\ DOMAIN Append(s, x) = 1 .. Len(s) + 1 /\ Len(s) \in Nat
      /\ Append(s, x)[Len(s) + 1] = x /\ \A i \in 1 .. Len(s) : Append(s, x)[i] = s[i]
  BY AppendElements
<1>2. \A i, j \in 1 .. Len(s) : s[i] = s[j] => i = j
  BY <1>1 DEF IsInjective
<1>3. \A i \in 1 .. Len(s) + 1 : i \in 1 .. Len(s) \/ i = Len(s) + 1
  BY <1>1
<1>4. \A i \in 1 .. Len(s) : s[i] # x
  BY <1>1 DEF ToSet
<1> DEFINE t == Append(s, x)
<1> HIDE DEF t
<1>5. DOMAIN t = 1 .. Len(s) + 1 /\ t[Len(s) + 1] = x /\ \A i \in 1 .. Len(s) : t[i] = s[i]
  BY <1>1 DEF t
<1>6. \A i, j \in 1 .. Len(s) + 1 : t[i] = t[j] => i = j
  BY <1>1, <1>2, <1>3, <1>4, <1>5
<1>7. IsInjective(t)
  BY <1>5, <1>6 DEF IsInjective
<1>8. QED
  BY <1>7 DEF t

LEMMA InjectiveConcat ==
    ASSUME NEW S, NEW s \in Seq(S), NEW t \in Seq(S), IsInjective(s), IsInjective(t),
           ToSet(s) \cap ToSet(t) = {}
    PROVE  IsInjective(s \o t)
<1> DEFINE u == s \o t
<1>1. /\ DOMAIN s = 1 .. Len(s) /\ DOMAIN t = 1 .. Len(t) /\ DOMAIN u = 1 .. Len(s) + Len(t)
      /\ Len(s) \in Nat /\ Len(t) \in Nat
      /\ \A i \in 1 .. Len(s) + Len(t) : u[i] = IF i <= Len(s) THEN s[i] ELSE t[i - Len(s)]
  OBVIOUS
<1> HIDE DEF u
<1>2. \A i, j \in 1 .. Len(s) : s[i] = s[j] => i = j
  BY <1>1 DEF IsInjective
<1>3. \A i, j \in 1 .. Len(t) : t[i] = t[j] => i = j
  BY <1>1 DEF IsInjective
<1>4. \A i \in 1 .. Len(s), j \in 1 .. Len(t) : s[i] # t[j]
  BY <1>1 DEF ToSet
<1>5. ASSUME NEW i \in 1 .. Len(s) + Len(t), NEW j \in 1 .. Len(s) + Len(t), u[i] = u[j]
      PROVE  i = j
  <2>1. /\ (i <= Len(s) => i \in 1 .. Len(s)) /\ (~(i <= Len(s)) => i - Len(s) \in 1 .. Len(t))
        /\ (j <= Len(s) => j \in 1 .. Len(s)) /\ (~(j <= Len(s)) => j - Len(s) \in 1 .. Len(t))
    BY <1>1
  <2>2. CASE i <= Len(s) /\ j <= Len(s)
    BY <1>1, <1>2, <1>5, <2>1, <2>2
  <2>3. CASE ~(i <= Len(s)) /\ ~(j <= Len(s))
    <3>1. i - Len(s) = j - Len(s)
      BY <1>1, <1>3, <1>5, <2>1, <2>3
    <3>2. QED
      BY <1>1, <3>1
  <2>4. CASE i <= Len(s) /\ ~(j <= Len(s))
    BY <1>1, <1>4, <1>5, <2>1, <2>4
  <2>5. CASE ~(i <= Len(s)) /\ j <= Len(s)
    BY <1>1, <1>4, <1>5, <2>1, <2>5
  <2>6. QED
    BY <2>2, <2>3, <2>4, <2>5
<1>6. QED
  BY <1>1, <1>5 DEF IsInjective, u

LEMMA InjectivePrefix ==
    ASSUME NEW S, NEW s \in Seq(S), NEW x \in S, IsInjective(Append(s, x))
    PROVE  IsInjective(s) /\ x \notin ToSet(s)
<1> DEFINE t == Append(s, x)
<1>1. /\ DOMAIN s = 1 .. Len(s) /\ DOMAIN t = 1 .. Len(s) + 1 /\ Len(s) \in Nat
      /\ t[Len(s) + 1] = x /\ \A i \in 1 .. Len(s) : t[i] = s[i]
  BY AppendElements
<1>2. IsInjective(t)
  OBVIOUS
<1> HIDE DEF t
<1>3. \A i, j \in 1 .. Len(s) + 1 : t[i] = t[j] => i = j
  BY <1>1, <1>2 DEF IsInjective
<1>4. \A i \in 1 .. Len(s) : i \in 1 .. Len(s) + 1 /\ i # Len(s) + 1
  BY <1>1
<1>5. \A i, j \in 1 .. Len(s) : s[i] = s[j] => i = j
  BY <1>1, <1>3, <1>4
<1>6. \A i \in 1 .. Len(s) : s[i] # x
  BY <1>1, <1>3, <1>4
<1>7. QED
  BY <1>1, <1>5, <1>6 DEF IsInjective, ToSet

LEMMA InjectiveEmpty == IsInjective(<<>>)
BY DEF IsInjective

-----------------------------------------------------------------------------
\* Without.

\* Without keeps the events that are to stay.
LEMMA WithoutSteps ==
    ASSUME NEW S, NEW es \in Seq(S), NEW gone
    PROVE  \E F \in [0 .. Len(es) -> Seq(S)] :
               /\ F[0] = <<>> /\ F[Len(es)] = Without(es, gone)
               /\ \A i \in 1 .. Len(es) :
                      F[i] = IF es[i] \in gone THEN F[i - 1] ELSE Append(F[i - 1], es[i])
<1> DEFINE n == Len(es)
           A == Seq(S)
           base == <<>>
           Then(a, x) == IF x \in gone THEN a ELSE Append(a, x)
           step == [p \in (1 .. n) \X A |-> Then(p[2], es[p[1]])]
<1>1. n \in Nat /\ DOMAIN es = 1 .. n /\ base \in A
  OBVIOUS
<1>2. \A i \in 1 .. n, a \in A : Then(a, es[i]) \in A
  OBVIOUS
<1>3. step \in [(1 .. n) \X A -> A] /\ \A i \in 1 .. n, a \in A : step[<<i, a>>] = Then(a, es[i])
  <2> HIDE DEF Then, A, n
  <2>1. QED
    BY <1>2
<1> HIDE DEF step, A, n, base, Then
<1>4. PICK g : FoldsSets(g, n, A, base, step)
  BY <1>1, <1>3, FoldExists
<1> DEFINE F == [i \in 0 .. n |-> g[1 .. i]]
<1>5. FoldsNumbers(F, n, A, base, step) /\ F[n] = g[1 .. n]
  <2>1. FoldsNumbers(F, n, A, base, step)
    BY <1>1, <1>3, <1>4, FoldSteps
  <2>2. F[n] = g[1 .. n]
    BY <1>1
  <2>3. QED
    BY <2>1, <2>2
<1> HIDE DEF F
<1> DEFINE Eq(h) == h = [s \in SUBSET (1 .. n) |->
                            IF s = {} THEN base
                            ELSE Then(h[s \ {Max(s)}], es[Max(s)])]
<1>6. Eq(g)
  <2>1. ASSUME NEW s \in SUBSET (1 .. n)
        PROVE  g[s] = IF s = {} THEN base ELSE Then(g[s \ {Max(s)}], es[Max(s)])
    <3>1. CASE s # {}
      <4>1. Max(s) \in 1 .. n /\ s \ {Max(s)} \in SUBSET (1 .. n)
        BY <1>1, <3>1, MaxIn
      <4>2. g[s \ {Max(s)}] \in A
        BY <1>4, <4>1 DEF FoldsSets
      <4>3. QED
        BY <1>3, <1>4, <3>1, <4>1, <4>2 DEF FoldsSets
    <3>2. QED
      BY <1>4, <3>1 DEF FoldsSets
  <2>2. DOMAIN g = SUBSET (1 .. n) /\ g = [s \in DOMAIN g |-> g[s]]
    BY <1>4 DEF FoldsSets
  <2>3. QED
    BY <2>1, <2>2
<1>7. ASSUME NEW h, Eq(h) PROVE h[1 .. n] = F[n]
  <2>1. {} \in SUBSET (1 .. n)
    OBVIOUS
  <2>2. g[{}] = h[{}]
    BY <1>6, <1>7, <2>1
  <2>3. ASSUME NEW s \in SUBSET (1 .. n), s # {}, g[s \ {Max(s)}] = h[s \ {Max(s)}]
        PROVE  g[s] = h[s]
    BY <1>6, <1>7, <2>3
  <2> HIDE DEF Eq
  <2>4. g[1 .. n] = h[1 .. n]
    BY <1>1, <2>2, <2>3, FoldUnique
  <2>5. QED
    BY <1>5, <2>4
<1>8. Without(es, gone) = F[n]
  <2>1. Without(es, gone) = (CHOOSE h : Eq(h))[1 .. n]
    BY <1>1 DEF base, Then, Without, FoldLeft, MapThenFoldSet
  <2>2. Eq(CHOOSE h : Eq(h))
    <3> HIDE DEF Eq
    <3>1. QED
      BY <1>6
  <2> HIDE DEF Eq
  <2>3. QED
    BY <1>7, <2>1, <2>2
<1>9. QED
  <2>1. \A i \in 1 .. n : F[i - 1] \in A
    BY <1>1, <1>5 DEF FoldsNumbers
  <2>2. \A i \in 1 .. n : F[i] = Then(F[i - 1], es[i])
    BY <1>3, <1>5, <2>1 DEF FoldsNumbers
  <2>3. QED
    BY <1>5, <1>8, <2>2 DEF FoldsNumbers, A, n, base, Then

LEMMA WithoutAppend ==
    ASSUME NEW S, NEW es \in Seq(S), NEW x \in S, NEW gone
    PROVE  Without(Append(es, x), gone) = IF x \in gone THEN Without(es, gone) ELSE Append(Without(es, gone), x)
<1> DEFINE n == Len(es)
           t == Append(es, x)
           Then(a, y) == IF y \in gone THEN a ELSE Append(a, y)
<1>1. n \in Nat /\ t \in Seq(S) /\ Len(t) = n + 1 /\ t[n + 1] = x /\ \A i \in 1 .. n : t[i] = es[i]
  OBVIOUS
<1> HIDE DEF Then
<1>2. PICK F : /\ F[0] = <<>> /\ F[n] = Without(es, gone)
               /\ \A i \in 1 .. n : F[i] = Then(F[i - 1], es[i])
  BY WithoutSteps DEF Then
<1>3. PICK G : /\ G[0] = <<>> /\ G[n + 1] = Without(Append(es, x), gone)
               /\ \A i \in 1 .. n + 1 : G[i] = Then(G[i - 1], t[i])
  <2> HIDE DEF t, n
  <2>1. PICK G : /\ G[0] = <<>> /\ G[Len(t)] = Without(t, gone)
                 /\ \A i \in 1 .. Len(t) : G[i] = Then(G[i - 1], t[i])
    BY <1>1, WithoutSteps DEF Then
  <2>2. QED
    BY <1>1, <2>1 DEF t
<1> HIDE DEF t, n
<1>4. ASSUME NEW i \in 1 .. n, F[i - 1] = G[i - 1] PROVE F[i] = G[i]
  <2>1. i \in 1 .. n + 1 /\ t[i] = es[i]
    BY <1>1
  <2>2. F[i] = Then(F[i - 1], es[i]) /\ G[i] = Then(G[i - 1], es[i])
    BY <1>2, <1>3, <2>1
  <2>3. QED
    BY <1>4, <2>2
<1>5. F[n] = G[n]
  <2>1. n \in Nat /\ F[0] = G[0]
    BY <1>1, <1>2, <1>3
  <2>2. \A i \in 1 .. n : F[i - 1] = G[i - 1] => F[i] = G[i]
    BY <1>4
  <2>3. QED
    BY <2>1, <2>2, StepsUnique
<1>6. n + 1 \in 1 .. n + 1 /\ (n + 1) - 1 = n
  BY <1>1
<1>7. QED
  BY <1>1, <1>2, <1>3, <1>5, <1>6 DEF Then

LEMMA WithoutType ==
    ASSUME NEW S, NEW es \in Seq(S), NEW gone
    PROVE  Without(es, gone) \in Seq(S) /\ Without(<<>>, gone) = <<>>
<1>1. Without(es, gone) \in Seq(S)
  <2>1. Len(es) \in 0 .. Len(es)
    OBVIOUS
  <2>2. QED
    BY <2>1, WithoutSteps
<1>2. Without(<<>>, gone) = <<>>
  <2> DEFINE e == <<>>
  <2>1. e \in Seq(S) /\ Len(e) = 0
    OBVIOUS
  <2> HIDE DEF e
  <2>2. ASSUME NEW s \in Seq(S)
        PROVE  \E F : F[0] = <<>> /\ F[Len(s)] = Without(s, gone)
    BY WithoutSteps
  <2>3. \E F : F[0] = <<>> /\ F[Len(e)] = Without(e, gone)
    BY <2>1, <2>2
  <2>4. QED
    BY <2>1, <2>3 DEF e
<1>3. QED
  BY <1>1, <1>2

\* What Without leaves is what is not to go, in as many copies as before.
LEMMA WithoutKeeps ==
    ASSUME NEW S, NEW es \in Seq(S), NEW gone
    PROVE  /\ ToSet(Without(es, gone)) = ToSet(es) \ gone
           /\ Len(Without(es, gone)) <= Len(es)
           /\ Len(Without(es, gone)) = Len(es) => Without(es, gone) = es
           /\ IsInjective(es) => IsInjective(Without(es, gone))
<1> DEFINE W(s) == Without(s, gone)
           Keeps(s) == /\ ToSet(W(s)) = ToSet(s) \ gone
                       /\ Len(W(s)) <= Len(s)
                       /\ Len(W(s)) = Len(s) => W(s) = s
                       /\ IsInjective(s) => IsInjective(W(s))
           P == {s \in Seq(S) : Keeps(s)}
<1>1. <<>> \in P
  <2>1. W(<<>>) = <<>> /\ <<>> \in Seq(S) /\ Len(<<>>) = 0 /\ ToSet(<<>>) = {}
    BY WithoutType, SetOfSeq
  <2>2. Keeps(<<>>)
    BY <2>1
  <2>3. QED
    BY <2>1, <2>2
<1>2. ASSUME NEW s \in Seq(S), NEW x \in S, s \in P PROVE Append(s, x) \in P
  <2> DEFINE t == Append(s, x)
  <2>1. t \in Seq(S) /\ Len(t) = Len(s) + 1 /\ Len(s) \in Nat
    OBVIOUS
  <2>2. W(s) \in Seq(S) /\ Keeps(s)
    BY <1>2, WithoutType
  <2>3. W(t) = IF x \in gone THEN W(s) ELSE Append(W(s), x)
    BY WithoutAppend
  <2>4. ToSet(t) = ToSet(s) \cup {x} /\ ToSet(Append(W(s), x)) = ToSet(W(s)) \cup {x}
    BY <2>2, SetOfAppend
  <2>5. IsInjective(t) => IsInjective(s) /\ x \notin ToSet(s)
    BY InjectivePrefix
  <2>6. Len(Append(W(s), x)) = Len(W(s)) + 1 /\ Len(W(s)) \in Nat
    BY <2>2
  <2>7. IsInjective(W(s)) /\ x \notin ToSet(W(s)) => IsInjective(Append(W(s), x))
    BY <2>2, InjectiveAppend
  <2> HIDE DEF t, W
  <2>8. CASE x \in gone
    <3>1. W(t) = W(s)
      BY <2>3, <2>8
    <3>2. Keeps(t)
      BY <2>1, <2>2, <2>4, <2>5, <2>6, <2>8, <3>1
    <3>3. QED
      BY <2>1, <3>2 DEF t
  <2>9. CASE x \notin gone
    <3>1. W(t) = Append(W(s), x)
      BY <2>3, <2>9
    <3>2. Len(W(t)) = Len(t) => W(t) = t
      BY <2>1, <2>2, <2>6, <3>1 DEF t
    <3>3. IsInjective(t) => IsInjective(W(t))
      BY <2>2, <2>5, <2>7, <3>1
    <3>4. ToSet(W(t)) = ToSet(t) \ gone
      BY <2>2, <2>4, <2>9, <3>1
    <3>5. Len(W(t)) <= Len(t)
      BY <2>1, <2>2, <2>6, <3>1
    <3>6. QED
      BY <2>1, <3>2, <3>3, <3>4, <3>5 DEF t
  <2>10. QED
    BY <2>8, <2>9
<1>3. es \in P
  <2> HIDE DEF P
  <2>1. QED
    BY <1>1, <1>2, SequencesInduction
<1>4. QED
  BY <1>3
=============================================================================

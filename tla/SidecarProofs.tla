---------------------------- MODULE SidecarProofs ----------------------------
(***************************************************************************)
(* The stores beside the event log: what a call that returned has said is  *)
(* what the file holds, and every report is on a board.  For every number  *)
(* of keys, boards, names and texts.                                       *)
(***************************************************************************)
EXTENDS Sidecar, TLAPS

TypeInv ==
    /\ store \in Stores
    /\ file \in Contents \cup {Torn}
    /\ mem \in [Processes -> Contents \cup {Down}]
    /\ Keys \subseteq DOMAIN told
    /\ unsaved \in [Processes -> SUBSET Keys] /\ stale \in [Processes -> SUBSET Keys]
    /\ file = Torn => lost = Keys /\ \A p \in Processes : ~Up(p)
    /\ store \in RollsBack => unsaved = [p \in Processes |-> {}]
    /\ \A p \in Processes : ~Up(p) => unsaved[p] = {}
    /\ store \in {"links", "defined"} => ~Up(Editor)

Other(p) == IF p = Server THEN Editor ELSE Server

\* What a process has not written, and others have not written since it had the file, is what
\* the file holds.
MemFile ==
    file # Torn => \A p \in Processes : Up(p) =>
        \A k \in Keys \ (stale[p] \cup unsaved[p]) : At(mem[p], k) = At(Adopted(file), k)

\* What was said last of a key is what a process holds, if it has seen the last word.
MemTrue ==
    \A p \in Processes : Up(p) =>
        \A k \in Keys \ (lost \cup stale[p] \cup unsaved[Other(p)]) :
            told[k] # Unsaid => At(mem[p], k) = told[k]

\* An insight once marked is in the file, until another process overwrites it.
Marks ==
    store = "acted" =>
        /\ \A p \in Processes : Up(p) =>
               /\ \A k \in Known(p) : mem[p].items[k] = k
               /\ \A k \in unsaved[p] : k \in Known(p)
               /\ \A k \in Known(p) \ (lost \cup unsaved[p]) : At(file, k) = k
        /\ file # Torn => \A k \in DOMAIN file.items : file.items[k] = k

Good(c) ==
    /\ Default \in DOMAIN c.boards
    /\ \A k \in DOMAIN c.items : c.items[k] \in DOMAIN c.boards
    /\ \A a, b \in DOMAIN c.boards : c.boards[a] = c.boards[b] => a = b

\* Until somebody writes the file it may be one from before there were boards.
BoardsInv ==
    store = "insights" =>
        /\ file # Torn
        /\ Good(file) \/ (DOMAIN file.boards = {} /\ \A k \in Keys : told[k] = Unsaid)
        /\ \A p \in Processes : Up(p) => Good(mem[p])

TellsInv == TypeInv /\ MemFile /\ MemTrue /\ Marks /\ BoardsInv /\ ToldTrue

Asked == [text : Texts, on : BOOLEAN]

\* A SetActive is of a survey, and writes a survey back.
AskedInv ==
    store = "surveys" =>
        /\ file # Torn /\ \A k \in DOMAIN file.items : file.items[k] \in Asked
        /\ \A p \in Processes : Up(p) => \A k \in Known(p) : mem[p].items[k] \in Asked

EditInv == editing # Unsaid => store = "surveys" /\ editing \in [by : Processes, key : Keys, item : Asked]

IInv == TellsInv /\ AskedInv /\ EditInv

\* What a call is about to make of a store: what it says of the keys ks, and the others as
\* they were.
Means(p, c, ks, says) ==
    /\ c \in Contents /\ ks \in SUBSET Keys
    /\ DOMAIN says = ks
    /\ \A k \in ks : At(c, k) = says[k]
    /\ \A k \in Keys \ ks : At(c, k) = At(mem[p], k)
    /\ store = "insights" => Good(c)
    /\ store = "acted" =>
           /\ DOMAIN c.items = Known(p) \cup ks
           /\ \A k \in DOMAIN c.items : c.items[k] = k

-----------------------------------------------------------------------------
\* Functions, the boards and things of a store among them.

\* What a function put over another is.
LEMMA Merged ==
    ASSUME NEW f, NEW g
    PROVE  /\ DOMAIN Over(f, g) = DOMAIN f \cup DOMAIN g
           /\ \A x \in DOMAIN f : Over(f, g)[x] = f[x]
           /\ \A x \in DOMAIN g \ DOMAIN f : Over(f, g)[x] = g[x]
<1>1. QED BY DEF Over

\* A function of one thing.
LEMMA OneThing ==
    ASSUME NEW k, NEW item
    PROVE  /\ DOMAIN One(k, item) = {k}
           /\ One(k, item)[k] = item
<1>1. QED BY DEF One

\* What Less and a deleted board leave.
LEMMA Restricted ==
    ASSUME NEW f, NEW ks
    PROVE  /\ DOMAIN RestrictDomain(f, LAMBDA k : k \notin ks) = DOMAIN f \ ks
           /\ \A x \in DOMAIN f \ ks : RestrictDomain(f, LAMBDA k : k \notin ks)[x] = f[x]
<1>1. QED BY DEF RestrictDomain, Restrict

\* What a store with a function of boards and one of things is.
LEMMA ContentsParts ==
    ASSUME NEW c \in Contents
    PROVE  /\ DOMAIN c.boards \in SUBSET Boards
           /\ c.boards \in [DOMAIN c.boards -> Names]
           /\ DOMAIN c.items \in SUBSET Keys
           /\ c.items \in [DOMAIN c.items -> Items]
           /\ c = [boards |-> c.boards, items |-> c.items]
           /\ c # Down /\ c # Torn
<1>1. PICK bs \in SUBSET Boards, ks \in SUBSET Keys :
          c \in [boards : [bs -> Names], items : [ks -> Items]]
      BY DEF Contents
<1>2. c.boards \in [bs -> Names] /\ c.items \in [ks -> Items] /\ c = [boards |-> c.boards, items |-> c.items]
      BY <1>1
<1>3. DOMAIN c.boards = bs /\ DOMAIN c.items = ks
      BY <1>2
<1>4. c # Down /\ c # Torn
      BY NilAssumption
<1>5. QED BY <1>2, <1>3, <1>4

\* A store is put together from a function of boards and one of things.
LEMMA ContentsMade ==
    ASSUME NEW bs \in SUBSET Boards, NEW f \in [bs -> Names],
           NEW ks \in SUBSET Keys, NEW g \in [ks -> Items]
    PROVE  [boards |-> f, items |-> g] \in Contents
<1>1. f \in UNION {[b -> Names] : b \in SUBSET Boards}
      OBVIOUS
<1>2. g \in UNION {[k -> Items] : k \in SUBSET Keys}
      OBVIOUS
<1>3. QED BY <1>1, <1>2 DEF Contents

-----------------------------------------------------------------------------
\* How a call ends.

\* A store whose boards are good is adopted as it is.
LEMMA AdoptedAsIs ==
    ASSUME NEW c \in Contents, store = "insights" => Good(c)
    PROVE  Adopted(c) = c
<1>1. CASE store # "insights"
      BY <1>1 DEF Adopted
<1>2. CASE store = "insights"
  <2> DEFINE boards == Over(c.boards, One(Default, DefaultName))
             items  == [k \in DOMAIN c.items |-> IF c.items[k] \in DOMAIN boards THEN c.items[k] ELSE Default]
  <2>1. Default \in DOMAIN c.boards /\ \A k \in DOMAIN c.items : c.items[k] \in DOMAIN c.boards
        BY <1>2 DEF Good
  <2>2. boards = c.boards
    <3>1. DOMAIN c.boards \cup DOMAIN One(Default, DefaultName) = DOMAIN c.boards
      <4>1. DOMAIN One(Default, DefaultName) = {Default}
            BY OneThing
      <4>2. QED BY <4>1, <2>1
    <3>2. boards = [b \in DOMAIN c.boards |-> c.boards[b]]
      <4> DEFINE both == DOMAIN c.boards \cup DOMAIN One(Default, DefaultName)
                 over(D) == [b \in D |-> IF b \in DOMAIN c.boards THEN c.boards[b] ELSE One(Default, DefaultName)[b]]
      <4>1. boards = over(both)
            BY DEF Over
      <4>2. over(both) = over(DOMAIN c.boards)
            BY <3>1
      <4>3. over(DOMAIN c.boards) = [b \in DOMAIN c.boards |-> c.boards[b]]
            OBVIOUS
      <4>4. QED BY <4>1, <4>2, <4>3
    <3>3. c.boards = [b \in DOMAIN c.boards |-> c.boards[b]]
          BY ContentsParts
    <3>4. QED BY <3>2, <3>3
  <2>3. items = c.items
    <3>1. c.items = [k \in DOMAIN c.items |-> c.items[k]]
          BY ContentsParts
    <3>2. QED BY <3>1, <2>1, <2>2
  <2>4. c = [boards |-> c.boards, items |-> c.items]
        BY ContentsParts
  <2>5. Adopted(c) = [boards |-> boards, items |-> items]
        BY <1>2 DEF Adopted
  <2>6. QED BY <2>2, <2>3, <2>4, <2>5
<1>3. QED BY <1>1, <1>2

\* There are two processes.
LEMMA Two ==
    ASSUME NEW p \in Processes, NEW q \in Processes, q # p
    PROVE  q = Other(p) /\ Other(q) = p /\ Other(p) \in Processes /\ Other(p) # p
<1>1. QED BY SidecarAssumption DEF Processes, Other

\* A call is made of a process that runs, whose store is well formed.
LEMMA Running ==
    ASSUME TypeInv, NEW p \in Processes, Up(p)
    PROVE  /\ mem[p] \in Contents
           /\ file # Torn
           /\ DOMAIN mem = Processes
           /\ store \in {"links", "defined"} => p = Server /\ ~Up(Other(p))
<1>1. mem[p] \in Contents /\ DOMAIN mem = Processes
      BY DEF TypeInv, Up
<1>2. file # Torn
      BY DEF TypeInv
<1>3. store \in {"links", "defined"} => ~Up(Editor)
      BY DEF TypeInv
<1>4. store \in {"links", "defined"} => p = Server /\ Other(p) = Editor
      BY <1>3 DEF Processes, Other
<1>5. QED BY <1>1, <1>2, <1>3, <1>4

\* A call whose write succeeds.
LEMMA SavedKeeps ==
    ASSUME TellsInv, NEW p \in Processes, Up(p), UNCHANGED store,
           NEW c, NEW ks, NEW says, Means(p, c, ks, says), Saved(p, c, ks, says)
    PROVE  TellsInv'
<1>1. /\ mem[p] \in Contents /\ file # Torn /\ DOMAIN mem = Processes
      /\ store \in {"links", "defined"} => p = Server /\ ~Up(Other(p))
      /\ c \in Contents /\ c # Down /\ c # Torn /\ ks \in SUBSET Keys
      /\ unsaved \in [Processes -> SUBSET Keys] /\ stale \in [Processes -> SUBSET Keys]
      BY Running, ContentsParts DEF TellsInv, TypeInv, Means
<1>2. /\ file' = c /\ mem' = [mem EXCEPT ![p] = c] /\ told' = Over(says, told)
      /\ unsaved' = [unsaved EXCEPT ![p] = {}]
      /\ lost' = (lost \cup stale[p]) \ ks
      /\ stale' = [q \in Processes |-> IF q = p THEN {} ELSE stale[q] \cup ks \cup stale[p] \cup unsaved[p]]
      BY DEF Saved
<1>3. /\ mem'[p] = c /\ unsaved'[p] = {} /\ stale'[p] = {}
      /\ \A q \in Processes : q # p =>
             /\ mem'[q] = mem[q] /\ unsaved'[q] = unsaved[q]
             /\ stale'[q] = stale[q] \cup ks \cup stale[p] \cup unsaved[p]
      BY <1>1, <1>2
<1>4. /\ (\A k \in ks : told'[k] = At(c, k))
      /\ (\A k \in Keys \ ks : told'[k] = told[k])
      /\ Keys \subseteq DOMAIN told'
  <2>1. /\ DOMAIN Over(says, told) = DOMAIN says \cup DOMAIN told
        /\ \A k \in DOMAIN says : Over(says, told)[k] = says[k]
        /\ \A k \in DOMAIN told \ DOMAIN says : Over(says, told)[k] = told[k]
        BY Merged
  <2>2. Keys \subseteq DOMAIN told /\ DOMAIN says = ks /\ \A k \in ks : At(c, k) = says[k]
        BY DEF Means, TellsInv, TypeInv
  <2>3. QED BY <1>1, <1>2, <2>1, <2>2
<1>5. /\ Adopted(c) = c
      /\ Adopted(file)' = c
  <2>1. Adopted(c) = c
        BY AdoptedAsIs, <1>1 DEF Means
  <2>2. Adopted(file)' = Adopted(c)
        BY <1>2 DEF Adopted
  <2>3. QED BY <2>1, <2>2
<1>6. TypeInv'
  <2>1. Keys \subseteq DOMAIN told'
        BY <1>4
  <2>2. mem' \in [Processes -> Contents \cup {Down}]
        BY <1>1, <1>2 DEF TellsInv, TypeInv
  <2>3. unsaved' \in [Processes -> SUBSET Keys] /\ stale' \in [Processes -> SUBSET Keys]
        BY <1>1, <1>2
  <2>4. store' \in RollsBack => unsaved' = [q \in Processes |-> {}]
        BY <1>1, <1>2 DEF TellsInv, TypeInv
  <2>5. \A q \in Processes : ~Up(q)' => unsaved'[q] = {}
        BY <1>1, <1>3 DEF TellsInv, TypeInv, Up
  <2>6. store' \in {"links", "defined"} => ~Up(Editor)'
        BY <1>1, <1>3, SidecarAssumption DEF TellsInv, TypeInv, Up, Processes
  <2>7. QED BY <1>1, <1>2, <2>1, <2>2, <2>3, <2>4, <2>5, <2>6 DEF TellsInv, TypeInv
<1>7. MemFile'
  <2> SUFFICES ASSUME NEW q \in Processes, Up(q)', NEW k \in Keys, k \notin stale'[q] \cup unsaved'[q]
               PROVE  At(mem'[q], k) = At(c, k)
      BY <1>5 DEF MemFile
  <2>1. CASE q = p
        BY <2>1, <1>3
  <2>2. CASE q # p
    <3>1. k \notin ks /\ k \notin stale[p] \cup unsaved[p] /\ k \notin stale[q] \cup unsaved[q] /\ Up(q)
          BY <2>2, <1>3 DEF Up
    <3>2. At(c, k) = At(mem[p], k)
          BY <3>1 DEF Means
    <3>3. At(mem[p], k) = At(Adopted(file), k) /\ At(mem[q], k) = At(Adopted(file), k)
          BY <3>1, <1>1 DEF TellsInv, MemFile
    <3>4. QED BY <3>2, <3>3, <2>2, <1>3
  <2>3. QED BY <2>1, <2>2
<1>8. MemTrue'
  <2> SUFFICES ASSUME NEW q \in Processes, Up(q)', NEW k \in Keys,
                      k \notin lost' \cup stale'[q] \cup unsaved'[Other(q)], told'[k] # Unsaid
               PROVE  At(mem'[q], k) = told'[k]
      BY DEF MemTrue
  <2>1. CASE q = p
    <3>1. CASE k \in ks
          BY <3>1, <2>1, <1>3, <1>4
    <3>2. CASE k \notin ks
      <4>1. Other(p) \in Processes /\ Other(p) # p
            BY SidecarAssumption DEF Processes, Other
      <4>2. k \notin lost \cup stale[p] \cup unsaved[Other(p)]
            BY <3>2, <2>1, <4>1, <1>2, <1>3
      <4>3. At(mem[p], k) = told[k]
            BY <4>2, <3>2, <1>4 DEF TellsInv, MemTrue
      <4>4. At(c, k) = At(mem[p], k)
            BY <3>2 DEF Means
      <4>5. QED BY <4>3, <4>4, <3>2, <2>1, <1>3, <1>4
    <3>3. QED BY <3>1, <3>2
  <2>2. CASE q # p
    <3>1. Other(q) = p
          BY <2>2, Two
    <3>2. k \notin ks /\ k \notin lost \cup stale[q] \cup unsaved[Other(q)] /\ Up(q)
          BY <2>2, <3>1, <1>2, <1>3 DEF Up
    <3>3. At(mem[q], k) = told[k]
          BY <3>2, <1>4 DEF TellsInv, MemTrue
    <3>4. QED BY <3>3, <3>2, <2>2, <1>3, <1>4
  <2>3. QED BY <2>1, <2>2
<1>9. Marks'
  <2> SUFFICES ASSUME store = "acted"
               PROVE  Marks'
      BY DEF Marks
  <2>1. /\ DOMAIN c.items = Known(p) \cup ks
        /\ \A k \in DOMAIN c.items : c.items[k] = k
        BY DEF Means
  <2>2. \A k \in DOMAIN c.items : At(c, k) = k
        BY <2>1 DEF At
  <2>3. \A q \in Processes : Up(q)' =>
            /\ \A k \in DOMAIN mem'[q].items : mem'[q].items[k] = k
            /\ \A k \in unsaved'[q] : k \in DOMAIN mem'[q].items
            /\ \A k \in DOMAIN mem'[q].items \ (lost' \cup unsaved'[q]) : At(c, k) = k
    <3> SUFFICES ASSUME NEW q \in Processes, Up(q)'
                 PROVE  /\ \A k \in DOMAIN mem'[q].items : mem'[q].items[k] = k
                        /\ \A k \in unsaved'[q] : k \in DOMAIN mem'[q].items
                        /\ \A k \in DOMAIN mem'[q].items \ (lost' \cup unsaved'[q]) : At(c, k) = k
        OBVIOUS
    <3>1. CASE q = p
          BY <3>1, <2>1, <2>2, <1>3
    <3>2. CASE q # p
      <4>1. Up(q) /\ mem'[q] = mem[q] /\ unsaved'[q] = unsaved[q]
            BY <3>2, <1>3 DEF Up
      <4>2. /\ \A k \in DOMAIN mem[q].items : mem[q].items[k] = k
            /\ \A k \in unsaved[q] : k \in DOMAIN mem[q].items
            /\ \A k \in DOMAIN mem[q].items \ (lost \cup unsaved[q]) : At(file, k) = k
            BY <4>1 DEF TellsInv, Marks, Known
      <4>3. ASSUME NEW k \in DOMAIN mem[q].items, k \notin lost' \cup unsaved[q]
            PROVE  At(c, k) = k
        <5>1. CASE k \in DOMAIN c.items
              BY <5>1, <2>2
        <5>2. CASE k \notin DOMAIN c.items
          <6>1. k \notin ks /\ k \notin Known(p) /\ k \in Keys
                BY <5>2, <2>1, <4>1, <1>1, ContentsParts DEF Up, TellsInv, TypeInv
          <6>2. k \notin lost \cup stale[p] /\ k \notin unsaved[p]
                BY <6>1, <4>3, <1>2 DEF TellsInv, Marks
          <6>3. At(file, k) = k
                BY <6>2, <4>3, <4>2
          <6>4. At(Adopted(file), k) = At(file, k)
                BY DEF Adopted
          <6>5. At(mem[p], k) = At(Adopted(file), k)
                BY <6>1, <6>2, <1>1 DEF TellsInv, MemFile
          <6>6. At(c, k) = At(mem[p], k)
                BY <6>1 DEF Means
          <6>7. QED BY <6>3, <6>4, <6>5, <6>6
        <5>3. QED BY <5>1, <5>2
      <4>4. QED BY <4>1, <4>2, <4>3
    <3>3. QED BY <3>1, <3>2
  <2>4. QED BY <2>1, <2>3, <1>2 DEF Marks, Known
<1>10. BoardsInv'
  <2> SUFFICES ASSUME store = "insights"
               PROVE  BoardsInv'
      BY DEF BoardsInv
  <2>1. Good(c)
        BY DEF Means
  <2>2. \A q \in Processes : Up(q)' => Good(mem'[q])
        BY <2>1, <1>3 DEF TellsInv, BoardsInv, Up
  <2>3. QED BY <2>1, <2>2, <1>1, <1>2 DEF BoardsInv, Good
<1>11. ToldTrue'
  <2> SUFFICES ASSUME NEW k \in Keys, k \notin lost' \cup unsaved'[Server] \cup unsaved'[Editor], told'[k] # Unsaid
               PROVE  At(c, k) = told'[k]
      BY <1>2 DEF ToldTrue
  <2>1. CASE k \in ks
        BY <2>1, <1>4
  <2>2. CASE k \notin ks
    <3>1. Other(p) \in Processes /\ Other(p) # p
          BY SidecarAssumption DEF Processes, Other
    <3>2. k \notin lost \cup stale[p] /\ k \notin unsaved'[Other(p)]
          BY <2>2, <1>2 DEF Other
    <3>3. k \notin unsaved[Other(p)]
          BY <3>1, <3>2, <1>3
    <3>4. At(mem[p], k) = told[k]
          BY <3>2, <3>3, <2>2, <1>4 DEF TellsInv, MemTrue
    <3>5. At(c, k) = At(mem[p], k)
          BY <2>2 DEF Means
    <3>6. QED BY <3>4, <3>5, <2>2, <1>4
  <2>3. QED BY <2>1, <2>2
<1>12. QED BY <1>6, <1>7, <1>8, <1>9, <1>10, <1>11 DEF TellsInv

\* A step that leaves alone what the invariant is about.
LEMMA Untouched ==
    ASSUME TellsInv, UNCHANGED <<store, file, mem, ghosts>>
    PROVE  TellsInv'
<1> USE DEF ghosts
<1>1. TypeInv' /\ MemTrue' /\ ToldTrue'
      BY DEF TellsInv, TypeInv, MemTrue, ToldTrue, Up
<1>2. MemFile'
      BY DEF TellsInv, MemFile, Up, Adopted
<1>3. Marks' /\ BoardsInv'
      BY DEF TellsInv, Marks, BoardsInv, Good, Known, Up
<1>4. QED BY <1>1, <1>2, <1>3 DEF TellsInv

\* A call whose write fails, in a store that keeps the change in memory.
LEMMA FailsKeeps ==
    ASSUME TellsInv, NEW p \in Processes, Up(p), UNCHANGED store,
           NEW c, NEW ks, NEW says, Means(p, c, ks, says), Fails(p, c, ks, says)
    PROVE  TellsInv'
<1>1. CASE store \in RollsBack
      BY <1>1, Untouched DEF Fails
<1>2. CASE store \notin RollsBack
  <2> DEFINE word == [k \in ks |-> IF store = "links" /\ says[k] = Gone THEN Gone ELSE Unsaid]
  <2>1. /\ mem[p] \in Contents /\ file # Torn /\ DOMAIN mem = Processes
        /\ c \in Contents /\ c # Down /\ ks \in SUBSET Keys
        /\ unsaved \in [Processes -> SUBSET Keys]
        BY Running, ContentsParts DEF TellsInv, TypeInv, Means
  <2>2. /\ UNCHANGED <<file, stale, lost>>
        /\ mem' = [mem EXCEPT ![p] = c] /\ unsaved' = [unsaved EXCEPT ![p] = @ \cup ks]
        /\ told' = Over(word, told)
        BY <1>2 DEF Fails
  <2>3. /\ mem'[p] = c /\ unsaved'[p] = unsaved[p] \cup ks
        /\ \A q \in Processes : q # p => mem'[q] = mem[q] /\ unsaved'[q] = unsaved[q]
        BY <2>1, <2>2
  <2>4. /\ \A k \in ks : told'[k] # Unsaid => told'[k] = At(c, k)
        /\ \A k \in Keys \ ks : told'[k] = told[k]
        /\ Keys \subseteq DOMAIN told'
    <3>1. /\ DOMAIN Over(word, told) = DOMAIN word \cup DOMAIN told
          /\ \A k \in DOMAIN word : Over(word, told)[k] = word[k]
          /\ \A k \in DOMAIN told \ DOMAIN word : Over(word, told)[k] = told[k]
          BY Merged
    <3>2. Keys \subseteq DOMAIN told /\ \A k \in ks : At(c, k) = says[k]
          BY DEF Means, TellsInv, TypeInv
    <3>3. QED BY <2>1, <2>2, <3>1, <3>2
  <2>5. Adopted(file)' = Adopted(file)
        BY <2>2 DEF Adopted
  <2> HIDE DEF word
  <2>6. TypeInv'
    <3>1. mem' \in [Processes -> Contents \cup {Down}]
          BY <2>1, <2>2 DEF TellsInv, TypeInv
    <3>2. unsaved' \in [Processes -> SUBSET Keys]
          BY <2>1, <2>2
    <3>3. \A q \in Processes : ~Up(q)' => ~Up(q) /\ unsaved'[q] = unsaved[q]
          BY <2>1, <2>3 DEF Up
    <3>4. store' \in {"links", "defined"} => ~Up(Editor)'
          BY <2>1, <2>3, SidecarAssumption DEF TellsInv, TypeInv, Up, Processes
    <3>5. QED BY <1>2, <2>1, <2>2, <2>4, <3>1, <3>2, <3>3, <3>4 DEF TellsInv, TypeInv
  <2>7. MemFile'
    <3> SUFFICES ASSUME NEW q \in Processes, Up(q)', NEW k \in Keys, k \notin stale'[q] \cup unsaved'[q]
                 PROVE  At(mem'[q], k) = At(Adopted(file), k)
        BY <2>5 DEF MemFile
    <3>1. CASE q = p
      <4>1. k \notin ks /\ k \notin stale[p] \cup unsaved[p]
            BY <3>1, <2>2, <2>3
      <4>2. At(c, k) = At(mem[p], k)
            BY <4>1 DEF Means
      <4>3. At(mem[p], k) = At(Adopted(file), k)
            BY <4>1, <2>1 DEF TellsInv, MemFile
      <4>4. QED BY <4>2, <4>3, <3>1, <2>3
    <3>2. CASE q # p
          BY <3>2, <2>1, <2>2, <2>3 DEF TellsInv, MemFile, Up
    <3>3. QED BY <3>1, <3>2
  <2>8. MemTrue'
    <3> SUFFICES ASSUME NEW q \in Processes, Up(q)', NEW k \in Keys,
                        k \notin lost' \cup stale'[q] \cup unsaved'[Other(q)], told'[k] # Unsaid
                 PROVE  At(mem'[q], k) = told'[k]
        BY DEF MemTrue
    <3>1. CASE q = p
      <4>1. CASE k \in ks
            BY <4>1, <3>1, <2>3, <2>4
      <4>2. CASE k \notin ks
        <5>1. Other(p) \in Processes /\ Other(p) # p
              BY SidecarAssumption DEF Processes, Other
        <5>2. k \notin lost \cup stale[p] \cup unsaved[Other(p)]
              BY <3>1, <5>1, <2>2, <2>3
        <5>3. At(mem[p], k) = told[k]
              BY <5>2, <4>2, <2>4 DEF TellsInv, MemTrue
        <5>4. At(c, k) = At(mem[p], k)
              BY <4>2 DEF Means
        <5>5. QED BY <5>3, <5>4, <4>2, <3>1, <2>3, <2>4
      <4>3. QED BY <4>1, <4>2
    <3>2. CASE q # p
      <4>1. Other(q) = p
            BY <3>2, Two
      <4>2. k \notin ks /\ k \notin lost \cup stale[q] \cup unsaved[Other(q)] /\ Up(q)
            BY <3>2, <4>1, <2>2, <2>3 DEF Up
      <4>3. At(mem[q], k) = told[k]
            BY <4>2, <2>4 DEF TellsInv, MemTrue
      <4>4. QED BY <4>3, <4>2, <3>2, <2>3, <2>4
    <3>3. QED BY <3>1, <3>2
  <2>9. Marks'
    <3> SUFFICES ASSUME store = "acted"
                 PROVE  Marks'
        BY DEF Marks
    <3>1. /\ DOMAIN c.items = Known(p) \cup ks
          /\ \A k \in DOMAIN c.items : c.items[k] = k
          BY DEF Means
    <3>2. \A q \in Processes : Up(q)' =>
              /\ \A k \in DOMAIN mem'[q].items : mem'[q].items[k] = k
              /\ \A k \in unsaved'[q] : k \in DOMAIN mem'[q].items
              /\ \A k \in DOMAIN mem'[q].items \ (lost' \cup unsaved'[q]) : At(file, k) = k
      <4> SUFFICES ASSUME NEW q \in Processes, Up(q)'
                   PROVE  /\ \A k \in DOMAIN mem'[q].items : mem'[q].items[k] = k
                          /\ \A k \in unsaved'[q] : k \in DOMAIN mem'[q].items
                          /\ \A k \in DOMAIN mem'[q].items \ (lost' \cup unsaved'[q]) : At(file, k) = k
          OBVIOUS
      <4>1. CASE q = p
            BY <4>1, <3>1, <2>2, <2>3 DEF TellsInv, Marks, Known
      <4>2. CASE q # p
            BY <4>2, <2>2, <2>3 DEF TellsInv, Marks, Known, Up
      <4>3. QED BY <4>1, <4>2
    <3>3. QED BY <3>2, <2>2 DEF TellsInv, Marks, Known
  <2>10. BoardsInv'
        BY <1>2 DEF RollsBack, BoardsInv
  <2>11. ToldTrue'
    <3> SUFFICES ASSUME NEW k \in Keys, k \notin lost' \cup unsaved'[Server] \cup unsaved'[Editor], told'[k] # Unsaid
                 PROVE  At(file, k) = told'[k]
        BY <2>2 DEF ToldTrue
    <3>1. k \notin ks /\ k \notin lost \cup unsaved[Server] \cup unsaved[Editor]
          BY <2>1, <2>2, <2>3 DEF Processes
    <3>2. QED BY <3>1, <2>1, <2>4 DEF TellsInv, ToldTrue
  <2>12. QED BY <2>6, <2>7, <2>8, <2>9, <2>10, <2>11 DEF TellsInv
<1>3. QED BY <1>1, <1>2

\* A process that ends in the middle of a call, the file written.
LEMMA EndsKeeps ==
    ASSUME TellsInv, NEW p \in Processes, Up(p), UNCHANGED store,
           NEW c, NEW ks, NEW says, Means(p, c, ks, says), Ends(p, c, ks)
    PROVE  TellsInv'
<1> DEFINE word == [k \in ks |-> Unsaid]
<1>1. /\ mem[p] \in Contents /\ file # Torn /\ DOMAIN mem = Processes
      /\ store \in {"links", "defined"} => p = Server /\ ~Up(Other(p))
      /\ c \in Contents /\ c # Down /\ c # Torn /\ ks \in SUBSET Keys
      /\ unsaved \in [Processes -> SUBSET Keys] /\ stale \in [Processes -> SUBSET Keys]
      BY Running, ContentsParts DEF TellsInv, TypeInv, Means
<1>2. /\ mem' = [mem EXCEPT ![p] = Down] /\ told' = Over(word, told)
      /\ unsaved' = [unsaved EXCEPT ![p] = {}]
      /\ stale' = [q \in Processes |-> IF q = p THEN {} ELSE stale[q] \cup ks \cup stale[p] \cup unsaved[p]]
      BY DEF Ends
<1>3. /\ mem'[p] = Down /\ unsaved'[p] = {} /\ stale'[p] = {} /\ ~Up(p)'
      /\ \A q \in Processes : q # p =>
             /\ mem'[q] = mem[q] /\ unsaved'[q] = unsaved[q]
             /\ stale'[q] = stale[q] \cup ks \cup stale[p] \cup unsaved[p]
      BY <1>1, <1>2 DEF Up
<1>4. /\ \A k \in ks : told'[k] = Unsaid
      /\ \A k \in Keys \ ks : told'[k] = told[k]
      /\ Keys \subseteq DOMAIN told'
  <2>1. /\ DOMAIN Over(word, told) = DOMAIN word \cup DOMAIN told
        /\ \A k \in DOMAIN word : Over(word, told)[k] = word[k]
        /\ \A k \in DOMAIN told \ DOMAIN word : Over(word, told)[k] = told[k]
        BY Merged
  <2>2. Keys \subseteq DOMAIN told
        BY DEF TellsInv, TypeInv
  <2>3. QED BY <1>1, <1>2, <2>1, <2>2
<1> HIDE DEF word
<1>5. CASE file' = c /\ lost' = lost \cup stale[p] \cup unsaved[p]
  <2>1. Adopted(file)' = c
    <3>1. Adopted(c) = c
          BY AdoptedAsIs, <1>1 DEF Means
    <3>2. Adopted(file)' = Adopted(c)
          BY <1>5 DEF Adopted
    <3>3. QED BY <3>1, <3>2
  <2>2. TypeInv'
    <3>1. mem' \in [Processes -> Contents \cup {Down}]
          BY <1>1, <1>2 DEF TellsInv, TypeInv
    <3>2. unsaved' \in [Processes -> SUBSET Keys] /\ stale' \in [Processes -> SUBSET Keys]
          BY <1>1, <1>2
    <3>3. store' \in RollsBack => unsaved' = [q \in Processes |-> {}]
          BY <1>1, <1>2 DEF TellsInv, TypeInv
    <3>4. \A q \in Processes : ~Up(q)' => unsaved'[q] = {}
          BY <1>1, <1>3 DEF TellsInv, TypeInv, Up
    <3>5. store' \in {"links", "defined"} => ~Up(Editor)'
          BY <1>1, <1>3, SidecarAssumption DEF TellsInv, TypeInv, Up, Processes
    <3>6. QED BY <1>1, <1>4, <1>5, <3>1, <3>2, <3>3, <3>4, <3>5 DEF TellsInv, TypeInv
  <2>3. MemFile'
    <3> SUFFICES ASSUME NEW q \in Processes, Up(q)', NEW k \in Keys, k \notin stale'[q] \cup unsaved'[q]
                 PROVE  At(mem'[q], k) = At(c, k)
        BY <2>1 DEF MemFile
    <3>1. q # p /\ Up(q)
          BY <1>3 DEF Up
    <3>2. k \notin ks /\ k \notin stale[p] \cup unsaved[p] /\ k \notin stale[q] \cup unsaved[q]
          BY <3>1, <1>3
    <3>3. At(c, k) = At(mem[p], k)
          BY <3>2 DEF Means
    <3>4. At(mem[p], k) = At(Adopted(file), k) /\ At(mem[q], k) = At(Adopted(file), k)
          BY <3>1, <3>2, <1>1 DEF TellsInv, MemFile
    <3>5. QED BY <3>1, <3>3, <3>4, <1>3
  <2>4. MemTrue'
    <3> SUFFICES ASSUME NEW q \in Processes, Up(q)', NEW k \in Keys,
                        k \notin lost' \cup stale'[q] \cup unsaved'[Other(q)], told'[k] # Unsaid
                 PROVE  At(mem'[q], k) = told'[k]
        BY DEF MemTrue
    <3>1. q # p /\ Up(q)
          BY <1>3 DEF Up
    <3>2. Other(q) = p
          BY <3>1, Two
    <3>3. k \notin ks /\ k \notin lost \cup stale[q] \cup unsaved[Other(q)]
          BY <3>1, <3>2, <1>3, <1>5
    <3>4. At(mem[q], k) = told[k]
          BY <3>1, <3>3, <1>4 DEF TellsInv, MemTrue
    <3>5. QED BY <3>1, <3>3, <3>4, <1>3, <1>4
  <2>5. Marks'
    <3> SUFFICES ASSUME store = "acted"
                 PROVE  Marks'
        BY DEF Marks
    <3>1. /\ DOMAIN c.items = Known(p) \cup ks
          /\ \A k \in DOMAIN c.items : c.items[k] = k
          BY DEF Means
    <3>2. \A k \in DOMAIN c.items : At(c, k) = k
          BY <3>1 DEF At
    <3>3. \A q \in Processes : Up(q)' =>
              /\ \A k \in DOMAIN mem'[q].items : mem'[q].items[k] = k
              /\ \A k \in unsaved'[q] : k \in DOMAIN mem'[q].items
              /\ \A k \in DOMAIN mem'[q].items \ (lost' \cup unsaved'[q]) : At(c, k) = k
      <4> SUFFICES ASSUME NEW q \in Processes, Up(q)'
                   PROVE  /\ \A k \in DOMAIN mem'[q].items : mem'[q].items[k] = k
                          /\ \A k \in unsaved'[q] : k \in DOMAIN mem'[q].items
                          /\ \A k \in DOMAIN mem'[q].items \ (lost' \cup unsaved'[q]) : At(c, k) = k
          OBVIOUS
      <4>1. q # p /\ Up(q) /\ mem'[q] = mem[q] /\ unsaved'[q] = unsaved[q]
            BY <1>3 DEF Up
      <4>2. /\ \A k \in DOMAIN mem[q].items : mem[q].items[k] = k
            /\ \A k \in unsaved[q] : k \in DOMAIN mem[q].items
            /\ \A k \in DOMAIN mem[q].items \ (lost \cup unsaved[q]) : At(file, k) = k
            BY <4>1 DEF TellsInv, Marks, Known
      <4>3. ASSUME NEW k \in DOMAIN mem[q].items, k \notin lost' \cup unsaved[q]
            PROVE  At(c, k) = k
        <5>1. CASE k \in DOMAIN c.items
              BY <5>1, <3>2
        <5>2. CASE k \notin DOMAIN c.items
          <6>1. k \notin ks /\ k \notin Known(p) /\ k \in Keys
                BY <5>2, <3>1, <4>1, <1>1, ContentsParts DEF Up, TellsInv, TypeInv
          <6>2. k \notin lost \cup stale[p] \cup unsaved[p]
                BY <4>3, <1>5
          <6>3. At(file, k) = k
                BY <6>2, <4>3, <4>2
          <6>4. At(Adopted(file), k) = At(file, k)
                BY DEF Adopted
          <6>5. At(mem[p], k) = At(Adopted(file), k)
                BY <6>1, <6>2, <1>1 DEF TellsInv, MemFile
          <6>6. At(c, k) = At(mem[p], k)
                BY <6>1 DEF Means
          <6>7. QED BY <6>3, <6>4, <6>5, <6>6
        <5>3. QED BY <5>1, <5>2
      <4>4. QED BY <4>1, <4>2, <4>3
    <3>4. QED BY <3>1, <3>3, <1>5 DEF Marks, Known
  <2>6. BoardsInv'
    <3> SUFFICES ASSUME store = "insights"
                 PROVE  BoardsInv'
        BY DEF BoardsInv
    <3>1. Good(c)
          BY DEF Means
    <3>2. \A q \in Processes : Up(q)' => Good(mem'[q])
          BY <1>3 DEF TellsInv, BoardsInv, Up
    <3>3. QED BY <3>1, <3>2, <1>1, <1>5 DEF BoardsInv, Good
  <2>7. ToldTrue'
    <3> SUFFICES ASSUME NEW k \in Keys, k \notin lost' \cup unsaved'[Server] \cup unsaved'[Editor], told'[k] # Unsaid
                 PROVE  At(c, k) = told'[k]
        BY <1>5 DEF ToldTrue
    <3>1. Other(p) \in Processes /\ Other(p) # p
          BY SidecarAssumption DEF Processes, Other
    <3>2. k \notin ks /\ k \notin lost \cup stale[p] /\ k \notin unsaved'[Other(p)]
          BY <1>4, <1>5 DEF Other
    <3>3. k \notin unsaved[Other(p)]
          BY <3>1, <3>2, <1>3
    <3>4. At(mem[p], k) = told[k]
          BY <3>2, <3>3, <1>4 DEF TellsInv, MemTrue
    <3>5. At(c, k) = At(mem[p], k)
          BY <3>2 DEF Means
    <3>6. QED BY <3>2, <3>4, <3>5, <1>4
  <2>8. QED BY <2>2, <2>3, <2>4, <2>5, <2>6, <2>7 DEF TellsInv
<1>6. CASE store = "defined" /\ file' = Torn /\ lost' = Keys
  <2>1. \A q \in Processes : ~Up(q)'
        BY <1>1, <1>3, <1>6, Two DEF Up
  <2>2. TypeInv'
    <3>1. mem' \in [Processes -> Contents \cup {Down}]
          BY <1>1, <1>2 DEF TellsInv, TypeInv
    <3>2. unsaved' \in [Processes -> SUBSET Keys] /\ stale' \in [Processes -> SUBSET Keys]
          BY <1>1, <1>2
    <3>3. store' \notin RollsBack
          BY <1>6 DEF RollsBack
    <3>4. \A q \in Processes : ~Up(q)' => unsaved'[q] = {}
          BY <1>1, <1>3 DEF TellsInv, TypeInv, Up
    <3>5. QED BY <1>1, <1>4, <1>6, <2>1, <3>1, <3>2, <3>3, <3>4 DEF TellsInv, TypeInv, Processes
  <2>3. MemFile' /\ MemTrue'
        BY <2>1 DEF MemFile, MemTrue
  <2>4. Marks' /\ BoardsInv'
        BY <1>6 DEF Marks, BoardsInv
  <2>5. ToldTrue'
        BY <1>6 DEF ToldTrue
  <2>6. QED BY <2>2, <2>3, <2>4, <2>5 DEF TellsInv
<1>7. QED BY <1>5, <1>6 DEF Ends

\* A call that changes a store.
LEMMA ChangeKeeps ==
    ASSUME TellsInv, NEW p \in Processes, Up(p), UNCHANGED store,
           NEW c, NEW ks, NEW says, Means(p, c, ks, says), Change(p, c, ks, says)
    PROVE  TellsInv'
<1>1. QED BY SavedKeeps, FailsKeeps, EndsKeeps DEF Change

-----------------------------------------------------------------------------
\* What the calls make of a store.

\* A thing put under a key.
LEMMA PutMeans ==
    ASSUME TellsInv, NEW p \in Processes, Up(p), NEW k \in Keys, NEW item \in Items,
           store = "insights" => item \in DOMAIN mem[p].boards,
           store = "acted" => item = k
    PROVE  Means(p, With(p, k, item), {k}, One(k, item))
<1> DEFINE items == Over(One(k, item), mem[p].items)
           c     == With(p, k, item)
<1>1. mem[p] \in Contents
      BY Running DEF TellsInv
<1>2. /\ DOMAIN mem[p].boards \in SUBSET Boards /\ mem[p].boards \in [DOMAIN mem[p].boards -> Names]
      /\ DOMAIN mem[p].items \in SUBSET Keys /\ mem[p].items \in [DOMAIN mem[p].items -> Items]
      /\ mem[p] = [boards |-> mem[p].boards, items |-> mem[p].items]
      BY <1>1, ContentsParts
<1>3. c = [boards |-> mem[p].boards, items |-> items]
      BY <1>2 DEF With
<1>4. c.boards = mem[p].boards /\ c.items = items
      BY <1>3
<1>5. /\ DOMAIN items = {k} \cup DOMAIN mem[p].items
      /\ items[k] = item
      /\ \A j \in DOMAIN mem[p].items \ {k} : items[j] = mem[p].items[j]
      BY DEF Over, One
<1>6. items \in [{k} \cup DOMAIN mem[p].items -> Items]
      BY <1>2, <1>5 DEF Over
<1>7. c \in Contents
      BY <1>2, <1>3, <1>6, ContentsMade
<1> HIDE DEF items, c
<1>8. At(c, k) = item /\ \A j \in Keys \ {k} : At(c, j) = At(mem[p], j)
      BY <1>4, <1>5 DEF At
<1>9. DOMAIN One(k, item) = {k} /\ One(k, item)[k] = item
      BY OneThing
<1>10. ASSUME store = "insights"
       PROVE  Good(c)
  <2>1. Good(mem[p])
        BY <1>10 DEF TellsInv, BoardsInv
  <2>2. QED BY <2>1, <1>4, <1>5, <1>10 DEF Good
<1>11. ASSUME store = "acted"
       PROVE  DOMAIN c.items = Known(p) \cup {k} /\ \A j \in DOMAIN c.items : c.items[j] = j
       BY <1>4, <1>5, <1>11 DEF TellsInv, Marks, Known
<1>12. Means(p, c, {k}, One(k, item))
       BY <1>7, <1>8, <1>9, <1>10, <1>11 DEF Means
<1>13. QED BY <1>12 DEF c

\* What Less leaves.
LEMMA LessLeaves ==
    ASSUME TellsInv, NEW p \in Processes, Up(p), NEW ks \in SUBSET Keys
    PROVE  /\ Less(p, ks) \in Contents
           /\ Less(p, ks).boards = mem[p].boards
           /\ DOMAIN Less(p, ks).items = Known(p) \ ks
           /\ \A j \in Known(p) \ ks : Less(p, ks).items[j] = mem[p].items[j]
<1> DEFINE items == RestrictDomain(mem[p].items, LAMBDA k : k \notin ks)
<1>1. mem[p] \in Contents
      BY Running DEF TellsInv
<1>2. /\ DOMAIN mem[p].boards \in SUBSET Boards /\ mem[p].boards \in [DOMAIN mem[p].boards -> Names]
      /\ DOMAIN mem[p].items \in SUBSET Keys /\ mem[p].items \in [DOMAIN mem[p].items -> Items]
      /\ mem[p] = [boards |-> mem[p].boards, items |-> mem[p].items]
      BY <1>1, ContentsParts
<1>3. Less(p, ks) = [boards |-> mem[p].boards, items |-> items]
      BY <1>2 DEF Less
<1>4. DOMAIN items = DOMAIN mem[p].items \ ks /\ \A j \in DOMAIN mem[p].items \ ks : items[j] = mem[p].items[j]
      BY Restricted
<1>5. items \in [DOMAIN mem[p].items \ ks -> Items]
      BY <1>2, <1>4 DEF RestrictDomain, Restrict
<1>6. DOMAIN mem[p].items \ ks \in SUBSET Keys
      BY <1>2
<1> HIDE DEF items
<1>7. [boards |-> mem[p].boards, items |-> items] \in Contents
      BY <1>2, <1>5, <1>6, ContentsMade
<1>8. QED BY <1>3, <1>4, <1>7 DEF Known

\* A thing taken from under a key.
LEMMA RemoveMeans ==
    ASSUME TellsInv, NEW p \in Processes, Up(p), NEW k \in Keys, store # "acted"
    PROVE  Means(p, Less(p, {k}), {k}, One(k, Gone))
<1> DEFINE c == Less(p, {k})
<1>1. /\ c \in Contents /\ c.boards = mem[p].boards
      /\ DOMAIN c.items = Known(p) \ {k}
      /\ \A j \in Known(p) \ {k} : c.items[j] = mem[p].items[j]
      BY LessLeaves
<1> HIDE DEF c
<1>2. At(c, k) = Gone /\ \A j \in Keys \ {k} : At(c, j) = At(mem[p], j)
      BY <1>1 DEF At, Known
<1>3. DOMAIN One(k, Gone) = {k} /\ One(k, Gone)[k] = Gone
      BY OneThing
<1>4. ASSUME store = "insights"
      PROVE  Good(c)
  <2>1. Good(mem[p])
        BY <1>4 DEF TellsInv, BoardsInv
  <2>2. QED BY <2>1, <1>1 DEF Good, Known
<1>5. Means(p, c, {k}, One(k, Gone))
      BY <1>1, <1>2, <1>3, <1>4 DEF Means
<1>6. QED BY <1>5 DEF c

\* A link made, the dead ones dropped.
LEMMA LinkMeans ==
    ASSUME TellsInv, NEW p \in Processes, Up(p), NEW k \in Keys, NEW dead \in SUBSET Known(p),
           store = "links"
    PROVE  Means(p, [Less(p, dead) EXCEPT !.items = Over(One(k, k), @)], {k} \cup dead,
                 Over(One(k, k), [d \in dead |-> Gone]))
<1> DEFINE left  == Less(p, dead)
           items == Over(One(k, k), left.items)
           c     == [Less(p, dead) EXCEPT !.items = Over(One(k, k), @)]
           none  == [d \in dead |-> Gone]
           says  == Over(One(k, k), none)
<1>1. mem[p] \in Contents /\ dead \in SUBSET Keys
      BY Running, ContentsParts DEF TellsInv, Known
<1>2. /\ left \in Contents /\ left.boards = mem[p].boards
      /\ DOMAIN left.items = Known(p) \ dead
      /\ \A j \in Known(p) \ dead : left.items[j] = mem[p].items[j]
      BY <1>1, LessLeaves
<1>3. /\ DOMAIN left.boards \in SUBSET Boards /\ left.boards \in [DOMAIN left.boards -> Names]
      /\ DOMAIN left.items \in SUBSET Keys /\ left.items \in [DOMAIN left.items -> Items]
      /\ left = [boards |-> left.boards, items |-> left.items]
      BY <1>2, ContentsParts
<1> HIDE DEF left
<1>4. c = [boards |-> left.boards, items |-> items]
      BY <1>3 DEF left
<1>5. /\ DOMAIN items = {k} \cup DOMAIN left.items
      /\ items[k] = k
      /\ \A j \in DOMAIN left.items \ {k} : items[j] = left.items[j]
      BY DEF Over, One
<1>6. items \in [{k} \cup DOMAIN left.items -> Items]
      BY <1>3, <1>5 DEF Over, Items
<1>7. c \in Contents /\ c.items = items
      BY <1>3, <1>4, <1>6, ContentsMade
<1>8. /\ DOMAIN says = {k} \cup dead /\ says[k] = k
      /\ \A d \in dead \ {k} : says[d] = Gone
  <2> HIDE DEF none
  <2>1. /\ DOMAIN says = {k} \cup DOMAIN none /\ says[k] = k
        /\ \A x \in DOMAIN none \ {k} : says[x] = none[x]
        BY DEF Over, One
  <2>2. DOMAIN none = dead /\ \A d \in dead : none[d] = Gone
        BY DEF none
  <2> HIDE DEF says
  <2>3. QED BY <2>1, <2>2
<1> HIDE DEF items, c, none, says
<1>9. /\ \A j \in {k} \cup dead : At(c, j) = says[j]
      /\ \A j \in Keys \ ({k} \cup dead) : At(c, j) = At(mem[p], j)
      BY <1>2, <1>5, <1>7, <1>8 DEF At, Known
<1>10. Means(p, c, {k} \cup dead, says)
       BY <1>1, <1>7, <1>8, <1>9 DEF Means
<1>11. QED BY <1>10 DEF c, says, none

\* A board made or renamed.
LEMMA BoardMeans ==
    ASSUME TellsInv, NEW p \in Processes, Up(p), NEW b \in Boards, NEW name \in Names,
           store = "insights", ~NameTaken(p, name, b)
    PROVE  Means(p, WithBoard(p, b, name), {}, Nothing)
<1> DEFINE boards == Over(One(b, name), mem[p].boards)
           c      == WithBoard(p, b, name)
<1>1. mem[p] \in Contents
      BY Running DEF TellsInv
<1>2. /\ DOMAIN mem[p].boards \in SUBSET Boards /\ mem[p].boards \in [DOMAIN mem[p].boards -> Names]
      /\ DOMAIN mem[p].items \in SUBSET Keys /\ mem[p].items \in [DOMAIN mem[p].items -> Items]
      /\ mem[p] = [boards |-> mem[p].boards, items |-> mem[p].items]
      BY <1>1, ContentsParts
<1>3. c = [boards |-> boards, items |-> mem[p].items]
      BY <1>2 DEF WithBoard
<1>4. c.boards = boards /\ c.items = mem[p].items
      BY <1>3
<1>5. /\ DOMAIN boards = {b} \cup DOMAIN mem[p].boards
      /\ boards[b] = name
      /\ \A a \in DOMAIN mem[p].boards \ {b} : boards[a] = mem[p].boards[a]
      BY DEF Over, One
<1>6. boards \in [{b} \cup DOMAIN mem[p].boards -> Names]
      BY <1>2, <1>5 DEF Over
<1>7. c \in Contents
      BY <1>2, <1>3, <1>6, ContentsMade
<1> HIDE DEF boards, c
<1>8. Good(c)
  <2>1. Good(mem[p])
        BY DEF TellsInv, BoardsInv
  <2>2. \A a \in DOMAIN mem[p].boards \ {b} : mem[p].boards[a] # name
        BY DEF NameTaken
  <2>3. QED BY <2>1, <2>2, <1>4, <1>5 DEF Good
<1>9. \A k \in Keys : At(c, k) = At(mem[p], k)
      BY <1>4 DEF At
<1>10. DOMAIN Nothing = {}
       BY DEF Nothing
<1>11. Means(p, c, {}, Nothing)
       BY <1>7, <1>8, <1>9, <1>10 DEF Means
<1>12. QED BY <1>11 DEF c

\* A board with no report on it deleted.
LEMMA NoBoardMeans ==
    ASSUME TellsInv, NEW p \in Processes, Up(p), NEW b \in DOMAIN mem[p].boards \ {Default},
           store = "insights", \A k \in Known(p) : mem[p].items[k] # b
    PROVE  Means(p, [mem[p] EXCEPT !.boards = RestrictDomain(@, LAMBDA a : a # b)], {}, Nothing)
<1> DEFINE boards == RestrictDomain(mem[p].boards, LAMBDA a : a # b)
           c      == [mem[p] EXCEPT !.boards = RestrictDomain(@, LAMBDA a : a # b)]
<1>1. mem[p] \in Contents
      BY Running DEF TellsInv
<1>2. /\ DOMAIN mem[p].boards \in SUBSET Boards /\ mem[p].boards \in [DOMAIN mem[p].boards -> Names]
      /\ DOMAIN mem[p].items \in SUBSET Keys /\ mem[p].items \in [DOMAIN mem[p].items -> Items]
      /\ mem[p] = [boards |-> mem[p].boards, items |-> mem[p].items]
      BY <1>1, ContentsParts
<1>3. c = [boards |-> boards, items |-> mem[p].items]
      BY <1>2
<1>4. c.boards = boards /\ c.items = mem[p].items
      BY <1>3
<1>5. DOMAIN boards = DOMAIN mem[p].boards \ {b}
      /\ \A a \in DOMAIN mem[p].boards \ {b} : boards[a] = mem[p].boards[a]
      BY DEF RestrictDomain, Restrict
<1>6. boards \in [DOMAIN mem[p].boards \ {b} -> Names]
      BY <1>2, <1>5 DEF RestrictDomain, Restrict
<1>7. DOMAIN mem[p].boards \ {b} \in SUBSET Boards
      BY <1>2
<1> HIDE DEF boards, c
<1>8. c \in Contents
      BY <1>2, <1>3, <1>6, <1>7, ContentsMade
<1>9. Good(c)
  <2>1. Good(mem[p])
        BY DEF TellsInv, BoardsInv
  <2>2. QED BY <2>1, <1>4, <1>5 DEF Good, Known
<1>10. \A k \in Keys : At(c, k) = At(mem[p], k)
      BY <1>4 DEF At
<1>11. DOMAIN Nothing = {}
       BY DEF Nothing
<1>12. Means(p, c, {}, Nothing)
       BY <1>8, <1>9, <1>10, <1>11 DEF Means
<1>13. QED BY <1>12 DEF c

\* A change of a store keeps its things surveys, if it is one of surveys.
LEMMA ChangeAsks ==
    ASSUME TellsInv, AskedInv, NEW p \in Processes, Up(p), UNCHANGED store,
           NEW c \in Contents, NEW ks, NEW says, Change(p, c, ks, says),
           store = "surveys" => \A k \in DOMAIN c.items : c.items[k] \in Asked
    PROVE  AskedInv'
<1> SUFFICES ASSUME store = "surveys"
             PROVE  AskedInv'
    BY DEF AskedInv
<1>1. /\ file # Torn /\ \A k \in DOMAIN file.items : file.items[k] \in Asked
      /\ \A q \in Processes : Up(q) => \A k \in DOMAIN mem[q].items : mem[q].items[k] \in Asked
      BY DEF AskedInv, Known
<1>2. c # Torn /\ DOMAIN mem = Processes
      BY Running, ContentsParts DEF TellsInv
<1>3. file' \in {file, c}
      BY DEF Change, Saved, Fails, Ends
<1>4. \A q \in Processes : mem'[q] \in {mem[q], c, Down}
      BY <1>2 DEF Change, Saved, Fails, Ends
<1>5. \A q \in Processes : Up(q)' => \A k \in DOMAIN mem'[q].items : mem'[q].items[k] \in Asked
      BY <1>1, <1>4 DEF Up
<1>6. file' # Torn /\ \A k \in DOMAIN file'.items : file'.items[k] \in Asked
      BY <1>1, <1>2, <1>3
<1>7. QED BY <1>5, <1>6 DEF AskedInv, Known

\* A call that puts one thing.
LEMMA PutKeeps ==
    ASSUME TellsInv, AskedInv, NEW p \in Processes, Up(p), UNCHANGED store,
           NEW k \in Keys, NEW item \in Items, Put(p, k, item),
           store = "insights" => item \in DOMAIN mem[p].boards,
           store = "acted" => item = k,
           store = "surveys" => item \in Asked
    PROVE  TellsInv' /\ AskedInv'
<1> DEFINE c == With(p, k, item)
<1>1. Means(p, c, {k}, One(k, item))
      BY PutMeans
<1>2. Change(p, c, {k}, One(k, item))
      BY DEF Put
<1>3. TellsInv'
      BY <1>1, <1>2, ChangeKeeps
<1>4. c \in Contents
      BY <1>1 DEF Means
<1>5. ASSUME store = "surveys"
      PROVE  \A j \in DOMAIN c.items : c.items[j] \in Asked
  <2>1. mem[p] = [boards |-> mem[p].boards, items |-> mem[p].items]
        BY Running, ContentsParts DEF TellsInv
  <2>2. c.items = Over(One(k, item), mem[p].items)
        BY <2>1 DEF With
  <2>3. \A j \in DOMAIN mem[p].items : mem[p].items[j] \in Asked
        BY <1>5 DEF AskedInv, Known
  <2>4. QED BY <2>2, <2>3, <1>5 DEF Over, One
<1> HIDE DEF c
<1>6. AskedInv'
      BY <1>2, <1>4, <1>5, ChangeAsks
<1>7. QED BY <1>3, <1>6

\* A call that removes one thing.
LEMMA RemoveKeeps ==
    ASSUME TellsInv, AskedInv, NEW p \in Processes, Up(p), UNCHANGED store,
           NEW k \in Keys, Remove(p, k), store # "acted"
    PROVE  TellsInv' /\ AskedInv'
<1> DEFINE c == Less(p, {k})
<1>1. Means(p, c, {k}, One(k, Gone))
      BY RemoveMeans
<1>2. Change(p, c, {k}, One(k, Gone))
      BY DEF Remove
<1>3. TellsInv'
      BY <1>1, <1>2, ChangeKeeps
<1>4. c \in Contents
      BY <1>1 DEF Means
<1>5. /\ DOMAIN c.items = Known(p) \ {k}
      /\ \A j \in Known(p) \ {k} : c.items[j] = mem[p].items[j]
      BY LessLeaves
<1>6. store = "surveys" => \A j \in DOMAIN c.items : c.items[j] \in Asked
      BY <1>5 DEF AskedInv
<1> HIDE DEF c
<1>7. AskedInv'
      BY <1>2, <1>4, <1>6, ChangeAsks
<1>8. QED BY <1>3, <1>7

\* A call of a store of things that are not surveys.
LEMMA OtherKeeps ==
    ASSUME IInv, UNCHANGED <<store, editing>>, store # "surveys", TellsInv'
    PROVE  IInv'
<1>1. QED BY DEF IInv, AskedInv, EditInv

\* The calls of saved reports and their boards.
LEMMA InsightsKeep ==
    ASSUME IInv, NEW p \in Processes, Up(p), InsightCalls(p), UNCHANGED store
    PROVE  IInv'
<1>1. /\ store = "insights" /\ UNCHANGED editing
      /\ TellsInv /\ AskedInv
      BY DEF InsightCalls, IInv
<1>2. ASSUME NEW k \in Keys, NEW b \in Boards, SaveInsight(p, k, b) \/ MoveInsight(p, k, b)
      PROVE  TellsInv'
  <2>1. b \in Items /\ b \in DOMAIN mem[p].boards /\ Put(p, k, b)
        BY <1>2 DEF SaveInsight, MoveInsight, Items
  <2>2. QED BY <2>1, <1>1, PutKeeps
<1>3. ASSUME NEW k \in Keys, DeleteInsight(p, k)
      PROVE  TellsInv'
      BY <1>1, <1>3, RemoveKeeps DEF DeleteInsight
<1>4. ASSUME NEW b \in Boards, NEW name \in Names, CreateBoard(p, b, name) \/ UpdateBoard(p, b, name)
      PROVE  TellsInv'
  <2>1. ~NameTaken(p, name, b) /\ Change(p, WithBoard(p, b, name), {}, Nothing)
        BY <1>4 DEF CreateBoard, UpdateBoard
  <2>2. Means(p, WithBoard(p, b, name), {}, Nothing)
        BY <2>1, <1>1, BoardMeans
  <2>3. QED BY <2>1, <2>2, <1>1, ChangeKeeps
<1>5. ASSUME NEW b \in Boards, DeleteBoard(p, b)
      PROVE  TellsInv'
  <2> DEFINE c == [mem[p] EXCEPT !.boards = RestrictDomain(@, LAMBDA a : a # b)]
  <2>1. /\ b \in DOMAIN mem[p].boards \ {Default} /\ \A k \in Known(p) : mem[p].items[k] # b
        /\ Change(p, c, {}, Nothing)
        BY <1>5 DEF DeleteBoard
  <2>2. Means(p, c, {}, Nothing)
        BY <2>1, <1>1, NoBoardMeans
  <2> HIDE DEF c
  <2>3. QED BY <2>1, <2>2, <1>1, ChangeKeeps
<1>6. TellsInv'
      BY <1>2, <1>3, <1>4, <1>5 DEF InsightCalls
<1>7. QED BY <1>1, <1>6, OtherKeeps

\* The calls of surveys.
LEMMA SurveysKeep ==
    ASSUME IInv, NEW p \in Processes, Up(p), SurveyCalls(p), UNCHANGED store
    PROVE  IInv'
<1>1. /\ store = "surveys" /\ TellsInv /\ AskedInv /\ EditInv
      BY DEF SurveyCalls, IInv
<1>2. Asked \subseteq Items
      BY DEF Asked, Items
<1>3. ASSUME NEW k \in Keys, NEW text \in Texts, NEW on \in BOOLEAN, SaveSurvey(p, k, text, on)
      PROVE  IInv'
  <2>1. [text |-> text, on |-> on] \in Asked
        BY DEF Asked
  <2>2. Put(p, k, [text |-> text, on |-> on]) /\ EditEndsWith(p)
        BY <1>3 DEF SaveSurvey
  <2>3. TellsInv' /\ AskedInv'
        BY <2>1, <2>2, <1>1, <1>2, PutKeeps
  <2>4. EditInv'
        BY <2>2, <1>1 DEF EditInv, EditEndsWith
  <2>5. QED BY <2>3, <2>4 DEF IInv
<1>4. ASSUME NEW k \in Keys, NEW on \in BOOLEAN, ReadSurvey(p, k, on)
      PROVE  IInv'
  <2>1. /\ k \in Known(p) /\ UNCHANGED <<file, mem, ghosts>>
        /\ editing' = [by |-> p, key |-> k, item |-> [mem[p].items[k] EXCEPT !.on = on]]
        BY <1>4 DEF ReadSurvey
  <2>2. mem[p].items[k] \in Asked
        BY <2>1, <1>1 DEF AskedInv
  <2>3. [mem[p].items[k] EXCEPT !.on = on] \in Asked
        BY <2>2 DEF Asked
  <2>4. EditInv'
        BY <2>1, <2>3, <1>1 DEF EditInv
  <2>5. TellsInv'
        BY <2>1, <1>1, Untouched
  <2>6. AskedInv'
        BY <2>1, <1>1 DEF AskedInv, Up, Known
  <2>7. QED BY <2>4, <2>5, <2>6 DEF IInv
<1>5. CASE SetActive(p)
  <2>1. editing.key \in Keys /\ editing.item \in Asked /\ editing' = Unsaid
        BY <1>1, <1>5 DEF SetActive, EditInv
  <2>2. CASE editing.key \in Known(p)
    <3>1. Put(p, editing.key, editing.item)
          BY <2>2, <1>5 DEF SetActive
    <3>2. TellsInv' /\ AskedInv'
          BY <3>1, <2>1, <1>1, <1>2, PutKeeps
    <3>3. QED BY <3>2, <2>1 DEF IInv, EditInv
  <2>3. CASE editing.key \notin Known(p)
    <3>1. UNCHANGED <<file, mem, ghosts>>
          BY <2>3, <1>5 DEF SetActive
    <3>2. TellsInv'
          BY <3>1, <1>1, Untouched
    <3>3. AskedInv'
          BY <3>1, <1>1 DEF AskedInv, Up, Known
    <3>4. QED BY <3>2, <3>3, <2>1 DEF IInv, EditInv
  <2>4. QED BY <2>2, <2>3
<1>6. ASSUME NEW k \in Keys, DeleteSurvey(p, k)
      PROVE  IInv'
  <2>1. Remove(p, k) /\ EditEndsWith(p)
        BY <1>6 DEF DeleteSurvey
  <2>2. TellsInv' /\ AskedInv'
        BY <2>1, <1>1, RemoveKeeps
  <2>3. EditInv'
        BY <2>1, <1>1 DEF EditInv, EditEndsWith
  <2>4. QED BY <2>2, <2>3 DEF IInv
<1>7. QED BY <1>3, <1>4, <1>5, <1>6 DEF SurveyCalls

\* An insight that is marked stays marked.
LEMMA MarkedKeeps ==
    ASSUME TellsInv, NEW p \in Processes, Up(p), store = "acted", NEW k \in Known(p),
           told' = [told EXCEPT ![k] = k], UNCHANGED <<store, file, mem, unsaved, stale, lost>>
    PROVE  TellsInv'
<1>1. /\ \A q \in Processes : Up(q) =>
             /\ \A j \in Known(q) : mem[q].items[j] = j
             /\ \A j \in unsaved[q] : j \in Known(q)
             /\ \A j \in Known(q) \ (lost \cup unsaved[q]) : At(file, j) = j
      /\ \A j \in Keys : At(Adopted(file), j) = At(file, j)
      BY DEF TellsInv, Marks, Adopted
<1>2. \A q \in Processes : Up(q) => \A j \in Known(q) : At(mem[q], j) = j
      BY <1>1 DEF At, Known
<1>3. k \in Keys /\ file # Torn /\ mem[p] \in Contents
      BY Running, ContentsParts DEF TellsInv, Known
<1>4. /\ Keys \subseteq DOMAIN told' /\ told'[k] = k
      /\ \A j \in Keys \ {k} : told'[j] = told[j]
      BY <1>3 DEF TellsInv, TypeInv
<1>5. TypeInv'
      BY <1>4 DEF TellsInv, TypeInv, Up
<1>6. MemFile'
      BY DEF TellsInv, MemFile, Up, Adopted
<1>7. MemTrue'
  <2> SUFFICES ASSUME NEW q \in Processes, Up(q), NEW j \in Keys,
                      j \notin lost \cup stale[q] \cup unsaved[Other(q)], told'[j] # Unsaid
               PROVE  At(mem[q], j) = told'[j]
      BY DEF MemTrue, Up
  <2>1. CASE j # k
        BY <2>1, <1>4 DEF TellsInv, MemTrue
  <2>2. CASE j = k /\ (q = p \/ k \in unsaved[q])
        BY <2>2, <1>1, <1>2, <1>4
  <2>3. CASE j = k /\ q # p /\ k \notin unsaved[q]
    <3>1. k \notin unsaved[p]
          BY <2>3, Two
    <3>2. At(file, k) = k
          BY <3>1, <2>3, <1>1
    <3>3. At(mem[q], k) = At(Adopted(file), k)
          BY <2>3, <1>3 DEF TellsInv, MemFile
    <3>4. QED BY <3>2, <3>3, <2>3, <1>1, <1>3, <1>4
  <2>4. QED BY <2>1, <2>2, <2>3
<1>8. Marks' /\ BoardsInv'
      BY DEF TellsInv, Marks, BoardsInv, Up, Known
<1>9. ToldTrue'
  <2> SUFFICES ASSUME NEW j \in Keys, j \notin lost \cup unsaved[Server] \cup unsaved[Editor], told'[j] # Unsaid
               PROVE  At(file, j) = told'[j]
      BY DEF ToldTrue
  <2>1. CASE j # k
        BY <2>1, <1>3, <1>4 DEF TellsInv, ToldTrue
  <2>2. CASE j = k
        BY <2>2, <1>1, <1>4 DEF Processes
  <2>3. QED BY <2>1, <2>2
<1>10. QED BY <1>5, <1>6, <1>7, <1>8, <1>9 DEF TellsInv

\* The calls of the other stores.
LEMMA PlainKeep ==
    ASSUME IInv, NEW p \in Processes, Up(p), PlainCalls(p), UNCHANGED store
    PROVE  IInv'
<1>1. UNCHANGED editing /\ TellsInv /\ AskedInv
      BY DEF PlainCalls, IInv
<1>2. PICK k \in Keys :
          \/ SaveCohort(p, k) \/ AddKey(p, k) \/ CreateShare(p, k) \/ CreateLink(p, k)
          \/ SaveGoal(p, k) \/ Record(p, k) \/ SaveDefined(p, k) \/ Mark(p, k)
          \/ DeleteCohort(p, k) \/ RevokeKey(p, k) \/ RevokeShare(p, k) \/ DeleteGoal(p, k)
          \/ DeleteDeploy(p, k) \/ DeleteDefined(p, k) \/ Redeem(p, k)
      BY DEF PlainCalls
<1>3. k \in Items
      BY DEF Items
<1>4. CASE Put(p, k, k) /\ store \notin {"insights", "surveys"}
  <2>1. TellsInv'
        BY <1>1, <1>3, <1>4, PutKeeps
  <2>2. QED BY <2>1, <1>1, <1>4, OtherKeeps
<1>5. CASE Remove(p, k) /\ store \notin {"acted", "surveys"}
  <2>1. TellsInv'
        BY <1>1, <1>5, RemoveKeeps
  <2>2. QED BY <2>1, <1>1, <1>5, OtherKeeps
<1>6. CASE CreateLink(p, k)
  <2>1. PICK dead \in SUBSET Known(p) :
            Change(p, [Less(p, dead) EXCEPT !.items = Over(One(k, k), @)], {k} \cup dead,
                   Over(One(k, k), [d \in dead |-> Gone]))
        BY <1>6 DEF CreateLink
  <2> DEFINE c    == [Less(p, dead) EXCEPT !.items = Over(One(k, k), @)]
             says == Over(One(k, k), [d \in dead |-> Gone])
  <2>2. store = "links"
        BY <1>6 DEF CreateLink
  <2>3. Means(p, c, {k} \cup dead, says)
        BY <2>2, <1>1, LinkMeans
  <2>4. Change(p, c, {k} \cup dead, says)
        BY <2>1
  <2> HIDE DEF c, says
  <2>5. TellsInv'
        BY <2>3, <2>4, <1>1, ChangeKeeps
  <2>6. QED BY <2>2, <2>5, <1>1, OtherKeeps
<1>7. CASE store = "acted" /\ k \in Known(p) /\ Mark(p, k)
  <2>1. TellsInv'
        BY <1>1, <1>7, MarkedKeeps DEF Mark
  <2>2. QED BY <2>1, <1>1, <1>7, OtherKeeps
<1>8. QED
  <2>1. CASE SaveCohort(p, k) \/ AddKey(p, k) \/ CreateShare(p, k) \/ SaveGoal(p, k)
        BY <2>1, <1>4 DEF SaveCohort, AddKey, CreateShare, SaveGoal
  <2>2. CASE Record(p, k) \/ SaveDefined(p, k)
        BY <2>2, <1>4 DEF Record, SaveDefined
  <2>3. CASE Mark(p, k)
        BY <2>3, <1>4, <1>7 DEF Mark
  <2>4. CASE DeleteCohort(p, k) \/ RevokeKey(p, k) \/ RevokeShare(p, k) \/ DeleteGoal(p, k)
        BY <2>4, <1>5 DEF DeleteCohort, RevokeKey, RevokeShare, DeleteGoal
  <2>5. CASE DeleteDeploy(p, k) \/ DeleteDefined(p, k) \/ Redeem(p, k)
        BY <2>5, <1>5 DEF DeleteDeploy, DeleteDefined, Redeem
  <2>6. QED BY <1>2, <1>6, <2>1, <2>2, <2>3, <2>4, <2>5

-----------------------------------------------------------------------------
\* A process opens its store, or stops.

\* What Open makes of a file is a store.
LEMMA AdoptedStore ==
    ASSUME NEW c \in Contents
    PROVE  Adopted(c) \in Contents
<1>1. CASE store # "insights"
      BY <1>1 DEF Adopted
<1>2. CASE store = "insights"
  <2> DEFINE boards == Over(c.boards, One(Default, DefaultName))
             items  == [k \in DOMAIN c.items |-> IF c.items[k] \in DOMAIN boards THEN c.items[k] ELSE Default]
  <2>1. /\ DOMAIN c.boards \in SUBSET Boards /\ c.boards \in [DOMAIN c.boards -> Names]
        /\ DOMAIN c.items \in SUBSET Keys /\ c.items \in [DOMAIN c.items -> Items]
        BY ContentsParts
  <2>2. boards \in [DOMAIN c.boards \cup {Default} -> Names]
        BY <2>1, SidecarAssumption DEF Over, One
  <2>3. items \in [DOMAIN c.items -> Items]
        BY <2>1, SidecarAssumption DEF Items
  <2>4. DOMAIN c.boards \cup {Default} \in SUBSET Boards
        BY <2>1, SidecarAssumption
  <2>5. Adopted(c) = [boards |-> boards, items |-> items]
        BY <1>2 DEF Adopted
  <2> HIDE DEF boards, items
  <2>6. QED BY <2>1, <2>2, <2>3, <2>4, <2>5, ContentsMade
<1>3. QED BY <1>1, <1>2

\* What Open makes of a file has its boards, also when the file is from before there were any.
LEMMA AdoptedGood ==
    ASSUME NEW c \in Contents, store = "insights", Good(c) \/ DOMAIN c.boards = {}
    PROVE  Good(Adopted(c))
<1>1. CASE Good(c)
      BY <1>1, AdoptedAsIs
<1>2. CASE DOMAIN c.boards = {}
  <2> DEFINE boards == Over(c.boards, One(Default, DefaultName))
             items  == [k \in DOMAIN c.items |-> IF c.items[k] \in DOMAIN boards THEN c.items[k] ELSE Default]
  <2>1. DOMAIN boards = {Default}
        BY <1>2 DEF Over, One
  <2>2. DOMAIN items = DOMAIN c.items /\ \A k \in DOMAIN items : items[k] = Default
        BY <2>1
  <2>3. Adopted(c) = [boards |-> boards, items |-> items]
        BY DEF Adopted
  <2> HIDE DEF boards, items
  <2>4. Adopted(c).boards = boards /\ Adopted(c).items = items
        BY <2>3
  <2>5. QED BY <2>1, <2>2, <2>4 DEF Good
<1>3. QED BY <1>1, <1>2

\* A process opens its store.
LEMMA OpenKeeps ==
    ASSUME TellsInv, AskedInv, EditInv, NEW p \in Processes, Open(p)
    PROVE  TellsInv' /\ AskedInv' /\ EditInv'
<1>1. /\ mem[p] = Down /\ file # Torn /\ (p = Editor => store \in Shared)
      /\ mem' = [mem EXCEPT ![p] = Adopted(file)]
      /\ stale' = [stale EXCEPT ![p] = {}]
      /\ UNCHANGED <<store, file, editing, told, unsaved, lost>>
      BY DEF Open
<1>2. /\ file \in Contents /\ DOMAIN mem = Processes
      /\ unsaved \in [Processes -> SUBSET Keys] /\ stale \in [Processes -> SUBSET Keys]
      BY <1>1 DEF TellsInv, TypeInv
<1>3. PICK c : c = Adopted(file)
      OBVIOUS
<1>4. c \in Contents /\ c # Down /\ Adopted(file)' = c
  <2>1. Adopted(file)' = Adopted(file)
        BY <1>1 DEF Adopted
  <2>2. QED BY <2>1, <1>2, <1>3, AdoptedStore, ContentsParts
<1>5. /\ mem'[p] = c /\ stale'[p] = {} /\ unsaved[p] = {}
      /\ \A q \in Processes : q # p => mem'[q] = mem[q] /\ stale'[q] = stale[q]
      BY <1>1, <1>2, <1>3 DEF TellsInv, TypeInv, Up
<1>6. \A k \in Keys : told[k] # Unsaid => At(c, k) = At(file, k)
  <2>1. CASE store = "insights" /\ ~Good(file)
        BY <2>1 DEF TellsInv, BoardsInv
  <2>2. CASE store = "insights" => Good(file)
        BY <2>2, <1>2, <1>3, AdoptedAsIs
  <2>3. QED BY <2>1, <2>2
<1>7. TypeInv'
  <2>1. mem' \in [Processes -> Contents \cup {Down}]
        BY <1>1, <1>2, <1>3, <1>4 DEF TellsInv, TypeInv
  <2>2. stale' \in [Processes -> SUBSET Keys]
        BY <1>1, <1>2
  <2>3. \A q \in Processes : ~Up(q)' => unsaved'[q] = {}
        BY <1>1, <1>5 DEF TellsInv, TypeInv, Up
  <2>4. store' \in {"links", "defined"} => ~Up(Editor)'
        BY <1>1, <1>5, SidecarAssumption DEF TellsInv, TypeInv, Up, Processes, Shared
  <2>5. QED BY <1>1, <2>1, <2>2, <2>3, <2>4 DEF TellsInv, TypeInv
<1>8. MemFile'
  <2> SUFFICES ASSUME NEW q \in Processes, Up(q)', NEW k \in Keys, k \notin stale'[q] \cup unsaved'[q]
               PROVE  At(mem'[q], k) = At(c, k)
      BY <1>4 DEF MemFile
  <2>1. CASE q = p
        BY <2>1, <1>5
  <2>2. CASE q # p
        BY <2>2, <1>1, <1>3, <1>5 DEF TellsInv, MemFile, Up
  <2>3. QED BY <2>1, <2>2
<1>9. MemTrue'
  <2> SUFFICES ASSUME NEW q \in Processes, Up(q)', NEW k \in Keys,
                      k \notin lost' \cup stale'[q] \cup unsaved'[Other(q)], told'[k] # Unsaid
               PROVE  At(mem'[q], k) = told'[k]
      BY DEF MemTrue
  <2>1. CASE q = p
    <3>1. k \notin lost \cup unsaved[Server] \cup unsaved[Editor]
          BY <2>1, <1>1, <1>5 DEF Processes, Other
    <3>2. At(file, k) = told[k]
          BY <3>1, <1>1 DEF TellsInv, ToldTrue
    <3>3. QED BY <3>2, <2>1, <1>1, <1>5, <1>6
  <2>2. CASE q # p
        BY <2>2, <1>1, <1>5 DEF TellsInv, MemTrue, Up
  <2>3. QED BY <2>1, <2>2
<1>10. Marks'
  <2> SUFFICES ASSUME store = "acted"
               PROVE  Marks'
      BY <1>1 DEF Marks
  <2>1. c = file
        BY <1>3 DEF Adopted
  <2>2. \A k \in DOMAIN file.items : file.items[k] = k /\ At(file, k) = k
        BY <1>1 DEF TellsInv, Marks, At
  <2>3. \A q \in Processes : Up(q)' =>
            /\ \A k \in DOMAIN mem'[q].items : mem'[q].items[k] = k
            /\ \A k \in unsaved'[q] : k \in DOMAIN mem'[q].items
            /\ \A k \in DOMAIN mem'[q].items \ (lost' \cup unsaved'[q]) : At(file, k) = k
        BY <2>1, <2>2, <1>1, <1>5 DEF TellsInv, Marks, Known, Up
  <2>4. QED BY <2>2, <2>3, <1>1 DEF Marks, Known
<1>11. BoardsInv'
  <2> SUFFICES ASSUME store = "insights"
               PROVE  BoardsInv'
      BY <1>1 DEF BoardsInv
  <2>1. Good(c)
        BY <1>2, <1>3, AdoptedGood DEF TellsInv, BoardsInv
  <2>2. \A q \in Processes : Up(q)' => Good(mem'[q])
        BY <2>1, <1>5 DEF TellsInv, BoardsInv, Up
  <2>3. QED BY <2>2, <1>1 DEF TellsInv, BoardsInv, Good
<1>12. ToldTrue'
       BY <1>1 DEF TellsInv, ToldTrue
<1>13. AskedInv'
  <2> SUFFICES ASSUME store = "surveys"
               PROVE  AskedInv'
      BY <1>1 DEF AskedInv
  <2>1. c = file
        BY <1>3 DEF Adopted
  <2>2. QED BY <2>1, <1>1, <1>5 DEF AskedInv, Up, Known
<1>14. EditInv'
       BY <1>1 DEF EditInv
<1>15. QED BY <1>7, <1>8, <1>9, <1>10, <1>11, <1>12, <1>13, <1>14 DEF TellsInv

\* A process stops.
LEMMA StopKeeps ==
    ASSUME TellsInv, AskedInv, EditInv, NEW p \in Processes, Stop(p)
    PROVE  TellsInv' /\ AskedInv' /\ EditInv'
<1>1. /\ mem' = [mem EXCEPT ![p] = Down] /\ EditEndsWith(p)
      /\ lost' = lost \cup unsaved[p]
      /\ unsaved' = [unsaved EXCEPT ![p] = {}] /\ stale' = [stale EXCEPT ![p] = {}]
      /\ UNCHANGED <<store, file, told>>
      BY DEF Stop
<1>2. /\ file # Torn /\ DOMAIN mem = Processes
      /\ unsaved \in [Processes -> SUBSET Keys] /\ stale \in [Processes -> SUBSET Keys]
      BY DEF TellsInv, TypeInv, Stop
<1>3. /\ ~Up(p)' /\ unsaved'[p] = {} /\ stale'[p] = {} /\ Adopted(file)' = Adopted(file)
      /\ \A q \in Processes : q # p =>
             mem'[q] = mem[q] /\ stale'[q] = stale[q] /\ unsaved'[q] = unsaved[q]
      BY <1>1, <1>2 DEF Up, Adopted
<1>4. TypeInv'
  <2>1. mem' \in [Processes -> Contents \cup {Down}]
        BY <1>1 DEF TellsInv, TypeInv
  <2>2. unsaved' \in [Processes -> SUBSET Keys] /\ stale' \in [Processes -> SUBSET Keys]
        BY <1>1, <1>2
  <2>3. store' \in RollsBack => unsaved' = [q \in Processes |-> {}]
        BY <1>1, <1>2 DEF TellsInv, TypeInv
  <2>4. \A q \in Processes : ~Up(q)' => unsaved'[q] = {}
        BY <1>3 DEF TellsInv, TypeInv, Up
  <2>5. store' \in {"links", "defined"} => ~Up(Editor)'
        BY <1>1, <1>3, SidecarAssumption DEF TellsInv, TypeInv, Up, Processes
  <2>6. QED BY <1>1, <1>2, <2>1, <2>2, <2>3, <2>4, <2>5 DEF TellsInv, TypeInv
<1>5. MemFile'
      BY <1>1, <1>2, <1>3 DEF TellsInv, MemFile, Up
<1>6. MemTrue'
  <2> SUFFICES ASSUME NEW q \in Processes, Up(q)', NEW k \in Keys,
                      k \notin lost' \cup stale'[q] \cup unsaved'[Other(q)], told'[k] # Unsaid
               PROVE  At(mem'[q], k) = told'[k]
      BY DEF MemTrue
  <2>1. q # p /\ Up(q) /\ Other(q) = p
        BY <1>3, Two DEF Up
  <2>2. k \notin lost \cup stale[q] \cup unsaved[Other(q)]
        BY <2>1, <1>1, <1>3
  <2>3. QED BY <2>1, <2>2, <1>1, <1>3 DEF TellsInv, MemTrue
<1>7. Marks'
      BY <1>1, <1>3 DEF TellsInv, Marks, Known, Up
<1>8. BoardsInv'
      BY <1>1, <1>3 DEF TellsInv, BoardsInv, Good, Up
<1>9. ToldTrue'
  <2> SUFFICES ASSUME NEW k \in Keys, k \notin lost' \cup unsaved'[Server] \cup unsaved'[Editor], told[k] # Unsaid
               PROVE  At(file, k) = told[k]
      BY <1>1 DEF ToldTrue
  <2>1. k \notin lost \cup unsaved[Server] \cup unsaved[Editor]
        BY <1>1, <1>3 DEF Processes
  <2>2. QED BY <2>1, <1>2 DEF TellsInv, ToldTrue
<1>10. AskedInv'
       BY <1>1, <1>3 DEF AskedInv, Up, Known
<1>11. EditInv'
       BY <1>1 DEF EditInv, EditEndsWith
<1>12. QED BY <1>4, <1>5, <1>6, <1>7, <1>8, <1>9, <1>10, <1>11 DEF TellsInv

-----------------------------------------------------------------------------
\* The invariant.

\* The stores are empty, or hold reports from before there were boards.
LEMMA InitHolds == Init => IInv
<1> SUFFICES ASSUME Init
             PROVE  IInv
    OBVIOUS
<1> DEFINE old(ks) == [boards |-> Nothing, items |-> [k \in ks |-> Unsaid]]
<1>1. DOMAIN Nothing = {} /\ Nothing \in [{} -> Names] /\ Nothing \in [{} -> Items]
      BY DEF Nothing
<1>2. /\ file \in Contents /\ DOMAIN file.boards = {}
      /\ store # "insights" => DOMAIN file.items = {}
  <2>1. CASE file = [boards |-> Nothing, items |-> Nothing]
    <3>1. file \in Contents
          BY <2>1, <1>1, ContentsMade
    <3>2. QED BY <3>1, <2>1, <1>1
  <2>2. CASE \E ks \in SUBSET Keys : store = "insights" /\ file = old(ks)
    <3>1. PICK ks \in SUBSET Keys : store = "insights" /\ file = old(ks)
          BY <2>2
    <3>2. [k \in ks |-> Unsaid] \in [ks -> Items]
          BY DEF Items
    <3>3. file \in Contents
          BY <3>1, <3>2, <1>1, ContentsMade
    <3>4. file.boards = Nothing
          BY <3>1
    <3>5. QED BY <3>1, <3>3, <3>4, <1>1
  <2>3. QED BY <2>1, <2>2 DEF Init
<1>3. file # Torn /\ \A p \in Processes : ~Up(p) /\ unsaved[p] = {}
      BY <1>2, ContentsParts DEF Init, Up
<1>4. TypeInv
      BY <1>2, <1>3, SidecarAssumption DEF Init, TypeInv, Processes
<1>5. MemFile /\ MemTrue /\ ToldTrue
      BY <1>3 DEF Init, MemFile, MemTrue, ToldTrue
<1>6. Marks /\ BoardsInv
      BY <1>2, <1>3 DEF Init, Marks, BoardsInv
<1>7. AskedInv /\ EditInv
      BY <1>2, <1>3 DEF Init, AskedInv, EditInv
<1>8. QED BY <1>4, <1>5, <1>6, <1>7 DEF IInv, TellsInv

\* Every step keeps the invariant.
LEMMA StepKeeps == IInv /\ [Next]_vars => IInv'
<1> SUFFICES ASSUME IInv, [Next]_vars
             PROVE  IInv'
    OBVIOUS
<1>1. CASE UNCHANGED vars
  <2>1. TellsInv'
        BY <1>1, Untouched DEF vars, IInv
  <2>2. QED BY <2>1, <1>1 DEF vars, IInv, AskedInv, EditInv, Up, Known
<1>2. ASSUME NEW p \in Processes, Open(p)
      PROVE  IInv'
      BY <1>2, OpenKeeps DEF IInv
<1>3. ASSUME NEW p \in Processes, Stop(p)
      PROVE  IInv'
      BY <1>3, StopKeeps DEF IInv
<1>4. ASSUME NEW p \in Processes, Calls(p)
      PROVE  IInv'
      BY <1>4, InsightsKeep, SurveysKeep, PlainKeep DEF Calls
<1>5. QED BY <1>1, <1>2, <1>3, <1>4 DEF Next

\* The stores and what is said of them are well formed, for every number of keys and boards.
THEOREM TypeCorrect == Spec => []TypeInv
<1>1. IInv => TypeInv
      BY DEF IInv, TellsInv
<1>2. QED BY <1>1, InitHolds, StepKeeps, PTL DEF Spec

\* What the last call that returned said of a key is what the file holds, across failed writes,
\* crashes in the middle of a write, restarts and a second process; the keys of which that
\* cannot be said are the ones ToldTrue names.
THEOREM SaidIsSaved == Spec => []ToldTrue
<1>1. IInv => ToldTrue
      BY DEF IInv, TellsInv
<1>2. QED BY <1>1, InitHolds, StepKeeps, PTL DEF Spec

\* Every report is on a board that exists, no two boards have one name, and the default board
\* is there, in each process and in what the next Open makes of the file.
THEOREM ReportsHaveBoards == Spec => []BoardsHold
<1>1. IInv => BoardsHold
  <2> SUFFICES ASSUME IInv, store = "insights",
                      NEW c \in {mem[p] : p \in {q \in Processes : Up(q)}} \cup {Adopted(file)}
               PROVE  /\ Default \in DOMAIN c.boards
                      /\ Range(c.items) \subseteq DOMAIN c.boards
                      /\ IsInjective(c.boards)
      BY DEF BoardsHold
  <2>1. BoardsInv /\ file \in Contents
        BY DEF IInv, TellsInv, TypeInv, BoardsInv
  <2>2. Good(Adopted(file))
        BY <2>1, AdoptedGood DEF BoardsInv
  <2>3. Good(c)
        BY <2>1, <2>2 DEF BoardsInv
  <2>4. QED BY <2>3 DEF Good, Range, IsInjective
<1>2. QED BY <1>1, InitHolds, StepKeeps, PTL DEF Spec
=============================================================================

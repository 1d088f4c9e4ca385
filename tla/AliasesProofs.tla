---------------------------- MODULE AliasesProofs ----------------------------
(***************************************************************************)
(* Theorems about Aliases, for every set of kinds and times, whatever ids  *)
(* they join, and every number of events and of erasures that fail.        *)
(***************************************************************************)
EXTENDS Aliases, LogLemmas

-----------------------------------------------------------------------------
\* The inductive invariant.

Logged == [user : Ids, name : {k.name : k \in Kinds}, at : Times,
           plan : {k.plan : k \in Kinds}, set : {k.set : k \in Kinds}]

Identifying == {k \in Kinds : k.prev # NoOne}

\* What the log holds, the ids that are joined and those they are joined to.
TypeOK ==
    /\ log \in Seq(Logged)
    /\ aliases \in [DOMAIN aliases -> {k.user : k \in Identifying}]
    /\ DOMAIN aliases \subseteq {k.prev : k \in Identifying}

\* The ids an erasure owes are still one person, so that asking for any of
\* them again finds the others.
OwedTogether == \A ids \in owed : \A x, y \in ids : Resolve(x) = Resolve(y)

IInv == TypeOK /\ OwedTogether

-----------------------------------------------------------------------------
\* The alias map.

\* An erasure reaches every id the reports show as the person, chains or not.
LEMMA PersonReaches ==
    ASSUME NEW id, NEW x, Resolve(x) = Resolve(id)
    PROVE  x \in Person(id)
BY DEF Person, AliasesOf, Resolve

\* What joining two ids makes of the map.
LEMMA AddMaps ==
    ASSUME NEW k \in Kinds, k.prev # k.user, aliases' = Add(aliases, k.prev, k.user)
    PROVE  /\ DOMAIN aliases' = DOMAIN aliases \cup {k.prev}
           /\ aliases'[k.prev] = Resolve(k.user)
           /\ \A id \in DOMAIN aliases \ {k.prev} : aliases'[id] = aliases[id]
           /\ aliases' = [id \in DOMAIN aliases' |-> aliases'[id]]
BY DEF Add, Resolve

\* Forgetting a person keeps what everyone else resolves to.
LEMMA ForgetMaps ==
    ASSUME NEW id, aliases' = Forget(Resolve(id))
    PROVE  /\ DOMAIN aliases' = {a \in DOMAIN aliases : a # Resolve(id) /\ aliases[a] # Resolve(id)}
           /\ \A a \in DOMAIN aliases' : aliases'[a] = aliases[a]
           /\ aliases' = [a \in DOMAIN aliases' |-> aliases'[a]]
           /\ \A x : x \notin Person(id) => Resolve(x)' = Resolve(x)
<1>1. /\ DOMAIN aliases' = {a \in DOMAIN aliases : a # Resolve(id) /\ aliases[a] # Resolve(id)}
      /\ \A a \in DOMAIN aliases' : aliases'[a] = aliases[a]
      /\ aliases' = [a \in DOMAIN aliases' |-> aliases'[a]]
  BY DEF Forget, RestrictDomain, Restrict
<1>2. ASSUME NEW x, x \notin Person(id) PROVE Resolve(x)' = Resolve(x)
  BY <1>1, <1>2 DEF Person, AliasesOf, Resolve
<1>3. QED
  BY <1>1, <1>2

-----------------------------------------------------------------------------
\* Every step keeps the invariant.

LEMMA InitInv == Init => IInv
<1> SUFFICES ASSUME Init PROVE IInv
  OBVIOUS
<1>1. log \in Seq(Logged)
  BY DEF Init
<1>2. DOMAIN aliases = {} /\ aliases \in [DOMAIN aliases -> {k.user : k \in Identifying}]
  BY DEF Init
<1>3. QED
  BY <1>1, <1>2 DEF IInv, Init, TypeOK, OwedTogether

LEMMA IngestKeeps ==
    ASSUME IInv, NEW k \in Kinds, NEW t \in Times, Ingest(k, t)
    PROVE  IInv'
<1>1. log' \in Seq(Logged)
  <2>1. [user |-> k.user, name |-> k.name, at |-> t, plan |-> k.plan, set |-> k.set] \in Logged
    BY DEF Logged, Ids
  <2>2. QED
    BY <2>1 DEF IInv, TypeOK, Ingest
<1>2. TypeOK'
  <2>1. CASE k.prev = NoOne \/ k.prev = k.user
    <3>1. aliases' = aliases
      BY <2>1 DEF Ingest, Add
    <3>2. QED
      BY <1>1, <3>1 DEF IInv, TypeOK
  <2>2. CASE k.prev # NoOne /\ k.prev # k.user
    <3>1. k \in Identifying /\ aliases' = Add(aliases, k.prev, k.user)
      BY <2>2 DEF Ingest, Identifying
    <3>2. Resolve(k.user) \in {l.user : l \in Identifying}
      BY <3>1 DEF IInv, TypeOK, Resolve
    <3>3. QED
      BY <1>1, <2>2, <3>1, <3>2, AddMaps DEF IInv, TypeOK
  <2>3. QED
    BY <2>1, <2>2
<1>3. OwedTogether'
  <2>1. ASSUME NEW ids \in owed', NEW x \in ids, NEW y \in ids PROVE Resolve(x)' = Resolve(y)'
    <3>1. PICK before \in owed : ids = {z \in before : Resolve(z)' = Resolve(z)}
      BY <2>1 DEF Ingest
    <3>2. QED
      BY <2>1, <3>1 DEF IInv, OwedTogether
  <2>2. QED
    BY <2>1 DEF OwedTogether
<1>4. QED
  BY <1>2, <1>3 DEF IInv

LEMMA DeleteUserKeeps ==
    ASSUME IInv, NEW id, DeleteUser(id)
    PROVE  IInv'
<1>1. log' \in Seq(Logged)
  BY WithoutType DEF IInv, TypeOK, DeleteUser
<1>2. aliases' = Forget(Resolve(id))
  BY DEF DeleteUser
<1>3. TypeOK'
  BY <1>1, <1>2, ForgetMaps DEF IInv, TypeOK
<1>4. OwedTogether'
  <2>1. ASSUME NEW ids \in owed', NEW x \in ids, NEW y \in ids PROVE Resolve(x)' = Resolve(y)'
    <3>1. PICK before \in owed : ids = before \ Person(id)
      BY <2>1 DEF DeleteUser
    <3>2. Resolve(x) = Resolve(y) /\ x \notin Person(id) /\ y \notin Person(id)
      BY <2>1, <3>1 DEF IInv, OwedTogether
    <3>3. QED
      BY <1>2, <3>2, ForgetMaps
  <2>2. QED
    BY <2>1 DEF OwedTogether
<1>5. QED
  BY <1>3, <1>4 DEF IInv

LEMMA DeleteUserFailsKeeps ==
    ASSUME IInv, NEW id, DeleteUserFails(id)
    PROVE  IInv'
<1>1. log' \in Seq(Logged)
  BY WithoutType DEF IInv, TypeOK, DeleteUserFails
<1>2. aliases' = aliases /\ owed' = owed \cup {IdsShown(id)}
  BY DEF DeleteUserFails
<1>3. OwedTogether'
  BY <1>2 DEF IInv, OwedTogether, IdsShown, Resolve
<1>4. QED
  BY <1>1, <1>2, <1>3 DEF IInv, TypeOK

LEMMA NextInv == IInv /\ [Next]_vars => IInv'
<1> SUFFICES ASSUME IInv, [Next]_vars PROVE IInv'
  OBVIOUS
<1>1. CASE Clear
  <2>1. log' \in Seq(Logged)
    BY <1>1 DEF Clear
  <2>2. DOMAIN aliases' = {} /\ aliases' \in [DOMAIN aliases' -> {k.user : k \in Identifying}]
    BY <1>1 DEF Clear
  <2>3. QED
    BY <1>1, <2>1, <2>2 DEF Clear, IInv, TypeOK, OwedTogether
<1>2. CASE UNCHANGED vars
  BY <1>2 DEF vars, IInv, TypeOK, OwedTogether, Resolve
<1>3. QED
  BY <1>1, <1>2, IngestKeeps, DeleteUserKeeps, DeleteUserFailsKeeps DEF Next

-----------------------------------------------------------------------------
\* The theorems.

\* The log holds events, and the map joins ids that identity events carry to
\* users that they name, which need not be the end of a chain (alias.go:50).
THEOREM TypeCorrect == Spec => []TypeOK
<1>1. IInv => TypeOK
  BY DEF IInv
<1>2. QED
  BY <1>1, InitInv, NextInv, PTL DEF Spec

\* An erasure takes the events of everyone who resolves to the person, and with
\* them of all that an earlier one still owed.
LEMMA ErasureTakesAll ==
    ASSUME IInv, NEW id, DeleteUser(id), NEW e \in ToSet(log')
    PROVE  /\ Resolve(e.user) # Resolve(id)
           /\ \A ids \in owed : id \in ids => e.user \notin ids
<1>1. log \in Seq(Logged) /\ log' = Without(log, EventsOf(Person(id)))
  BY DEF IInv, TypeOK, DeleteUser
<1>2. e \in ToSet(log) /\ e \notin EventsOf(Person(id))
  BY <1>1, WithoutKeeps
<1>3. e.user \notin Person(id)
  BY <1>2 DEF EventsOf
<1>4. Resolve(e.user) # Resolve(id)
  BY <1>3, PersonReaches
<1>5. QED
  BY <1>4 DEF IInv, OwedTogether

\* A DeleteUser that returns nil leaves no event the reports show as the
\* person's, nor one under an id that failed erasures before it were to remove
\* together with the id asked for, however many of them failed; an id that was
\* joined to another person in between is no longer one of those.
THEOREM ErasureTakesThePerson == Spec => ErasureCompletes
<1>1. IInv /\ [Next]_vars
      => [\A id \in Ids : DeleteUser(id) =>
             \A e \in ToSet(log') : /\ Resolve(e.user) # Resolve(id)
                                    /\ \A ids \in owed : id \in ids => e.user \notin ids]_vars
  BY ErasureTakesAll
<1>2. QED
  BY <1>1, InitInv, NextInv, PTL DEF Spec, ErasureCompletes

-----------------------------------------------------------------------------
\* Chains.

\* Joining an id nobody is joined to builds no chain.
LEMMA AddKeepsOneHop ==
    ASSUME OneHop, NEW k \in Kinds, AliasesOf(k.prev) = {},
           aliases' = Add(aliases, k.prev, k.user)
    PROVE  OneHop'
<1>1. CASE k.prev = k.user
  BY <1>1 DEF Add, OneHop, Resolve
<1>2. CASE k.prev # k.user
  <2>1. ASSUME NEW id, id # k.prev PROVE Resolve(id)' = Resolve(id) /\ Resolve(id) # k.prev
    BY <1>2, <2>1, AddMaps DEF Resolve, AliasesOf
  <2>2. aliases'[k.prev] = Resolve(k.user) /\ Resolve(k.user) # k.prev
    BY <1>2, <2>1, AddMaps
  <2>3. ASSUME NEW a \in DOMAIN aliases', aliases'[a] \in DOMAIN aliases'
        PROVE  aliases'[aliases'[a]] = aliases'[a]
    <3>1. PICK id : id # k.prev /\ aliases'[a] = Resolve(id)
      BY <1>2, <2>2, AddMaps DEF Resolve
    <3>2. Resolve(Resolve(id)) = Resolve(id)
      BY DEF OneHop, Resolve
    <3>3. Resolve(id) \in DOMAIN aliases /\ aliases'[Resolve(id)] = aliases[Resolve(id)]
      BY <1>2, <2>1, <2>3, <3>1, AddMaps
    <3>4. QED
      BY <3>1, <3>2, <3>3 DEF Resolve
  <2>4. QED
    BY <2>3 DEF OneHop, Resolve
<1>3. QED
  BY <1>1, <1>2

\* Forgetting a person builds none.
LEMMA ForgetKeepsOneHop ==
    ASSUME OneHop, NEW id, aliases' = Forget(Resolve(id))
    PROVE  OneHop'
<1>1. ASSUME NEW a \in DOMAIN aliases' PROVE aliases'[a] = aliases[a] /\ a \in DOMAIN aliases
  BY ForgetMaps
<1>2. ASSUME NEW a \in DOMAIN aliases', aliases[a] \in DOMAIN aliases'
      PROVE  aliases'[aliases[a]] = aliases[a]
  BY <1>1, <1>2 DEF OneHop, Resolve
<1>3. QED
  BY <1>1, <1>2 DEF OneHop, Resolve

\* A map in which every id is one hop from its person stays so, whatever
\* arrives, fails or is erased, but for an event that joins an id others are
\* joined to.
THEOREM OnlyJoinsChain == Spec => HopsStayOne
<1>1. ASSUME [Next]_vars, OneHop,
             ~\E k \in Kinds, t \in Times : AliasesOf(k.prev) # {} /\ Ingest(k, t)
      PROVE  OneHop'
  <2>1. ASSUME NEW k \in Kinds, NEW t \in Times, Ingest(k, t) PROVE OneHop'
    <3>1. AliasesOf(k.prev) = {}
      BY <1>1, <2>1
    <3>2. aliases' = aliases \/ aliases' = Add(aliases, k.prev, k.user)
      BY <2>1 DEF Ingest
    <3>3. aliases' = aliases => OneHop'
      BY <1>1 DEF OneHop, Resolve
    <3>4. QED
      BY <1>1, <3>1, <3>2, <3>3, AddKeepsOneHop
  <2>2. ASSUME NEW id, DeleteUser(id) PROVE OneHop'
    BY <1>1, <2>2, ForgetKeepsOneHop DEF DeleteUser
  <2>3. ASSUME NEW id, DeleteUserFails(id) PROVE OneHop'
    BY <1>1, <2>3 DEF DeleteUserFails, OneHop, Resolve
  <2>4. CASE Clear
    BY <2>4 DEF Clear, OneHop
  <2>5. CASE UNCHANGED vars
    BY <1>1, <2>5 DEF vars, OneHop, Resolve
  <2>6. QED
    BY <1>1, <2>1, <2>2, <2>3, <2>4, <2>5 DEF Next
<1>2. QED
  BY <1>1, PTL DEF Spec, HopsStayOne
=============================================================================

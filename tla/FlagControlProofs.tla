-------------------------- MODULE FlagControlProofs --------------------------
(***************************************************************************)
(* Flags, locked experiments and the safety pass: memory and the file      *)
(* agree, the lock yields to overtaken writes only, and a flag is pulled   *)
(* for two failures of its own experiment.  For every number of flags,     *)
(* operators, plans and arms, of calls, failed writes and restarts.        *)
(***************************************************************************)
EXTENDS FlagControl, TLAPS

-----------------------------------------------------------------------------
\* Types.

Pulling == {"pull", "record", "receipt"}

CallType ==
    [at : {"idle", "check", "write"},
     op : {"none", "create", "switch", "start", "plan", "status", "disable", "reason"},
     key : Keys \cup {None}, rec : RecordType \cup {None}, prev : RecordType \cup {None},
     late : BOOLEAN]

BreachType == [key : Keys, arm : Arms, failed : BOOLEAN, gap : 0 .. MinGap \cup {None}]

TodoType == UNION {[D -> RecordType] : D \in SUBSET Keys}

VerdictType ==
    [given : BOOLEAN, last : SUBSET Arms, since : 0 .. MinGap \cup {None}, twice : SUBSET Arms]

TypeInv ==
    /\ items \in [Keys -> RecordType \cup {None}]
    /\ heap \in [Objects -> ExperimentType]
    /\ disk \in [Keys -> StoredType \cup {None}]
    /\ call \in [Callers -> CallType]
    /\ pass \in [stage : {"idle", "run"} \cup Pulling, todo : TodoType,
                 breaches : SUBSET BreachType, target : TargetType \cup {None}]
    /\ delay \in 0 .. MaxDelay \cup {None}
    /\ verdicts \in [Starts -> VerdictType]
    /\ receipts \in [Starts -> Nat]
    /\ excused \subseteq Starts
    /\ faults \in Nat

-----------------------------------------------------------------------------
\* Who is where.

\* A caller that has not returned has a record to save; a plan or a start is one with an
\* experiment.
CallInv ==
    \A c \in Callers :
        /\ call[c].at = "idle" => call[c] = Idle
        /\ call[c].at # "idle" => call[c].key \in Keys /\ call[c].rec # None /\ call[c].op # "none"
        /\ call[c].op \in {"start", "plan"} => call[c].rec.exp # None
        /\ call[c].op = "start" => heap[call[c].rec.exp].start # None

\* The safety pass saves a status while it runs, a switch while it pulls and a reason before
\* its receipt; what it has listed is running.
PassInv ==
    /\ pass.stage = "idle" => pass = PassIdle
    /\ call["pass"].at # "idle" =>
           <<call["pass"].op, pass.stage>>
               \in {<<"status", "run">>, <<"disable", "pull">>, <<"reason", "receipt">>}
    /\ pass.stage \in Pulling => pass.target # None
    /\ \A k \in DOMAIN pass.todo : pass.todo[k].exp # None /\ heap[pass.todo[k].exp].start # None
    /\ \A b \in pass.breaches : b.key \notin DOMAIN pass.todo

\* The experiments the records of a flag refer to.
Listing(k) == IF k \in DOMAIN pass.todo THEN ExpOf(pass.todo[k]) ELSE {}

CallsOn(k) == {c \in Callers : call[c].key = k}

Holds(k) ==
    ExpOf(items[k]) \cup Listing(k)
        \cup UNION {ExpOf(call[c].rec) \cup ExpOf(call[c].prev) : c \in CallsOn(k)}

\* No two flags share an experiment, or the start of one.
Apart ==
    \A j, k \in Keys : j # k =>
        /\ Holds(j) \cap Holds(k) = {}
        /\ \A o \in Holds(j), p \in Holds(k) : heap[o].start # None => heap[o].start # heap[p].start

-----------------------------------------------------------------------------
\* Memory and the file.

\* The file has the flags of memory, with the same experiments, started at the same instants.
SamePlans ==
    \A k \in Keys :
        /\ (disk[k] = None) = (items[k] = None)
        /\ items[k] # None =>
               /\ disk[k].on = items[k].on
               /\ (disk[k].exp = None) = (items[k].exp = None)
               /\ items[k].exp # None =>
                      /\ disk[k].exp.start = heap[items[k].exp].start
                      /\ disk[k].exp.plan = heap[items[k].exp].plan

\* What the pass has written through a pointer and is about to save: its flag.
Unsaved ==
    IF call["pass"].at # "idle" /\ items[call["pass"].key] # None
       /\ items[call["pass"].key].exp = call["pass"].rec.exp
    THEN {call["pass"].key} ELSE {}

SavedInv == faults = 0 => \A k \in Keys \ Unsaved : disk[k] = Image(items, heap)[k]

\* The change a caller is about to write was valid when it looked.
ValidInv ==
    \A c \in Callers : call[c].at = "write" =>
        ValidatePlanChange(IF call[c].prev = None THEN None ELSE Value(call[c].prev.exp),
                           Value(call[c].rec.exp))

-----------------------------------------------------------------------------
\* Verdicts.

StartOn(k) == IF Experiment(k) = None THEN None ELSE Experiment(k).start

\* What an object is before anybody starts it, in memory and in the file; what a start is
\* before its first verdict.
Unstarted(exp) == exp.start = None => exp.age = 0 /\ exp.failing = {} /\ exp.checked = None

FreshInv ==
    /\ \A k \in Keys : \A o \in Holds(k) : Unstarted(heap[o])
    /\ \A k \in Keys : disk[k] # None /\ disk[k].exp # None => Unstarted(disk[k].exp)
    /\ \A s \in Starts : verdicts[s].since = None =>
           verdicts[s].last = {} /\ verdicts[s].twice = {}

\* The experiments whose verdicts count: those of a flag, of the list of the pass, and of the
\* callers that do not save an edited copy.
Main(k) ==
    ExpOf(items[k]) \cup Listing(k)
        \cup UNION {ExpOf(call[c].rec) : c \in {d \in CallsOn(k) : call[d].op # "plan"}}

\* One object per start, with the verdict that was given last.
VerdictInv ==
    \A k \in Keys : \A o \in Main(k) :
        heap[o].start # None /\ heap[o].start \notin excused =>
            /\ \A p \in Main(k) : heap[p].start = heap[o].start => p = o
            /\ heap[o].failing = verdicts[heap[o].start].last
            /\ heap[o].checked = verdicts[heap[o].start].since

Young == Period + MaxDelay

\* An experiment about to be saved for the first time: nobody else has it, and it is young.
Pending(c) ==
    LET s == heap[call[c].rec.exp].start
    IN /\ heap[call[c].rec.exp].age <= IF call[c].late THEN Young ELSE 0
       /\ \A k \in Keys : StartOn(k) # s
       /\ \A k \in DOMAIN pass.todo : heap[pass.todo[k].exp].start # s
       /\ \A d \in Callers \ {c} : \A o \in ExpOf(call[d].rec) : heap[o].start # s
       /\ s \notin excused => receipts[s] = 0 /\ (pass.stage \in Pulling => pass.target.start # s)

PendingInv == \A c \in Callers : call[c].op = "start" => Pending(c)

\* A flag whose experiment need not be asked about.
Exempt(k) == StartOn(k) \in excused \cup {None} \/ Experiment(k).age <= Young

\* What a pass has listed, or found to breach, is still what the flag carries.
BreachInv ==
    /\ \A k \in DOMAIN pass.todo : Exempt(k) \/ heap[pass.todo[k].exp].start = StartOn(k)
    /\ \A b \in pass.breaches :
           b.failed /\ b.gap = MinGap => Exempt(b.key) \/ b.arm \in verdicts[StartOn(b.key)].twice

\* A pulled experiment has the marks of its pull.
PulledInv ==
    pass.stage \in Pulling /\ pass.target.start \notin excused =>
        /\ pass.target.start # None
        /\ pass.target.arm \in verdicts[pass.target.start].twice
        /\ receipts[pass.target.start] = 0
        /\ \A k \in Keys \ {pass.target.key} : \A o \in Holds(k) : heap[o].start # pass.target.start
        /\ pass.stage = "receipt" /\ StartOn(pass.target.key) = pass.target.start =>
               Experiment(pass.target.key).reverted

MarkedInv ==
    \A s \in Starts \ excused :
        /\ receipts[s] <= 1
        /\ receipts[s] = 1 => \A k \in Keys : StartOn(k) = s => Experiment(k).reverted

RevertInv == FreshInv /\ VerdictInv /\ PendingInv /\ BreachInv /\ PulledInv /\ MarkedInv


-----------------------------------------------------------------------------
\* Types.

\* The numbers are numbers, and nil is none of the things it stands for the lack of.
LEMMA Numbers ==
    /\ Period \in Nat /\ MaxDelay \in Nat /\ MinGap \in Nat /\ Warmup \in Nat
    /\ MaxCalls \in Nat /\ MaxFaults \in Nat
    /\ None \notin Objects /\ None \notin Starts /\ None \notin Keys /\ None \notin Nat
    /\ None \notin ExperimentType /\ None \notin RecordType /\ None \notin StoredType
    /\ None \notin TargetType
    /\ "pass" \notin Operators
BY FlagControlAssumption, NilAssumption

\* A blank plan is an experiment that was not started.
LEMMA BlankType ==
    /\ \A p \in Plans : Plan(p) \in ExperimentType
    /\ Blank \in ExperimentType /\ Blank.start = None /\ Blank.age = 0 /\ Blank.failing = {}
    /\ Blank.checked = None
<1>1. \A p \in Plans : Plan(p) \in ExperimentType
  BY Numbers DEF Plan, ExperimentType
<1>2. (CHOOSE p \in Plans : TRUE) \in Plans
  BY FlagControlAssumption
<1>3. QED
  BY <1>1, <1>2 DEF Blank, Plan

\* A clock that stops at its largest reading.
LEMMA LaterType ==
    ASSUME NEW most \in Nat, NEW n \in 0 .. most, NEW t \in Nat
    PROVE  Later(n, t, most) \in 0 .. most /\ Later(n, t, most) >= n
BY DEF Later

\* Time changes the age of an experiment and of its last verdict, and nothing else.
LEMMA AgedType ==
    ASSUME NEW exp \in ExperimentType, NEW t \in Nat
    PROVE  /\ Aged(exp, t) \in ExperimentType
           /\ Aged(exp, t).plan = exp.plan /\ Aged(exp, t).start = exp.start
           /\ Aged(exp, t).failing = exp.failing /\ Aged(exp, t).reverted = exp.reverted
           /\ Aged(exp, t).age = IF exp.start = None THEN 0 ELSE Later(exp.age, t, Warmup)
           /\ Aged(exp, t).checked =
                  IF exp.checked = None THEN None ELSE Later(exp.checked, t, MinGap)
<1> DEFINE age     == IF exp.start = None THEN 0 ELSE Later(exp.age, t, Warmup)
           checked == IF exp.checked = None THEN None ELSE Later(exp.checked, t, MinGap)
<1>1. Aged(exp, t) = [exp EXCEPT !.age = age, !.checked = checked]
  BY DEF Aged
<1>2. exp.age \in 0 .. Warmup /\ exp.checked \in 0 .. MinGap \cup {None}
  BY DEF ExperimentType
<1>3. age \in 0 .. Warmup
  <2>1. Later(exp.age, t, Warmup) \in 0 .. Warmup
    BY <1>2, LaterType, Numbers
  <2>2. 0 \in 0 .. Warmup
    BY Numbers
  <2>3. QED
    BY <2>1, <2>2
<1>4. checked \in 0 .. MinGap \cup {None}
  <2>1. CASE exp.checked = None
    BY <2>1
  <2>2. CASE exp.checked \in 0 .. MinGap
    <3>1. Later(exp.checked, t, MinGap) \in 0 .. MinGap
      BY <2>2, LaterType, Numbers
    <3>2. QED
      BY <3>1
  <2>3. QED
    BY <1>2, <2>1, <2>2
<1>5. /\ Aged(exp, t) \in ExperimentType
      /\ Aged(exp, t).plan = exp.plan /\ Aged(exp, t).start = exp.start
      /\ Aged(exp, t).failing = exp.failing /\ Aged(exp, t).reverted = exp.reverted
      /\ Aged(exp, t).age = age /\ Aged(exp, t).checked = checked
  <2> HIDE DEF age, checked
  <2>1. QED
    BY <1>1, <1>3, <1>4 DEF ExperimentType
<1>6. QED
  BY <1>5

\* Starting a plan dates it, and nothing else.
LEMMA StartedType ==
    ASSUME NEW exp \in ExperimentType, NEW s \in Starts
    PROVE  /\ Started(exp, s) \in ExperimentType
           /\ Started(exp, s).plan = exp.plan /\ Started(exp, s).start = s
           /\ Started(exp, s).failing = exp.failing /\ Started(exp, s).reverted = exp.reverted
           /\ Started(exp, s).age = 0 /\ Started(exp, s).checked = exp.checked
<1>1. Started(exp, s) = [exp EXCEPT !.start = s, !.age = 0] /\ 0 \in 0 .. Warmup
  BY Numbers DEF Started
<1>2. QED
  BY <1>1 DEF ExperimentType

\* The experiment of a record is an address.
LEMMA ExpOfType ==
    ASSUME NEW rec \in RecordType \cup {None}
    PROVE  /\ ExpOf(rec) \subseteq Objects
           /\ rec # None => rec.on \in BOOLEAN /\ rec.exp \in Objects \cup {None}
           /\ rec # None /\ rec.exp # None => ExpOf(rec) = {rec.exp}
           /\ \A o \in ExpOf(rec) : rec # None /\ rec.exp = o
BY DEF ExpOf, RecordType

\* The parts of a caller, and of the pass.
LEMMA CallTypes ==
    ASSUME TypeInv, NEW c \in Callers
    PROVE  /\ call[c] \in CallType
           /\ call[c].at \in {"idle", "check", "write"}
           /\ call[c].key \in Keys \cup {None}
           /\ call[c].rec \in RecordType \cup {None} /\ call[c].prev \in RecordType \cup {None}
           /\ call[c].late \in BOOLEAN
BY DEF TypeInv, CallType

\* A caller that saves has a flag and a record.
LEMMA Busy ==
    ASSUME TypeInv, CallInv, NEW c \in Callers, call[c].at # "idle"
    PROVE  call[c].key \in Keys /\ call[c].rec \in RecordType /\ call[c].op # "none"
BY CallTypes DEF CallInv

\* The list of the pass is a list of records.
LEMMA TodoTypes ==
    ASSUME TypeInv
    PROVE  /\ pass.todo = [x \in DOMAIN pass.todo |-> pass.todo[x]]
           /\ DOMAIN pass.todo \subseteq Keys
           /\ \A k \in DOMAIN pass.todo : pass.todo[k] \in RecordType
           /\ pass.breaches \subseteq BreachType
           /\ pass.target \in TargetType \cup {None}
           /\ pass.stage \in {"idle", "run"} \cup Pulling
BY DEF TypeInv, TodoType

\* Part of a list is a list.
LEMMA UnreadType ==
    ASSUME TypeInv, NEW k
    PROVE  /\ Unread(k) \in TodoType
           /\ DOMAIN Unread(k) = DOMAIN pass.todo \ {k}
           /\ \A x \in DOMAIN Unread(k) : Unread(k)[x] = pass.todo[x]
<1>1. Unread(k) \in [DOMAIN pass.todo \ {k} -> RecordType]
  BY TodoTypes DEF Unread
<1>2. DOMAIN pass.todo \ {k} \in SUBSET Keys
  BY TodoTypes
<1>3. QED
  BY <1>1, <1>2 DEF TodoType, Unread

\* A caller at rest is a caller.
LEMMA IdleType == Idle \in CallType
BY DEF CallType, Idle

\* A request that starts.
LEMMA SavingType ==
    ASSUME TypeInv, NEW c \in Callers, NEW k \in Keys, NEW rec \in RecordType,
           NEW op \in {"create", "switch", "start", "plan", "status", "disable", "reason"},
           Saving(c, op, k, rec)
    PROVE  /\ call' \in [Callers -> CallType]
           /\ \A d \in Callers \ {c} : call'[d] = call[d]
           /\ call'[c] = [at |-> "check", op |-> op, key |-> k, rec |-> rec, prev |-> None,
                          late |-> FALSE]
<1> DEFINE new == [at |-> "check", op |-> op, key |-> k, rec |-> rec, prev |-> None, late |-> FALSE]
<1>1. [Idle EXCEPT !.at = "check", !.op = op, !.key = k, !.rec = rec] = new
  <2>1. PICK idle \in CallType : idle = Idle
    BY IdleType
  <2>2. idle.prev = None /\ idle.late = FALSE
    BY <2>1 DEF Idle
  <2> DEFINE saving == [idle EXCEPT !.at = "check", !.op = op, !.key = k, !.rec = rec]
  <2>3. /\ saving \in CallType
        /\ saving.at = "check" /\ saving.op = op /\ saving.key = k /\ saving.rec = rec
        /\ saving.prev = idle.prev /\ saving.late = idle.late
    BY DEF CallType
  <2>4. saving = [at |-> saving.at, op |-> saving.op, key |-> saving.key, rec |-> saving.rec,
                  prev |-> saving.prev, late |-> saving.late]
    <3> HIDE DEF saving
    <3>1. QED
      BY <2>3 DEF CallType
  <2>5. saving = new
    <3> HIDE DEF saving
    <3>1. QED
      BY <2>2, <2>3, <2>4
  <2>6. QED
    BY <2>1, <2>5
<1>2. call' = [call EXCEPT ![c] = new]
  BY <1>1 DEF Saving
<1>3. new \in CallType
  BY DEF CallType
<1> HIDE DEF new
<1>4. call' \in [Callers -> CallType] /\ call'[c] = new /\ \A d \in Callers \ {c} : call'[d] = call[d]
  BY <1>2, <1>3 DEF TypeInv
<1>5. QED
  BY <1>4 DEF new

\* A request that returns; the pass goes on where its save was.
LEMMA ReturnsType ==
    ASSUME TypeInv, CallInv, PassInv, NEW c \in Callers, call[c].at # "idle", NEW ok \in BOOLEAN,
           Returns(c, ok)
    PROVE  /\ call' \in [Callers -> CallType]
           /\ call'[c] = Idle
           /\ \A d \in Callers \ {c} : call'[d] = call[d]
           /\ pass'.todo = pass.todo /\ pass'.breaches = pass.breaches
           /\ pass'.target = pass.target
           /\ pass' = [stage |-> pass'.stage, todo |-> pass.todo, breaches |-> pass.breaches,
                       target |-> pass.target]
           /\ c # "pass" => pass' = pass
           /\ c = "pass" =>
                  pass'.stage = CASE pass.stage = "run" -> "run"
                                  [] pass.stage = "pull" -> IF ok THEN "record" ELSE "run"
                                  [] pass.stage = "receipt" -> "receipt"
<1>1. Idle \in CallType
  BY IdleType
<1>2. call' = [call EXCEPT ![c] = Idle]
  BY DEF Returns
<1>3. pass = [stage |-> pass.stage, todo |-> pass.todo, breaches |-> pass.breaches,
              target |-> pass.target]
  BY DEF TypeInv
<1>4. CASE c # "pass"
  <2>1. pass' = pass
    BY <1>4 DEF Returns
  <2>2. QED
    BY <1>1, <1>2, <1>3, <1>4, <2>1 DEF TypeInv
<1>5. CASE c = "pass"
  <2> DEFINE next == Resumes(call[c].op, ok)
  <2>1. <<call["pass"].op, pass.stage>>
            \in {<<"status", "run">>, <<"disable", "pull">>, <<"reason", "receipt">>}
    BY <1>5 DEF PassInv
  <2>2. next = CASE pass.stage = "run" -> "run"
                 [] pass.stage = "pull" -> IF ok THEN "record" ELSE "run"
                 [] pass.stage = "receipt" -> "receipt"
    BY <1>5, <2>1 DEF Resumes
  <2> HIDE DEF next
  <2>3. pass' = [pass EXCEPT !.stage = next]
    BY <1>5 DEF Returns, next
  <2>4. pass'.stage = next /\ pass'.todo = pass.todo /\ pass'.breaches = pass.breaches
        /\ pass'.target = pass.target
        /\ pass' = [stage |-> pass'.stage, todo |-> pass.todo, breaches |-> pass.breaches,
                    target |-> pass.target]
    BY <1>3, <2>3
  <2>5. QED
    BY <1>1, <1>2, <1>5, <2>2, <2>4 DEF TypeInv
<1>6. QED
  BY <1>4, <1>5

-----------------------------------------------------------------------------
\* What a step does to the experiments and to the callers.

\* The steps that are no restart.
Runs ==
    \/ \E c \in Operators, k \in Keys : Operate(c, k)
    \/ \E c \in Operators : RequestStep(c)
    \/ SafetyStep
    \/ UNCHANGED vars

Inv == TypeInv /\ CallInv /\ PassInv

\* The requests of the API and of the pass are requests of callers.
LEMMA Kinds ==
    ASSUME Runs
    PROVE  \/ \E c \in Operators, k \in Keys, on \in BOOLEAN : Create(c, k, on) \/ SetEnabled(c, k, on)
           \/ \E c \in Operators, k \in Keys, p \in Plans : CreateExperiment(c, k, p)
           \/ \E c \in Operators, k \in Keys, p \in Plans, start \in BOOLEAN :
                  ExperimentPlan(c, k, p, start)
           \/ \E c \in Operators, k \in Keys : Delete(c, k)
           \/ \E c \in Callers : Check(c) \/ Write(c) \/ WriteFails(c)
           \/ StartPass \/ EndPass
           \/ \E k \in Keys : SkipUnread(k)
           \/ \E k \in Keys, failing \in SUBSET Arms : Evaluate(k, failing)
           \/ \E b \in pass.breaches : Decide(b)
           \/ Pull \/ Record \/ Receipt
           \/ UNCHANGED vars
<1>1. CASE \E c \in Operators, k \in Keys : Operate(c, k)
  BY <1>1 DEF Operate
<1>2. CASE \E c \in Operators : RequestStep(c)
  BY <1>2 DEF RequestStep, Callers
<1>3. CASE SafetyStep
  BY <1>3 DEF SafetyStep, RequestStep, Callers
<1>4. QED
  BY <1>1, <1>2, <1>3 DEF Runs

\* Every experiment a flag or a caller refers to is reachable.
LEMMA Referred ==
    /\ \A k \in Keys : ExpOf(items[k]) \subseteq Reachable
    /\ \A c \in Callers : ExpOf(call[c].rec) \subseteq Reachable /\ ExpOf(call[c].prev) \subseteq Reachable
    /\ \A k \in DOMAIN pass.todo : ExpOf(pass.todo[k]) \subseteq Reachable
BY DEF Reachable

\* What a request of an operator makes: an object nobody has, started now or as the flag's is,
\* with no verdict or with that of the flag's experiment.
Makes(c, op, k, rec) ==
    /\ Fresh(rec.exp) /\ rec.exp \in Objects
    /\ op = "start" => heap'[rec.exp].age = 0 /\ \E s \in Starts : Unused(s) /\ heap'[rec.exp].start = s
    /\ op = "plan" => heap'[rec.exp].start = StartOn(k)
    /\ \/ /\ heap'[rec.exp].failing = {} /\ heap'[rec.exp].checked = None
          /\ op = "plan" => heap'[rec.exp].age = 0
       \/ /\ Experiment(k) # None
          /\ heap'[rec.exp].failing = Experiment(k).failing
          /\ heap'[rec.exp].checked = Experiment(k).checked
          /\ op = "start" => StartOn(k) = None
          /\ op = "plan" => heap'[rec.exp].age = Experiment(k).age

\* A request that starts: for the flag's experiment, or one nobody has.
Begins(c, op, k, rec) ==
    /\ call[c] = Idle /\ Saving(c, op, k, rec)
    /\ \/ ExpOf(rec) \subseteq ExpOf(items[k]) \cup Listing(k) /\ op \notin {"start", "plan"}
       \/ Makes(c, op, k, rec) /\ op \in {"start", "plan"} /\ c \in Operators

Requests == {"create", "switch", "start", "plan", "status", "disable", "reason"}

BeginsOne ==
    \E c \in Callers, op \in Requests, k \in Keys, rec \in RecordType : Begins(c, op, k, rec)

\* What a request that starts does to the callers.
LEMMA BeginsType ==
    ASSUME TypeInv, NEW c \in Callers, NEW op \in Requests, NEW k \in Keys, NEW rec \in RecordType,
           Begins(c, op, k, rec)
    PROVE  /\ call[c] = Idle
           /\ call' \in [Callers -> CallType]
           /\ \A d \in Callers \ {c} : call'[d] = call[d]
           /\ call'[c] = [at |-> "check", op |-> op, key |-> k, rec |-> rec, prev |-> None,
                          late |-> FALSE]
<1>1. Saving(c, op, k, rec) /\ call[c] = Idle
  BY DEF Begins
<1>2. op \in {"create", "switch", "start", "plan", "status", "disable", "reason"}
  BY DEF Requests
<1>3. QED
  BY <1>1, <1>2, SavingType

\* The experiment of a flag is an object of its type.
LEMMA ExperimentOf ==
    ASSUME TypeInv, NEW k \in Keys
    PROVE  /\ items[k] # None => items[k] \in RecordType
           /\ Experiment(k) # None =>
                  /\ items[k] # None /\ items[k].exp \in Objects /\ items[k].exp # None
                  /\ ExpOf(items[k]) = {items[k].exp}
                  /\ Experiment(k) = heap[items[k].exp]
                  /\ Experiment(k) \in ExperimentType
           /\ items[k] # None /\ items[k].exp # None => Experiment(k) = heap[items[k].exp] /\ Experiment(k) # None
           /\ Experiment(k) = None => ExpOf(items[k]) = {}
           /\ StartOn(k) \in Starts \cup {None}
<1>1. items[k] \in RecordType \cup {None}
  BY DEF TypeInv
<1>2. CASE items[k] = None \/ items[k].exp = None
  BY <1>1, <1>2 DEF Experiment, ExpOf, StartOn, Value
<1>3. CASE items[k] # None /\ items[k].exp # None
  <2>1. items[k].exp \in Objects
    BY <1>1, <1>3 DEF RecordType
  <2>2. heap[items[k].exp] \in ExperimentType
    BY <2>1 DEF TypeInv
  <2>3. Experiment(k) = heap[items[k].exp]
    BY <1>3 DEF Experiment, Value
  <2>4. Experiment(k) # None
    BY <2>2, <2>3, Numbers
  <2>5. StartOn(k) \in Starts \cup {None}
    BY <2>2, <2>3, <2>4 DEF StartOn, ExperimentType
  <2>6. QED
    BY <1>1, <1>3, <2>1, <2>2, <2>3, <2>4, <2>5 DEF ExpOf
<1>4. QED
  BY <1>2, <1>3

\* create_flag and the switches.
LEMMA CreateBegins ==
    ASSUME Inv, NEW c \in Operators, NEW k \in Keys, NEW on \in BOOLEAN, Create(c, k, on)
    PROVE  BeginsOne
<1> DEFINE rec == [on |-> on, exp |-> None]
<1>1. rec \in RecordType /\ ExpOf(rec) = {}
  BY DEF RecordType, ExpOf
<1>2. call[c] = Idle /\ Saving(c, "create", k, rec) /\ c \in Callers
  BY DEF Create, Calls, Callers
<1> HIDE DEF rec
<1>3. Begins(c, "create", k, rec)
  BY <1>1, <1>2 DEF Begins
<1>4. QED
  BY <1>1, <1>2, <1>3 DEF BeginsOne, Requests

\* The switches save the record as it is, on or off.
LEMMA SwitchBegins ==
    ASSUME Inv, NEW c \in Operators, NEW k \in Keys, NEW on \in BOOLEAN, SetEnabled(c, k, on)
    PROVE  BeginsOne
<1> DEFINE rec == [items[k] EXCEPT !.on = on]
<1>1. rec \in RecordType /\ rec.exp = items[k].exp /\ items[k] # None
  BY ExperimentOf DEF RecordType, SetEnabled, Inv
<1>2. call[c] = Idle /\ Saving(c, "switch", k, rec) /\ c \in Callers
  BY DEF SetEnabled, Calls, Callers
<1> HIDE DEF rec
<1>3. ExpOf(rec) \subseteq ExpOf(items[k])
  BY <1>1, Numbers DEF ExpOf
<1>4. Begins(c, "switch", k, rec)
  BY <1>2, <1>3 DEF Begins
<1>5. QED
  BY <1>1, <1>2, <1>4 DEF BeginsOne, Requests

\* apiCreateExperiment begins with a new plan, started.
LEMMA CreateExperimentBegins ==
    ASSUME Inv, NEW c \in Operators, NEW k \in Keys, NEW p \in Plans, CreateExperiment(c, k, p)
    PROVE  /\ BeginsOne
           /\ heap' \in [Objects -> ExperimentType]
           /\ \A o \in Reachable : heap'[o] = heap[o]
<1>1. PICK o \in Objects, s \in Starts :
          /\ Fresh(o) /\ Unused(s)
          /\ Saving(c, "start", k, [on |-> items[k] # None /\ items[k].on, exp |-> o])
          /\ heap' = [heap EXCEPT ![o] = Started(Plan(p), s)]
  BY DEF CreateExperiment
<1> DEFINE on  == items[k] # None /\ items[k].on
           rec == [on |-> on, exp |-> o]
<1>2. on \in BOOLEAN
  OBVIOUS
<1>3. rec \in RecordType /\ rec.exp = o
  <2> HIDE DEF on
  <2>1. QED
    BY <1>2 DEF RecordType
<1>4. Saving(c, "start", k, rec) /\ call[c] = Idle /\ c \in Callers
  BY <1>1 DEF CreateExperiment, Calls, Callers
<1> HIDE DEF rec, on
<1>5. /\ Started(Plan(p), s) \in ExperimentType /\ Started(Plan(p), s).start = s
      /\ Started(Plan(p), s).age = 0 /\ Started(Plan(p), s).failing = {}
      /\ Started(Plan(p), s).checked = None
  <2>1. Plan(p) \in ExperimentType /\ Plan(p).failing = {} /\ Plan(p).checked = None
    BY BlankType DEF Plan
  <2>2. QED
    BY <2>1, StartedType
<1>6. /\ heap' \in [Objects -> ExperimentType]
      /\ heap'[o].start = s /\ heap'[o].age = 0 /\ heap'[o].failing = {} /\ heap'[o].checked = None
      /\ \A x \in Objects \ {o} : heap'[x] = heap[x]
  BY <1>1, <1>5 DEF Inv, TypeInv
<1>7. o \notin Reachable
  BY <1>1 DEF Fresh
<1>8. \A x \in Reachable : heap'[x] = heap[x]
  BY <1>1, <1>7 DEF Inv, TypeInv
<1>9. Begins(c, "start", k, rec)
  BY <1>1, <1>3, <1>4, <1>6 DEF Begins, Makes
<1>10. QED
  BY <1>3, <1>4, <1>6, <1>8, <1>9 DEF BeginsOne, Requests

\* experiment_plan begins with a copy, edited, and started if it was not.
LEMMA PlanBegins ==
    ASSUME Inv, NEW c \in Operators, NEW k \in Keys, NEW p \in Plans, NEW start \in BOOLEAN,
           ExperimentPlan(c, k, p, start)
    PROVE  /\ BeginsOne
           /\ heap' \in [Objects -> ExperimentType]
           /\ \A o \in Reachable : heap'[o] = heap[o]
<1> DEFINE old  == IF items[k].exp = None THEN Plan(p) ELSE Value(items[k].exp)
           copy == [old EXCEPT !.plan = p]
           op   == IF start THEN "start" ELSE "plan"
<1>1. PICK o \in Objects, s \in Starts :
          /\ Fresh(o) /\ Unused(s)
          /\ start => copy.start = None
          /\ Saving(c, op, k, [items[k] EXCEPT !.exp = o])
          /\ heap' = [heap EXCEPT ![o] = IF start THEN Started(copy, s) ELSE copy]
  BY DEF ExperimentPlan
<1> DEFINE rec == [items[k] EXCEPT !.exp = o]
           new == IF start THEN Started(copy, s) ELSE copy
<1>2. items[k] # None /\ items[k] \in RecordType
  BY ExperimentOf DEF ExperimentPlan, Inv
<1>3. rec \in RecordType /\ rec.exp = o
  BY <1>2 DEF RecordType
<1>4. /\ old \in ExperimentType /\ old.start = StartOn(k)
      /\ \/ old.failing = {} /\ old.checked = None /\ old.age = 0
         \/ Experiment(k) # None /\ old = Experiment(k)
  <2>1. CASE items[k].exp = None
    <3>1. Experiment(k) = None
      BY <2>1, <1>2 DEF Experiment, Value
    <3>2. QED
      BY <2>1, <3>1, BlankType DEF Plan, StartOn
  <2>2. CASE items[k].exp # None
    BY <2>2, <1>2, ExperimentOf DEF Inv, Value, StartOn
  <2>3. QED
    BY <2>1, <2>2
<1>5. Saving(c, op, k, rec) /\ call[c] = Idle /\ c \in Callers
  BY <1>1 DEF ExperimentPlan, Calls, Callers
<1>6. /\ copy \in ExperimentType /\ copy.start = StartOn(k)
      /\ copy.failing = old.failing /\ copy.checked = old.checked /\ copy.age = old.age
  <2> HIDE DEF old
  <2>1. QED
    BY <1>4 DEF ExperimentType
<1>7. /\ new \in ExperimentType
      /\ op = "start" => new.start = s /\ new.age = 0 /\ StartOn(k) = None
      /\ op = "plan" => new.start = StartOn(k) /\ new.age = old.age
      /\ new.failing = old.failing /\ new.checked = old.checked
      /\ op \in {"start", "plan"}
  <2>1. op = "start" => copy.start = None
    BY <1>1
  <2> HIDE DEF copy
  <2>2. QED
    BY <1>6, <2>1, StartedType
<1> HIDE DEF rec, new, op, old
<1>8. heap' = [heap EXCEPT ![o] = new]
  BY <1>1 DEF new
<1>9. /\ heap' \in [Objects -> ExperimentType]
      /\ heap'[o] = new
      /\ \A x \in Objects \ {o} : heap'[x] = heap[x]
  BY <1>7, <1>8 DEF Inv, TypeInv
<1>10. o \notin Reachable
  BY <1>1 DEF Fresh
<1>11. \A x \in Reachable : heap'[x] = heap[x]
  BY <1>8, <1>10 DEF Inv, TypeInv
<1>12. Makes(c, op, k, rec)
  BY <1>1, <1>3, <1>4, <1>7, <1>9 DEF Makes
<1>13. Begins(c, op, k, rec)
  BY <1>5, <1>7, <1>12 DEF Begins
<1>14. QED
  BY <1>3, <1>5, <1>7, <1>9, <1>11, <1>13 DEF BeginsOne, Requests

\* An experiment on the list of the pass is an object of its type, and was started.
LEMMA Listed ==
    ASSUME Inv, NEW k \in DOMAIN pass.todo
    PROVE  /\ k \in Keys /\ pass.todo[k] \in RecordType
           /\ pass.todo[k].exp \in Objects /\ pass.todo[k].exp \in Reachable
           /\ Listing(k) = {pass.todo[k].exp}
           /\ heap[pass.todo[k].exp] \in ExperimentType
           /\ heap[pass.todo[k].exp].start \in Starts
<1>1. k \in Keys /\ pass.todo[k] \in RecordType /\ pass.todo[k].exp # None
      /\ heap[pass.todo[k].exp].start # None
  BY TodoTypes DEF Inv, PassInv
<1>2. pass.todo[k].exp \in Objects /\ ExpOf(pass.todo[k]) = {pass.todo[k].exp}
  BY <1>1, ExpOfType, Numbers
<1>3. heap[pass.todo[k].exp] \in ExperimentType
  BY <1>2 DEF Inv, TypeInv
<1>4. heap[pass.todo[k].exp].start \in Starts
  BY <1>1, <1>3 DEF ExperimentType
<1>5. QED
  BY <1>1, <1>2, <1>3, <1>4, Referred DEF Listing

\* The collector keeps the objects that are reachable.
LEMMA Collects ==
    ASSUME NEW h \in [Objects -> ExperimentType], Collected(h)
    PROVE  /\ heap' \in [Objects -> ExperimentType]
           /\ \A o \in Objects : o \in Reachable' => heap'[o] = h[o]
           /\ \A o \in Objects : heap'[o] \in {h[o], Blank}
BY BlankType DEF Collected

\* A verdict begins a save of the record as it was listed; it went through the pointer.
LEMMA EvaluateBegins ==
    ASSUME Inv, NEW k \in Keys, NEW failing \in SUBSET Arms, Evaluate(k, failing)
    PROVE  /\ BeginsOne
           /\ heap' \in [Objects -> ExperimentType]
           /\ \A o \in Objects : o \in Reachable' =>
                  /\ o # pass.todo[k].exp => heap'[o] = heap[o]
                  /\ o = pass.todo[k].exp =>
                         /\ heap'[o].plan = heap[o].plan /\ heap'[o].start = heap[o].start
                         /\ heap'[o].age = heap[o].age /\ heap'[o].reverted = heap[o].reverted
                         /\ heap'[o].failing = failing /\ heap'[o].checked = 0
<1> DEFINE rec == pass.todo[k]
           h1 == [heap EXCEPT ![rec.exp].failing = failing]
           h == [h1 EXCEPT ![rec.exp].checked = 0]
<1>1. k \in DOMAIN pass.todo /\ call["pass"] = Idle /\ Saving("pass", "status", k, rec) /\ Collected(h)
      /\ "pass" \in Callers
  BY DEF Evaluate, Callers
<1>2. rec \in RecordType /\ rec.exp \in Objects /\ ExpOf(rec) = Listing(k)
  BY <1>1, Listed DEF Listing
<1>3. h1 \in [Objects -> ExperimentType] /\ \A o \in Objects :
          /\ o # rec.exp => h1[o] = heap[o]
          /\ o = rec.exp =>
                 /\ h1[o].plan = heap[o].plan /\ h1[o].start = heap[o].start
                 /\ h1[o].age = heap[o].age /\ h1[o].reverted = heap[o].reverted
                 /\ h1[o].failing = failing
  <2> DEFINE new == [heap[rec.exp] EXCEPT !.failing = failing]
  <2>1. /\ new \in ExperimentType
        /\ new.plan = heap[rec.exp].plan /\ new.start = heap[rec.exp].start
        /\ new.age = heap[rec.exp].age /\ new.reverted = heap[rec.exp].reverted
        /\ new.failing = failing
    BY <1>1, Listed DEF ExperimentType
  <2>2. h1 = [heap EXCEPT ![rec.exp] = new]
    OBVIOUS
  <2> HIDE DEF new, h1, rec
  <2>3. QED
    BY <1>2, <2>1, <2>2 DEF Inv, TypeInv
<1>4. h \in [Objects -> ExperimentType] /\ \A o \in Objects :
          /\ o # rec.exp => h[o] = heap[o]
          /\ o = rec.exp =>
                 /\ h[o].plan = heap[o].plan /\ h[o].start = heap[o].start
                 /\ h[o].age = heap[o].age /\ h[o].reverted = heap[o].reverted
                 /\ h[o].failing = failing /\ h[o].checked = 0
  <2> DEFINE new == [h1[rec.exp] EXCEPT !.checked = 0]
  <2>0. 0 \in 0 .. MinGap
    BY Numbers
  <2>1. /\ new \in ExperimentType
        /\ new.plan = heap[rec.exp].plan /\ new.start = heap[rec.exp].start
        /\ new.age = heap[rec.exp].age /\ new.reverted = heap[rec.exp].reverted
        /\ new.failing = failing /\ new.checked = 0
    <3> HIDE DEF h1, rec
    <3>1. QED
      BY <1>2, <1>3, <2>0 DEF ExperimentType
  <2>2. h = [h1 EXCEPT ![rec.exp] = new]
    OBVIOUS
  <2> HIDE DEF new, h1, rec, h
  <2>3. QED
    BY <1>2, <1>3, <2>1, <2>2
<1> HIDE DEF h, h1, rec
<1>5. Begins("pass", "status", k, rec)
  BY <1>1, <1>2 DEF Begins
<1>6. BeginsOne
  BY <1>1, <1>2, <1>5 DEF BeginsOne, Requests
<1>7. QED
  BY <1>1, <1>4, <1>6, Collects DEF rec

\* A pull begins a save of the flag, off, if it is still there.
LEMMA PullBegins ==
    ASSUME Inv, Pull
    PROVE  \/ BeginsOne /\ UNCHANGED pass
           \/ pass.target # None /\ items[pass.target.key] = None /\ UNCHANGED call
              /\ pass' = [pass EXCEPT !.stage = "run"]
<1> DEFINE k   == pass.target.key
           rec == [items[k] EXCEPT !.on = FALSE]
<1>1. pass.target \in TargetType
  BY TodoTypes DEF Pull, Inv, PassInv, Pulling
<1>2. k \in Keys /\ pass.target # None
  BY <1>1, TodoTypes DEF TargetType, Pull, Inv, PassInv, Pulling
<1>3. CASE items[k] = None
  BY <1>2, <1>3 DEF Pull
<1>4. CASE items[k] # None
  <2>1. rec \in RecordType /\ rec.exp = items[k].exp
    BY <1>2, <1>4, ExperimentOf DEF RecordType, Inv
  <2>2. call["pass"] = Idle /\ Saving("pass", "disable", k, rec) /\ UNCHANGED pass /\ "pass" \in Callers
    BY <1>4 DEF Pull, Callers
  <2> HIDE DEF rec
  <2>3. ExpOf(rec) \subseteq ExpOf(items[k])
    BY <1>4, <2>1, Numbers DEF ExpOf
  <2>4. Begins("pass", "disable", k, rec)
    BY <2>2, <2>3 DEF Begins
  <2>5. QED
    BY <1>2, <2>1, <2>2, <2>4 DEF BeginsOne, Requests
<1>5. QED
  BY <1>3, <1>4

\* A mark goes through the pointer, and begins a save of the flag.
LEMMA RecordBegins ==
    ASSUME Inv, Record
    PROVE  \/ /\ BeginsOne
              /\ pass.target.key \in Keys /\ Experiment(pass.target.key) # None
              /\ heap' = [heap EXCEPT ![items[pass.target.key].exp].reverted = TRUE]
              /\ heap' \in [Objects -> ExperimentType]
           \/ Experiment(pass.target.key) = None /\ UNCHANGED <<heap, call>>
<1> DEFINE k == pass.target.key
<1>1. pass.target \in TargetType
  BY TodoTypes DEF Record, Inv, PassInv, Pulling
<1>2. k \in Keys
  BY <1>1 DEF TargetType
<1>3. CASE Experiment(k) = None
  BY <1>3 DEF Record
<1>4. CASE Experiment(k) # None
  <2>1. items[k] \in RecordType /\ items[k].exp \in Objects /\ heap[items[k].exp] \in ExperimentType
    BY <1>2, <1>4, ExperimentOf DEF Inv
  <2>2. heap' = [heap EXCEPT ![items[k].exp].reverted = TRUE] /\ Saving("pass", "reason", k, items[k])
        /\ "pass" \in Callers
    BY <1>4 DEF Record, Callers
  <2>3. call["pass"] = Idle
    BY <2>2 DEF Record, Inv, PassInv, CallInv
  <2> DEFINE new == [heap[items[k].exp] EXCEPT !.reverted = TRUE]
  <2>4. new \in ExperimentType
    BY <2>1 DEF ExperimentType
  <2>5. heap' = [heap EXCEPT ![items[k].exp] = new]
    BY <2>2
  <2>6. heap' \in [Objects -> ExperimentType]
    <3> HIDE DEF new
    <3>1. QED
      BY <2>4, <2>5 DEF Inv, TypeInv
  <2>7. Begins("pass", "reason", k, items[k])
    BY <2>2, <2>3 DEF Begins
  <2>8. QED
    BY <1>2, <1>4, <2>1, <2>2, <2>6, <2>7 DEF BeginsOne, Requests
<1>5. QED
  BY <1>3, <1>4

\* What a pass that starts does to the experiments.
LEMMA StartPassHeap ==
    ASSUME Inv, StartPass
    PROVE  \E t \in Nat :
               /\ t <= Period + MaxDelay
               /\ heap' \in [Objects -> ExperimentType]
               /\ \A o \in Objects : heap'[o] = Aged(heap[o], t)
               /\ disk' = [k \in Keys |->
                              IF disk[k] = None \/ disk[k].exp = None THEN disk[k]
                              ELSE [disk[k] EXCEPT !.exp = Aged(@, t)]]
               /\ verdicts' = [s \in Starts |->
                     [verdicts[s] EXCEPT !.since = IF @ = None THEN None ELSE Later(@, t, MinGap)]]
<1>1. PICK late \in 0 .. MaxDelay, t \in 0 .. Period + MaxDelay :
        /\ heap' = [o \in Objects |-> Aged(heap[o], t)]
        /\ disk' = [k \in Keys |->
                       IF disk[k] = None \/ disk[k].exp = None THEN disk[k]
                       ELSE [disk[k] EXCEPT !.exp = Aged(@, t)]]
        /\ verdicts' = [s \in Starts |->
            [verdicts[s] EXCEPT !.since = IF @ = None THEN None ELSE Later(@, t, MinGap)]]
  BY DEF StartPass
<1>2. t \in Nat /\ t <= Period + MaxDelay
  BY Numbers
<1>3. \A o \in Objects : Aged(heap[o], t) \in ExperimentType
  BY <1>2, AgedType DEF Inv, TypeInv
<1>4. QED
  BY <1>1, <1>2, <1>3

\* What a step leaves of an experiment that somebody refers to before and after it: its plan
\* and its start, and all of it but for time, a verdict and a mark.
LEMMA HeapSteps ==
    ASSUME Inv, Runs
    PROVE  /\ heap' \in [Objects -> ExperimentType]
           /\ \A o \in Objects : o \in Reachable /\ o \in Reachable' =>
                  /\ heap'[o].plan = heap[o].plan /\ heap'[o].start = heap[o].start
                  /\ \/ heap'[o] = heap[o]
                     \/ StartPass
                     \/ \E k \in Keys, failing \in SUBSET Arms :
                            Evaluate(k, failing) /\ o = pass.todo[k].exp
                     \/ Record /\ Experiment(pass.target.key) # None /\ o = items[pass.target.key].exp
<1> USE DEF Inv
<1>0. heap \in [Objects -> ExperimentType]
  BY DEF TypeInv
<1>1. CASE heap' = heap
  BY <1>0, <1>1
<1>2. CASE Collected(heap)
  BY <1>0, <1>2, Collects
<1>3. ASSUME NEW c \in Operators, NEW k \in Keys, NEW p \in Plans, CreateExperiment(c, k, p)
      PROVE  heap' \in [Objects -> ExperimentType] /\ \A o \in Reachable : heap'[o] = heap[o]
  BY <1>3, CreateExperimentBegins
<1>4. ASSUME NEW c \in Operators, NEW k \in Keys, NEW p \in Plans, NEW start \in BOOLEAN,
             ExperimentPlan(c, k, p, start)
      PROVE  heap' \in [Objects -> ExperimentType] /\ \A o \in Reachable : heap'[o] = heap[o]
  BY <1>4, PlanBegins
<1>5. CASE StartPass
  <2>1. PICK t \in Nat : heap' \in [Objects -> ExperimentType] /\ \A o \in Objects : heap'[o] = Aged(heap[o], t)
    BY <1>5, StartPassHeap
  <2>2. \A o \in Objects : heap'[o].plan = heap[o].plan /\ heap'[o].start = heap[o].start
    BY <1>0, <2>1, AgedType
  <2>3. QED
    BY <1>5, <2>1, <2>2
<1>6. ASSUME NEW k \in Keys, NEW failing \in SUBSET Arms, Evaluate(k, failing)
      PROVE  /\ heap' \in [Objects -> ExperimentType]
             /\ \A o \in Objects : o \in Reachable /\ o \in Reachable' =>
                    /\ heap'[o].plan = heap[o].plan /\ heap'[o].start = heap[o].start
                    /\ heap'[o] = heap[o] \/ o = pass.todo[k].exp
  BY <1>6, EvaluateBegins
<1>7. CASE Record
  <2>1. CASE UNCHANGED heap
    BY <1>0, <2>1
  <2>2. CASE /\ pass.target.key \in Keys /\ Experiment(pass.target.key) # None
             /\ heap' = [heap EXCEPT ![items[pass.target.key].exp].reverted = TRUE]
             /\ heap' \in [Objects -> ExperimentType]
    <3> DEFINE x == items[pass.target.key].exp
               new == [heap[x] EXCEPT !.reverted = TRUE]
    <3>1. x \in Objects /\ heap[x] \in ExperimentType
      BY <2>2, ExperimentOf
    <3>2. new.plan = heap[x].plan /\ new.start = heap[x].start
      BY <3>1 DEF ExperimentType
    <3>3. heap'[x] = new /\ \A o \in Objects \ {x} : heap'[o] = heap[o]
      <4>1. heap' = [heap EXCEPT ![x] = new]
        BY <2>2
      <4> HIDE DEF new, x
      <4>2. QED
        BY <1>0, <3>1, <4>1
    <3> HIDE DEF new
    <3>4. QED
      BY <1>7, <2>2, <3>2, <3>3
  <2>3. QED
    BY <1>7, <2>1, <2>2, RecordBegins
<1>8. QED
  <2> DEFINE Kept == \A o \in Reachable : heap'[o] = heap[o]
             HeapOK == heap' \in [Objects -> ExperimentType]
  <2>1. CASE HeapOK /\ Kept
    BY <2>1
  <2>2. CASE \E c \in Operators, k \in Keys, on \in BOOLEAN : Create(c, k, on) \/ SetEnabled(c, k, on)
    BY <1>1, <2>2 DEF Create, SetEnabled
  <2>3. CASE \E c \in Operators, k \in Keys, p \in Plans : CreateExperiment(c, k, p)
    BY <1>3, <2>1, <2>3
  <2>4. CASE \E c \in Operators, k \in Keys, p \in Plans, start \in BOOLEAN : ExperimentPlan(c, k, p, start)
    BY <1>4, <2>1, <2>4
  <2>5. CASE \E c \in Operators, k \in Keys : Delete(c, k)
    BY <1>2, <2>5 DEF Delete
  <2>6. CASE \E c \in Callers : Check(c) \/ Write(c) \/ WriteFails(c)
    BY <1>2, <2>6 DEF Check, Write, WriteFails
  <2>7. CASE \E k \in Keys, failing \in SUBSET Arms : Evaluate(k, failing)
    <3>1. PICK k \in Keys, failing \in SUBSET Arms : Evaluate(k, failing)
      BY <2>7
    <3>2. QED
      BY <1>6, <3>1
  <2>8. CASE \E k \in Keys : SkipUnread(k)
    BY <1>2, <2>8 DEF SkipUnread
  <2>9. CASE EndPass \/ Pull \/ Receipt \/ UNCHANGED vars \/ \E b \in pass.breaches : Decide(b)
    BY <1>1, <2>9 DEF EndPass, Pull, Receipt, Decide, vars
  <2>10. QED
    BY Kinds, <1>5, <1>7, <2>2, <2>3, <2>4, <2>5, <2>6, <2>7, <2>8, <2>9

\* A request whose change was found valid goes on to write it.
Advances(c) ==
    /\ call[c].at = "check" /\ Check(c)
    /\ ValidatePlanChange(Experiment(call[c].key), Value(call[c].rec.exp))
    /\ call' = [call EXCEPT ![c].at = "write", ![c].prev = items[call[c].key]]

\* A step starts a request, takes one on, ends one, or marks all of them as late.
LEMMA CallSteps ==
    ASSUME Inv, Runs
    PROVE  \/ BeginsOne
           \/ \E c \in Callers : Advances(c) /\ UNCHANGED pass
           \/ \E c \in Callers, ok \in BOOLEAN :
                  /\ call[c].at # "idle" /\ Returns(c, ok)
                  /\ Check(c) \/ Write(c) \/ WriteFails(c)
           \/ StartPass
           \/ UNCHANGED call
<1>1. ASSUME NEW c \in Callers, Check(c)
      PROVE  \/ Advances(c) /\ UNCHANGED pass
             \/ call[c].at # "idle" /\ Returns(c, FALSE)
  <2>1. CASE ValidatePlanChange(Experiment(call[c].key), Value(call[c].rec.exp))
    BY <1>1, <2>1 DEF Check, Advances
  <2>2. CASE ~ValidatePlanChange(Experiment(call[c].key), Value(call[c].rec.exp))
    BY <1>1, <2>2 DEF Check
  <2>3. QED
    BY <2>1, <2>2
<1>2. CASE \E c \in Operators, k \in Keys, on \in BOOLEAN : Create(c, k, on) \/ SetEnabled(c, k, on)
  BY <1>2, CreateBegins, SwitchBegins
<1>3. CASE \E c \in Operators, k \in Keys, p \in Plans : CreateExperiment(c, k, p)
  BY <1>3, CreateExperimentBegins
<1>4. CASE \E c \in Operators, k \in Keys, p \in Plans, start \in BOOLEAN : ExperimentPlan(c, k, p, start)
  BY <1>4, PlanBegins
<1>5. CASE \E c \in Operators, k \in Keys : Delete(c, k)
  BY <1>5 DEF Delete
<1>6. CASE \E c \in Callers : Check(c)
  <2>1. PICK c \in Callers : Check(c)
    BY <1>6
  <2>2. QED
    BY <1>1, <2>1
<1>7. CASE \E c \in Callers : Write(c)
  BY <1>7 DEF Write
<1>8. CASE \E c \in Callers : WriteFails(c)
  BY <1>8 DEF WriteFails
<1>9. CASE \E k \in Keys, failing \in SUBSET Arms : Evaluate(k, failing)
  BY <1>9, EvaluateBegins
<1>10. CASE EndPass \/ Receipt \/ UNCHANGED vars
            \/ (\E b \in pass.breaches : Decide(b)) \/ \E k \in Keys : SkipUnread(k)
  BY <1>10 DEF EndPass, Receipt, Decide, SkipUnread, vars
<1>11. CASE Pull
  BY <1>11, PullBegins
<1>12. CASE Record
  BY <1>12, RecordBegins
<1>13. QED
  BY Kinds, <1>2, <1>3, <1>4, <1>5, <1>6, <1>7, <1>8, <1>9, <1>10, <1>11, <1>12

\* A request whose change was found valid remembers what it was compared with.
LEMMA AdvancesType ==
    ASSUME Inv, NEW c \in Callers, Advances(c)
    PROVE  /\ call' \in [Callers -> CallType]
           /\ \A d \in Callers \ {c} : call'[d] = call[d]
           /\ call'[c].at = "write" /\ call'[c].op = call[c].op /\ call'[c].key = call[c].key
           /\ call'[c].rec = call[c].rec /\ call'[c].late = call[c].late
           /\ call'[c].prev = items[call[c].key] /\ call[c].key \in Keys
<1> DEFINE k == call[c].key
           new == [call[c] EXCEPT !.at = "write", !.prev = items[k]]
<1>1. call[c] \in CallType /\ k \in Keys
  BY Busy, CallTypes DEF Inv, Advances
<1>2. items[k] \in RecordType \cup {None}
  BY <1>1 DEF Inv, TypeInv
<1>3. /\ new \in CallType
      /\ new.at = "write" /\ new.op = call[c].op /\ new.key = k
      /\ new.rec = call[c].rec /\ new.late = call[c].late
      /\ new.prev = items[k]
  <2> HIDE DEF k
  <2>1. QED
    BY <1>1, <1>2 DEF CallType, k
<1>4. call' = [call EXCEPT ![c] = new]
  BY DEF Advances, Inv, TypeInv
<1>5. call \in [Callers -> CallType]
  BY DEF Inv, TypeInv
<1> HIDE DEF new
<1>6. QED
  BY <1>1, <1>3, <1>4, <1>5

\* A pass that starts marks who is in a call.
LEMMA StartPassCalls ==
    ASSUME Inv, StartPass
    PROVE  /\ call' \in [Callers -> CallType]
           /\ \A c \in Callers :
                  /\ call'[c].at = call[c].at /\ call'[c].op = call[c].op
                  /\ call'[c].key = call[c].key /\ call'[c].rec = call[c].rec
                  /\ call'[c].prev = call[c].prev
                  /\ call'[c].late = (call[c] # Idle)
                  /\ call[c] = Idle => call'[c] = Idle
<1> DEFINE Marked(c) == [call[c] EXCEPT !.late = call[c] # Idle]
<1>1. call' = [c \in Callers |-> Marked(c)]
  BY DEF StartPass
<1>2. ASSUME NEW c \in Callers
      PROVE  /\ Marked(c) \in CallType
             /\ Marked(c).at = call[c].at /\ Marked(c).op = call[c].op
             /\ Marked(c).key = call[c].key /\ Marked(c).rec = call[c].rec
             /\ Marked(c).prev = call[c].prev
             /\ Marked(c).late = (call[c] # Idle)
             /\ call[c] = Idle => Marked(c) = Idle
  <2> DEFINE late == call[c] # Idle
  <2>1. late \in BOOLEAN
    OBVIOUS
  <2>2. call[c] \in CallType
    BY CallTypes DEF Inv
  <2>3. Marked(c) = [call[c] EXCEPT !.late = late]
    OBVIOUS
  <2>4. ~late => call[c].late = FALSE
    BY DEF Idle
  <2> HIDE DEF late, Marked
  <2>5. /\ Marked(c) \in CallType
        /\ Marked(c).at = call[c].at /\ Marked(c).op = call[c].op
        /\ Marked(c).key = call[c].key /\ Marked(c).rec = call[c].rec
        /\ Marked(c).prev = call[c].prev
        /\ Marked(c).late = late
    BY <2>1, <2>2, <2>3 DEF CallType
  <2>6. ~late => Marked(c) = call[c]
    BY <2>1, <2>2, <2>3, <2>4 DEF CallType
  <2>7. QED
    BY <2>5, <2>6 DEF late
<1> HIDE DEF Marked
<1>3. QED
  BY <1>1, <1>2

\* Who refers to an experiment after a step referred to it before, or has just made it.
LEMMA CallInvStep == ASSUME Inv, Runs PROVE CallInv' /\ (call \in [Callers -> CallType])'
<1> USE DEF Inv
<1>0. \A c \in Callers : call[c].op = "start" =>
          call[c].rec # None /\ call[c].rec.exp \in Objects /\ call[c].rec.exp \in Reachable
  <2> SUFFICES ASSUME NEW c \in Callers, call[c].op = "start"
               PROVE  call[c].rec # None /\ call[c].rec.exp \in Objects /\ call[c].rec.exp \in Reachable
    OBVIOUS
  <2>1. call[c].at # "idle"
    BY DEF CallInv, Idle
  <2>2. call[c].rec \in RecordType /\ call[c].rec.exp # None
    BY <2>1, Busy DEF CallInv
  <2>3. QED
    BY <2>2, ExpOfType, Referred, Numbers
<1> DEFINE CallOK(c) ==
        /\ call[c].at = "idle" => call[c] = Idle
        /\ call[c].at # "idle" => call[c].key \in Keys /\ call[c].rec # None /\ call[c].op # "none"
        /\ call[c].op \in {"start", "plan"} => call[c].rec.exp # None
        /\ call[c].op = "start" => heap[call[c].rec.exp].start # None
<1>1. \A c \in Callers : CallOK(c)
  BY DEF CallInv
<1>2. ASSUME NEW c \in Callers, call'[c].at = call[c].at, call'[c].op = call[c].op, call'[c].key = call[c].key,
             call'[c].rec = call[c].rec, call[c] = Idle => call'[c] = Idle, call' \in [Callers -> CallType]
      PROVE  CallOK(c)'
  <2>1. CASE call[c].op = "start"
    <3>1. call[c].rec.exp \in Reachable /\ call[c].rec # None /\ call[c].rec.exp \in Objects
      BY <1>0, <2>1
    <3>2. call[c].rec.exp \in Reachable'
      <4>1. ExpOf(call[c].rec) = {call[c].rec.exp}
        BY <3>1, Numbers DEF ExpOf
      <4>2. ExpOf(call'[c].rec) \subseteq Reachable'
        BY DEF Reachable
      <4>3. QED
        BY <1>2, <4>1, <4>2
    <3>3. heap'[call[c].rec.exp].start = heap[call[c].rec.exp].start
      BY <3>1, <3>2, HeapSteps
    <3>4. QED
      BY <1>1, <1>2, <2>1, <3>3
  <2>2. CASE call[c].op # "start"
    BY <1>1, <1>2, <2>2
  <2>3. QED
    BY <2>1, <2>2
<1>4. CASE BeginsOne
  <2>1. PICK c \in Callers, op \in Requests, k \in Keys, rec \in RecordType : Begins(c, op, k, rec)
    BY <1>4 DEF BeginsOne
  <2>2. /\ call' \in [Callers -> CallType]
        /\ \A d \in Callers \ {c} : call'[d] = call[d]
        /\ call'[c] = [at |-> "check", op |-> op, key |-> k, rec |-> rec, prev |-> None, late |-> FALSE]
    BY <2>1, BeginsType
  <2>3. op \in {"start", "plan"} => rec.exp # None /\ (op = "start" => heap'[rec.exp].start # None)
    <3>1. CASE Makes(c, op, k, rec)
      BY <3>1, Numbers DEF Makes
    <3>2. CASE op \notin {"start", "plan"}
      BY <3>2
    <3>3. QED
      BY <2>1, <3>1, <3>2 DEF Begins
  <2>4. CallOK(c)'
    <3>1. call'[c].at = "check" /\ call'[c].op = op /\ call'[c].key = k /\ call'[c].rec = rec
      BY <2>2
    <3>2. rec # None /\ op # "none"
      BY Numbers DEF Requests
    <3>3. QED
      BY <2>3, <3>1, <3>2
  <2>5. \A d \in Callers \ {c} : CallOK(d)'
    BY <1>2, <2>2
  <2>6. QED
    BY <2>2, <2>4, <2>5 DEF CallInv
<1>5. CASE \E c \in Callers : Advances(c)
  <2>1. PICK c \in Callers : Advances(c)
    BY <1>5
  <2>2. CallOK(c)'
    <3>1. /\ call'[c].at = "write" /\ call'[c].op = call[c].op /\ call'[c].key = call[c].key
          /\ call'[c].rec = call[c].rec /\ call'[c].prev = items[call[c].key] /\ call[c].key \in Keys
          /\ call[c].at = "check"
      BY <2>1, AdvancesType DEF Advances
    <3>2. call[c].rec # None /\ call[c].op # "none"
      BY <3>1, Busy, Numbers
    <3>3. call[c].op = "start" => heap'[call[c].rec.exp].start # None
      <4> SUFFICES ASSUME call[c].op = "start" PROVE heap'[call[c].rec.exp].start # None
        OBVIOUS
      <4>1. call[c].rec.exp \in Reachable /\ call[c].rec.exp \in Objects /\ ExpOf(call[c].rec) = {call[c].rec.exp}
        BY <1>0, Numbers DEF ExpOf
      <4>2. ExpOf(call'[c].rec) \subseteq Reachable'
        BY DEF Reachable
      <4>3. QED
        BY <1>1, <3>1, <4>1, <4>2, HeapSteps
    <3>4. QED
      BY <1>1, <3>1, <3>2, <3>3
  <2>3. \A d \in Callers \ {c} : CallOK(d)'
    BY <1>2, <2>1, AdvancesType
  <2>4. QED
    BY <2>1, <2>2, <2>3, AdvancesType DEF CallInv
<1>6. CASE \E c \in Callers, ok \in BOOLEAN : call[c].at # "idle" /\ Returns(c, ok)
  <2>1. PICK c \in Callers, ok \in BOOLEAN : call[c].at # "idle" /\ Returns(c, ok)
    BY <1>6
  <2>2. call' \in [Callers -> CallType] /\ call'[c] = Idle /\ \A d \in Callers \ {c} : call'[d] = call[d]
    BY <2>1, ReturnsType
  <2>3. CallOK(c)'
    BY <2>2 DEF Idle
  <2>4. \A d \in Callers \ {c} : CallOK(d)'
    BY <1>2, <2>2
  <2>5. QED
    BY <2>2, <2>3, <2>4 DEF CallInv
<1>7. CASE StartPass
  BY <1>2, <1>7, StartPassCalls DEF CallInv
<1>8. CASE UNCHANGED call
  BY <1>2, <1>8 DEF CallInv, TypeInv
<1>9. QED
  BY CallSteps, <1>4, <1>5, <1>6, <1>7, <1>8

-----------------------------------------------------------------------------
\* What a step does to the pass.

PassType ==
    [stage : {"idle", "run"} \cup Pulling, todo : TodoType,
     breaches : SUBSET BreachType, target : TargetType \cup {None}]

TodoOK == \A k \in DOMAIN pass.todo : pass.todo[k].exp # None /\ heap[pass.todo[k].exp].start # None

\* The callers are doing what the stage of the pass says.
CallOfPass ==
    call["pass"].at # "idle" =>
        <<call["pass"].op, pass.stage>>
            \in {<<"status", "run">>, <<"disable", "pull">>, <<"reason", "receipt">>}

\* What stays on the list stays as it is.
LEMMA TodoKept ==
    ASSUME Inv, Runs, DOMAIN pass'.todo \subseteq DOMAIN pass.todo,
           \A k \in DOMAIN pass'.todo : pass'.todo[k] = pass.todo[k]
    PROVE  TodoOK'
<1> SUFFICES ASSUME NEW k \in DOMAIN pass'.todo
             PROVE  pass'.todo[k].exp # None /\ heap'[pass'.todo[k].exp].start # None
  BY DEF TodoOK
<1> DEFINE o == pass.todo[k].exp
<1>1. /\ o \in Objects /\ o \in Reachable /\ ExpOf(pass.todo[k]) = {o}
      /\ heap[o].start \in Starts
  BY Listed DEF Listing
<1>2. ExpOf(pass'.todo[k]) \subseteq Reachable'
  BY DEF Reachable
<1>3. o \in Reachable'
  BY <1>1, <1>2
<1>4. heap'[o].start = heap[o].start
  BY <1>1, <1>3, HeapSteps
<1>5. QED
  BY <1>1, <1>4, Numbers

\* A step that leaves the pass to its request.
LEMMA PassWaits ==
    ASSUME Inv, Runs, UNCHANGED pass, CallOfPass'
    PROVE  PassInv' /\ pass' \in PassType
<1>1. pass' \in PassType
  BY DEF Inv, TypeInv, PassType
<1>2. TodoOK'
  BY TodoKept
<1>3. PassInv'
  BY <1>2 DEF Inv, PassInv, TodoOK, CallOfPass
<1>4. QED
  BY <1>1, <1>3

\* A request of an operator is none of the pass.
LEMMA OfOperators ==
    ASSUME Inv, call'["pass"] = call["pass"], UNCHANGED pass
    PROVE  CallOfPass'
BY DEF Inv, PassInv, CallOfPass

\* A request that returns.
LEMMA ReturnsPass ==
    ASSUME Inv, Runs, NEW c \in Callers, NEW ok \in BOOLEAN, call[c].at # "idle", Returns(c, ok)
    PROVE  PassInv' /\ pass' \in PassType
<1> USE DEF Inv
<1>1. call'[c] = Idle /\ \A d \in Callers \ {c} : call'[d] = call[d]
  BY ReturnsType
<1>2. CASE c # "pass"
  <2>1. UNCHANGED pass /\ call'["pass"] = call["pass"]
    BY <1>1, <1>2, ReturnsType DEF Callers
  <2>2. QED
    BY <2>1, OfOperators, PassWaits
<1>3. CASE c = "pass"
  <2>1. /\ pass'.todo = pass.todo /\ pass'.breaches = pass.breaches /\ pass'.target = pass.target
        /\ pass' = [stage |-> pass'.stage, todo |-> pass.todo, breaches |-> pass.breaches,
                    target |-> pass.target]
    BY ReturnsType
  <2>2. pass.stage \in {"run", "pull", "receipt"}
    BY <1>3 DEF PassInv
  <2>3. /\ pass'.stage \in {"run", "record", "receipt"}
        /\ pass'.stage \in Pulling => pass.stage \in Pulling
    <3>1. pass'.stage = CASE pass.stage = "run" -> "run"
                          [] pass.stage = "pull" -> IF ok THEN "record" ELSE "run"
                          [] pass.stage = "receipt" -> "receipt"
      BY <1>3, ReturnsType
    <3>2. CASE pass.stage = "run"
      BY <3>1, <3>2 DEF Pulling
    <3>3. CASE pass.stage = "pull"
      BY <3>1, <3>3 DEF Pulling
    <3>4. CASE pass.stage = "receipt"
      BY <3>1, <3>4 DEF Pulling
    <3>5. QED
      BY <2>2, <3>2, <3>3, <3>4
  <2>4. pass' \in PassType
    <3>1. pass.todo \in TodoType /\ pass.breaches \in SUBSET BreachType /\ pass.target \in TargetType \cup {None}
      BY DEF TypeInv
    <3>2. QED
      BY <2>1, <2>3, <3>1 DEF PassType, Pulling
  <2>5. TodoOK'
    BY <2>1, TodoKept
  <2>6. CallOfPass'
    BY <1>1, <1>3 DEF CallOfPass, Idle
  <2>7. PassInv'
    BY <2>1, <2>3, <2>5, <2>6 DEF PassInv, TodoOK, CallOfPass
  <2>8. QED
    BY <2>4, <2>7
<1>4. QED
  BY <1>2, <1>3

\* A request of an operator that starts.
LEMMA OperatorsPass ==
    ASSUME Inv, Runs, NEW c \in Operators, NEW op, NEW k, NEW rec, Saving(c, op, k, rec), UNCHANGED pass
    PROVE  PassInv' /\ pass' \in PassType
<1>1. c # "pass" /\ c \in Callers /\ "pass" \in Callers
  BY Numbers DEF Callers
<1>2. call'["pass"] = call["pass"]
  BY <1>1 DEF Saving, Inv, TypeInv
<1>3. QED
  BY <1>2, OfOperators, PassWaits

\* A pass that starts lists what is running.
LEMMA StartPassPass ==
    ASSUME Inv, StartPass
    PROVE  /\ PassInv' /\ pass' \in PassType
           /\ \A k \in DOMAIN pass'.todo :
                  k \in Keys /\ Running(items[k]) /\ pass'.todo[k] = items[k] /\ Experiment(k) # None
           /\ DOMAIN pass'.todo = {x \in Keys : Running(items[x])}
           /\ pass'.stage = "run" /\ pass'.breaches = {} /\ pass'.target = None
           /\ call["pass"] = Idle
<1> USE DEF Inv
<1> DEFINE D == {x \in Keys : Running(items[x])}
           todo == [k \in D |-> items[k]]
<1>1. pass' = [stage |-> "run", todo |-> todo, breaches |-> {}, target |-> None]
  BY DEF StartPass
<1>2. ASSUME NEW k \in D
      PROVE  items[k] \in RecordType /\ Experiment(k) # None /\ items[k].exp # None
             /\ items[k].exp \in Objects /\ heap[items[k].exp].start # None
  BY ExperimentOf DEF Running
<1>3. todo \in TodoType
  <2>1. todo \in [D -> RecordType] /\ D \in SUBSET Keys
    BY <1>2
  <2>2. QED
    BY <2>1 DEF TodoType
<1>4. DOMAIN todo = D /\ \A k \in D : todo[k] = items[k]
  OBVIOUS
<1> HIDE DEF todo
<1>5. pass' \in PassType /\ pass'.todo = todo /\ pass'.stage = "run" /\ pass'.breaches = {} /\ pass'.target = None
  BY <1>1, <1>3 DEF PassType
<1>6. pass.stage = "idle"
  BY DEF StartPass
<1>7. call["pass"] = Idle /\ call'["pass"] = Idle
  BY <1>6, StartPassCalls DEF PassInv, CallInv, Callers
<1>8. CallOfPass'
  BY <1>7 DEF CallOfPass, Idle
<1>9. TodoOK'
  <2>1. PICK t \in Nat : \A o \in Objects : heap'[o] = Aged(heap[o], t)
    BY StartPassHeap
  <2>2. \A o \in Objects : heap[o] \in ExperimentType
    BY DEF TypeInv
  <2>3. \A o \in Objects : heap'[o].start = heap[o].start
    BY <2>1, <2>2, AgedType
  <2>4. QED
    BY <1>2, <1>4, <1>5, <2>3 DEF TodoOK
<1>10. PassInv'
  BY <1>5, <1>8, <1>9 DEF Pulling, PassInv, TodoOK, CallOfPass
<1>11. QED
  BY <1>2, <1>4, <1>5, <1>7, <1>10

\* A flag of the list is evaluated: it leaves the list, with its breaches.
LEMMA EvaluatePass ==
    ASSUME Inv, NEW k \in Keys, NEW failing \in SUBSET Arms, Evaluate(k, failing)
    PROVE  /\ PassInv' /\ pass' \in PassType
           /\ pass'.todo = Unread(k) /\ pass'.stage = "run" /\ pass'.target = pass.target
           /\ \A b \in pass'.breaches :
                  \/ b \in pass.breaches
                  \/ /\ b.key = k /\ b.arm \in failing
                     /\ b.failed = (b.arm \in heap[pass.todo[k].exp].failing)
                     /\ b.gap = heap[pass.todo[k].exp].checked
<1> USE DEF Inv
<1> DEFINE rec == pass.todo[k]
           exp == heap[rec.exp]
           Failed(a) == [key |-> k, arm |-> a, failed |-> a \in exp.failing, gap |-> exp.checked]
           new == {Failed(a) : a \in failing}
<1>0. Runs
  BY DEF Runs, SafetyStep
<1>1. /\ pass.stage = "run" /\ call["pass"] = Idle /\ k \in DOMAIN pass.todo
      /\ pass' = [pass EXCEPT !.todo = Unread(k), !.breaches = @ \cup new]
      /\ Saving("pass", "status", k, rec)
  BY DEF Evaluate
<1>2. exp.checked \in 0 .. MinGap \cup {None} /\ rec \in RecordType /\ rec.exp # None
  BY <1>1, Listed, Numbers DEF ExperimentType
<1>3. new \subseteq BreachType
  <2> SUFFICES ASSUME NEW a \in failing PROVE Failed(a) \in BreachType
    OBVIOUS
  <2> DEFINE before == a \in exp.failing
  <2>1. before \in BOOLEAN
    OBVIOUS
  <2>2. Failed(a) = [key |-> k, arm |-> a, failed |-> before, gap |-> exp.checked]
    OBVIOUS
  <2> HIDE DEF before, exp
  <2>3. QED
    BY <1>2, <2>1, <2>2 DEF BreachType
<1>4. \A b \in new : b.key = k /\ b.arm \in failing /\ b.failed = (b.arm \in exp.failing) /\ b.gap = exp.checked
  OBVIOUS
<1>5. pass \in PassType
  BY DEF TypeInv, PassType
<1> HIDE DEF new, exp, rec
<1>6. /\ pass' \in PassType
      /\ pass'.todo = Unread(k) /\ pass'.stage = "run" /\ pass'.target = pass.target
      /\ pass'.breaches = pass.breaches \cup new
  BY <1>1, <1>3, <1>5, UnreadType DEF PassType
<1>7. TodoOK'
  BY <1>0, <1>6, UnreadType, TodoKept
<1>8. call'["pass"].op = "status"
  <2>1. call'["pass"] = [at |-> "check", op |-> "status", key |-> k, rec |-> rec, prev |-> None,
                         late |-> FALSE]
    BY <1>1, <1>2, SavingType DEF Callers
  <2>2. QED
    BY <2>1
<1>9. PassInv'
  <2>1. \A b \in pass'.breaches : b.key \notin DOMAIN pass'.todo
    <3> SUFFICES ASSUME NEW b \in pass'.breaches PROVE b.key \notin DOMAIN pass'.todo
      OBVIOUS
    <3>0. DOMAIN pass'.todo = DOMAIN pass.todo \ {k}
      BY <1>6, UnreadType
    <3>1. CASE b \in pass.breaches
      <4>1. b.key \notin DOMAIN pass.todo
        BY <3>1 DEF PassInv
      <4>2. QED
        BY <3>0, <4>1
    <3>2. CASE b \in new
      BY <1>4, <3>0, <3>2
    <3>3. QED
      BY <1>6, <3>1, <3>2
  <2>2. QED
    BY <1>6, <1>7, <1>8, <2>1 DEF PassInv, TodoOK, Pulling
<1>10. QED
  BY <1>4, <1>6, <1>9 DEF rec, exp

\* A flag of the list is passed over.
LEMMA SkipPass ==
    ASSUME Inv, NEW k \in Keys, SkipUnread(k)
    PROVE  /\ PassInv' /\ pass' \in PassType
           /\ pass'.todo = Unread(k) /\ pass'.stage = "run"
           /\ pass'.breaches = pass.breaches /\ pass'.target = pass.target
<1> USE DEF Inv
<1>0. Runs
  BY DEF Runs, SafetyStep
<1>1. /\ pass.stage = "run" /\ call["pass"] = Idle /\ UNCHANGED call
      /\ pass' = [pass EXCEPT !.todo = Unread(k)]
  BY DEF SkipUnread
<1>2. pass \in PassType
  BY DEF TypeInv, PassType
<1>3. /\ pass' \in PassType
      /\ pass'.todo = Unread(k) /\ pass'.stage = "run" /\ pass'.target = pass.target
      /\ pass'.breaches = pass.breaches
  BY <1>1, <1>2, UnreadType DEF PassType
<1>4. TodoOK'
  BY <1>0, <1>3, UnreadType, TodoKept
<1>5. PassInv'
  <2>1. DOMAIN pass'.todo = DOMAIN pass.todo \ {k}
    BY <1>3, UnreadType
  <2>2. \A b \in pass'.breaches : b.key \notin DOMAIN pass'.todo
    BY <1>3, <2>1 DEF PassInv
  <2>3. call'["pass"].at = "idle"
    BY <1>1 DEF Idle
  <2>4. QED
    BY <1>3, <1>4, <2>2, <2>3 DEF PassInv, TodoOK, Pulling
<1>6. QED
  BY <1>3, <1>5

\* A breach is acted on, or forgotten.
LEMMA DecidePass ==
    ASSUME Inv, NEW b \in pass.breaches, Decide(b)
    PROVE  /\ PassInv' /\ pass' \in PassType
           /\ DOMAIN pass'.todo = {} /\ pass.stage = "run" /\ pass'.todo = pass.todo
           /\ pass'.breaches \subseteq pass.breaches
           /\ b.key \in Keys
           /\ \/ /\ Pulls(b) /\ pass'.stage = "pull"
                 /\ pass'.target = [key |-> b.key, arm |-> b.arm, start |-> Experiment(b.key).start]
              \/ pass'.stage = "run" /\ pass'.target = pass.target
<1> USE DEF Inv
<1>0. Runs
  BY DEF Runs, SafetyStep
<1>1. pass.stage = "run" /\ DOMAIN pass.todo = {} /\ call["pass"] = Idle /\ UNCHANGED call
  BY DEF Decide, Evaluated
<1>2. b \in BreachType /\ b.key \in Keys /\ b.arm \in Arms
  BY TodoTypes DEF BreachType
<1>3. pass \in PassType
  BY DEF TypeInv, PassType
<1>4. CASE Pulls(b)
  <2> DEFINE less == {x \in pass.breaches : x.key # b.key}
             target == [key |-> b.key, arm |-> b.arm, start |-> Experiment(b.key).start]
  <2>1. pass' = [pass EXCEPT !.stage = "pull", !.breaches = less, !.target = target]
    BY <1>4 DEF Decide
  <2>2. less \subseteq BreachType /\ less \subseteq pass.breaches
    BY TodoTypes
  <2>3. Experiment(b.key).start \in Starts \cup {None}
    BY <1>2, <1>4, ExperimentOf DEF Pulls, StartOn
  <2>4. target \in TargetType
    BY <1>2, <2>3 DEF TargetType
  <2>5. target # None
    BY <2>4, Numbers
  <2> HIDE DEF less, target
  <2>6. /\ pass' \in PassType
        /\ pass'.todo = pass.todo /\ pass'.stage = "pull" /\ pass'.target = target
        /\ pass'.breaches = less
    BY <1>3, <2>1, <2>2, <2>4 DEF PassType, Pulling
  <2>7. TodoOK'
    BY <1>1, <2>6 DEF TodoOK
  <2>8. PassInv'
    BY <1>1, <2>2, <2>5, <2>6, <2>7 DEF PassInv, TodoOK, Pulling, Idle
  <2>9. QED
    BY <1>1, <1>2, <1>4, <2>2, <2>6, <2>8 DEF target
<1>5. CASE ~Pulls(b)
  <2>1. pass' = [pass EXCEPT !.breaches = @ \ {b}]
    BY <1>5 DEF Decide
  <2>2. /\ pass' \in PassType
        /\ pass'.todo = pass.todo /\ pass'.stage = "run" /\ pass'.target = pass.target
        /\ pass'.breaches \subseteq pass.breaches
    BY <1>1, <1>3, <2>1 DEF PassType
  <2>3. TodoOK'
    BY <1>1, <2>2 DEF TodoOK
  <2>4. PassInv'
    BY <1>1, <2>2, <2>3 DEF PassInv, TodoOK, Pulling, Idle
  <2>5. QED
    BY <1>1, <1>2, <2>2, <2>4
<1>6. QED
  BY <1>4, <1>5

\* The pass ends.
LEMMA EndPassPass == ASSUME Inv, EndPass PROVE PassInv' /\ pass' \in PassType
<1>1. pass' = PassIdle /\ call["pass"] = Idle /\ UNCHANGED call
  BY DEF EndPass, Evaluated
<1>2. [k \in {} |-> None] \in TodoType
  <2>1. [k \in {} |-> None] \in [{} -> RecordType]
    OBVIOUS
  <2>2. {} \in SUBSET Keys
    OBVIOUS
  <2>3. QED
    BY <2>1, <2>2 DEF TodoType
<1>3. pass' \in PassType /\ DOMAIN pass'.todo = {} /\ pass'.breaches = {} /\ pass'.stage = "idle"
  BY <1>1, <1>2 DEF PassIdle, PassType
<1>4. PassInv'
  BY <1>1, <1>3 DEF PassInv, Idle, Pulling
<1>5. QED
  BY <1>3, <1>4

\* A pull starts its save, or finds no flag.
LEMMA PullPass == ASSUME Inv, Pull PROVE PassInv' /\ pass' \in PassType
<1> USE DEF Inv
<1>0. Runs
  BY DEF Runs, SafetyStep
<1>1. pass.stage = "pull" /\ call["pass"] = Idle
  BY DEF Pull
<1>2. CASE UNCHANGED pass
  <2>1. call'["pass"].at # "idle" => call'["pass"].op = "disable"
    <3> DEFINE k   == pass.target.key
               rec == [items[k] EXCEPT !.on = FALSE]
    <3>1. CASE items[k] = None
      BY <1>1, <3>1 DEF Pull, Idle
    <3>2. CASE items[k] # None
      <4>1. pass.target \in TargetType
        BY <1>1, TodoTypes DEF PassInv, Pulling
      <4>2. k \in Keys
        BY <4>1 DEF TargetType
      <4>3. rec \in RecordType
        BY <3>2, <4>2, ExperimentOf DEF RecordType
      <4>4. Saving("pass", "disable", k, rec)
        BY <3>2 DEF Pull
      <4> HIDE DEF k, rec
      <4>5. call'["pass"] = [at |-> "check", op |-> "disable", key |-> k, rec |-> rec, prev |-> None,
                             late |-> FALSE]
        BY <4>2, <4>3, <4>4, SavingType DEF Callers
      <4>6. QED
        BY <4>5
    <3>3. QED
      BY <3>1, <3>2
  <2>2. CallOfPass'
    BY <1>1, <1>2, <2>1 DEF CallOfPass
  <2>3. QED
    BY <1>0, <1>2, <2>2, PassWaits
<1>3. CASE UNCHANGED call /\ pass' = [pass EXCEPT !.stage = "run"]
  <2>1. pass \in PassType
    BY DEF TypeInv, PassType
  <2>2. /\ pass' \in PassType
        /\ pass'.todo = pass.todo /\ pass'.stage = "run" /\ pass'.breaches = pass.breaches
    BY <1>3, <2>1 DEF PassType
  <2>3. TodoOK'
    BY <1>0, <2>2, TodoKept
  <2>4. PassInv'
    BY <1>1, <1>3, <2>2, <2>3 DEF PassInv, TodoOK, Pulling, Idle
  <2>5. QED
    BY <2>2, <2>4
<1>4. QED
  BY <1>2, <1>3, PullBegins

\* The mark is saved before the receipt.
LEMMA RecordPass ==
    ASSUME Inv, Record
    PROVE  /\ PassInv' /\ pass' \in PassType
           /\ pass.stage = "record" /\ pass'.stage = "receipt" /\ pass'.todo = pass.todo
           /\ pass'.breaches = pass.breaches /\ pass'.target = pass.target
<1> USE DEF Inv
<1>0. Runs
  BY DEF Runs, SafetyStep
<1>1. pass.stage = "record" /\ pass' = [pass EXCEPT !.stage = "receipt"]
  BY DEF Record
<1>2. pass \in PassType
  BY DEF TypeInv, PassType
<1>3. /\ pass' \in PassType
      /\ pass'.todo = pass.todo /\ pass'.stage = "receipt" /\ pass'.breaches = pass.breaches
      /\ pass'.target = pass.target
  BY <1>1, <1>2 DEF PassType, Pulling
<1>4. TodoOK'
  BY <1>0, <1>3, TodoKept
<1>5. call["pass"].at = "idle"
  BY <1>1 DEF PassInv
<1>6. call'["pass"].at # "idle" => call'["pass"].op = "reason"
  <2> DEFINE k == pass.target.key
  <2>1. pass.target \in TargetType
    BY <1>1, TodoTypes DEF PassInv, Pulling
  <2>2. k \in Keys
    BY <2>1 DEF TargetType
  <2>3. CASE Experiment(k) = None
    BY <1>5, <2>3 DEF Record
  <2>4. CASE Experiment(k) # None
    <3>1. items[k] \in RecordType /\ Saving("pass", "reason", k, items[k])
      BY <2>2, <2>4, ExperimentOf DEF Record
    <3> HIDE DEF k
    <3>2. call'["pass"] = [at |-> "check", op |-> "reason", key |-> k, rec |-> items[k], prev |-> None,
                           late |-> FALSE]
      BY <2>2, <3>1, SavingType DEF Callers
    <3>3. QED
      BY <3>2
  <2>5. QED
    BY <2>3, <2>4
<1>7. PassInv'
  BY <1>1, <1>3, <1>4, <1>6 DEF PassInv, TodoOK, Pulling
<1>8. QED
  BY <1>1, <1>3, <1>7

\* The receipt is the end of a pull.
LEMMA ReceiptPass ==
    ASSUME Inv, Receipt
    PROVE  /\ PassInv' /\ pass' \in PassType
           /\ pass.stage = "receipt" /\ pass'.stage = "run" /\ pass'.todo = pass.todo
           /\ pass'.breaches = pass.breaches
<1> USE DEF Inv
<1>0. Runs
  BY DEF Runs, SafetyStep
<1>1. pass.stage = "receipt" /\ call["pass"] = Idle /\ UNCHANGED call
      /\ pass' = [pass EXCEPT !.stage = "run", !.target = None]
  BY DEF Receipt
<1>2. pass \in PassType
  BY DEF TypeInv, PassType
<1>3. /\ pass' \in PassType
      /\ pass'.todo = pass.todo /\ pass'.stage = "run" /\ pass'.breaches = pass.breaches
  BY <1>1, <1>2 DEF PassType
<1>4. TodoOK'
  BY <1>0, <1>3, TodoKept
<1>5. PassInv'
  BY <1>1, <1>3, <1>4 DEF PassInv, TodoOK, Pulling, Idle
<1>6. QED
  BY <1>1, <1>3, <1>5

\* The pass stays in step with its request, and its list with the experiments.
LEMMA PassInvStep == ASSUME Inv, Runs PROVE PassInv' /\ pass' \in PassType
<1> USE DEF Inv
<1> DEFINE Goal == PassInv' /\ pass' \in PassType
<1>1. CASE \E c \in Operators, k \in Keys, on \in BOOLEAN : Create(c, k, on) \/ SetEnabled(c, k, on)
  BY <1>1, OperatorsPass DEF Create, SetEnabled
<1>2. CASE \E c \in Operators, k \in Keys, p \in Plans : CreateExperiment(c, k, p)
  BY <1>2, OperatorsPass DEF CreateExperiment
<1>3. CASE \E c \in Operators, k \in Keys, p \in Plans, start \in BOOLEAN : ExperimentPlan(c, k, p, start)
  <2>1. PICK c \in Operators, k \in Keys, p \in Plans, start \in BOOLEAN : ExperimentPlan(c, k, p, start)
    BY <1>3
  <2>2. UNCHANGED pass /\ \E o \in Objects :
            Saving(c, IF start THEN "start" ELSE "plan", k, [items[k] EXCEPT !.exp = o])
    BY <2>1 DEF ExperimentPlan
  <2>3. QED
    BY <2>2, OperatorsPass
<1>4. CASE \E c \in Callers, ok \in BOOLEAN : call[c].at # "idle" /\ Returns(c, ok)
  BY <1>4, ReturnsPass
<1>5. CASE \E c \in Callers : Advances(c) /\ UNCHANGED pass
  <2>1. PICK c \in Callers : Advances(c) /\ UNCHANGED pass
    BY <1>5
  <2>2. call'["pass"].at # "idle" => call["pass"].at # "idle" /\ call'["pass"].op = call["pass"].op
    BY <2>1, AdvancesType DEF Callers, Advances
  <2>3. CallOfPass'
    BY <2>1, <2>2 DEF CallOfPass, PassInv
  <2>4. QED
    BY <2>1, <2>3, PassWaits
<1>6. CASE UNCHANGED <<call, pass>>
  BY <1>6, OfOperators, PassWaits
<1>7. CASE \E c \in Operators, k \in Keys : Delete(c, k)
  BY <1>6, <1>7 DEF Delete
<1>8. CASE \E c \in Callers : Check(c) \/ Write(c) \/ WriteFails(c)
  <2>1. CASE \E c \in Callers : Check(c)
    <3>1. PICK c \in Callers : Check(c)
      BY <2>1
    <3>2. CASE ValidatePlanChange(Experiment(call[c].key), Value(call[c].rec.exp))
      BY <1>5, <3>1, <3>2 DEF Check, Advances
    <3>3. CASE ~ValidatePlanChange(Experiment(call[c].key), Value(call[c].rec.exp))
      BY <1>4, <3>1, <3>3 DEF Check
    <3>4. QED
      BY <3>2, <3>3
  <2>2. CASE \E c \in Callers : Write(c)
    BY <1>4, <2>2 DEF Write
  <2>3. CASE \E c \in Callers : WriteFails(c)
    BY <1>4, <2>3 DEF WriteFails
  <2>4. QED
    BY <1>8, <2>1, <2>2, <2>3
<1>9. CASE \E k \in Keys, failing \in SUBSET Arms : Evaluate(k, failing)
  BY <1>9, EvaluatePass
<1>10. CASE \E k \in Keys : SkipUnread(k)
  BY <1>10, SkipPass
<1>11. CASE \E b \in pass.breaches : Decide(b)
  BY <1>11, DecidePass
<1>12. CASE StartPass
  BY <1>12, StartPassPass
<1>13. CASE EndPass \/ Pull \/ Record \/ Receipt
  BY <1>13, EndPassPass, PullPass, RecordPass, ReceiptPass
<1>14. CASE UNCHANGED vars
  BY <1>6, <1>14 DEF vars
<1>15. QED
  BY Kinds, <1>1, <1>2, <1>3, <1>7, <1>8, <1>9, <1>10, <1>11, <1>12, <1>13, <1>14

-----------------------------------------------------------------------------
\* The other variables.

FileType == [Keys -> StoredType \cup {None}]

\* What the code marshals.
LEMMA ImageType ==
    ASSUME NEW its \in [Keys -> RecordType \cup {None}], NEW h \in [Objects -> ExperimentType]
    PROVE  /\ Image(its, h) \in FileType
           /\ \A k \in Keys :
                  /\ its[k] = None => Image(its, h)[k] = None
                  /\ its[k] # None =>
                         /\ Image(its, h)[k] # None
                         /\ Image(its, h)[k].on = its[k].on
                         /\ its[k].exp = None => Image(its, h)[k].exp = None
                         /\ its[k].exp # None => Image(its, h)[k].exp = h[its[k].exp]
<1> DEFINE Stored(k) == [on |-> its[k].on, exp |-> IF its[k].exp = None THEN None ELSE h[its[k].exp]]
<1>1. ASSUME NEW k \in Keys, its[k] # None
      PROVE  /\ Stored(k) \in StoredType
             /\ Stored(k).on = its[k].on
             /\ its[k].exp = None => Stored(k).exp = None
             /\ its[k].exp # None => Stored(k).exp = h[its[k].exp]
  <2>1. its[k].on \in BOOLEAN /\ its[k].exp \in Objects \cup {None}
    BY <1>1 DEF RecordType
  <2>2. its[k].exp # None => h[its[k].exp] \in ExperimentType
    BY <2>1
  <2>3. QED
    BY <2>1, <2>2 DEF StoredType
<1>2. None \notin StoredType
  BY Numbers
<1>3. Image(its, h) = [k \in Keys |-> IF its[k] = None THEN None ELSE Stored(k)]
  BY DEF Image
<1> HIDE DEF Stored
<1>4. QED
  BY <1>1, <1>2, <1>3 DEF FileType

\* The flags change when a request writes one, or deletes one.
LEMMA ItemsSteps ==
    ASSUME Inv, Runs
    PROVE  /\ items' \in [Keys -> RecordType \cup {None}]
           /\ \/ UNCHANGED items
              \/ \E c \in Callers :
                     /\ Write(c) /\ call[c].key \in Keys /\ call[c].rec \in RecordType
                     /\ items'[call[c].key] = call[c].rec
                     /\ \A k \in Keys \ {call[c].key} : items'[k] = items[k]
              \/ \E c \in Operators, k \in Keys :
                     /\ Delete(c, k) /\ items'[k] = None
                     /\ \A x \in Keys \ {k} : items'[x] = items[x]
<1> USE DEF Inv
<1>0. items \in [Keys -> RecordType \cup {None}]
  BY DEF TypeInv
<1>1. CASE UNCHANGED items
  BY <1>0, <1>1
<1>2. ASSUME NEW c \in Callers, Write(c)
      PROVE  /\ items' \in [Keys -> RecordType \cup {None}]
             /\ call[c].key \in Keys /\ call[c].rec \in RecordType
             /\ items'[call[c].key] = call[c].rec
             /\ \A k \in Keys \ {call[c].key} : items'[k] = items[k]
  <2>1. call[c].at # "idle" /\ items' = [items EXCEPT ![call[c].key] = call[c].rec]
    BY <1>2 DEF Write
  <2>2. call[c].key \in Keys /\ call[c].rec \in RecordType
    BY <2>1, Busy
  <2>3. QED
    BY <1>0, <2>1, <2>2
<1>3. ASSUME NEW c \in Operators, NEW k \in Keys, Delete(c, k)
      PROVE  /\ items' \in [Keys -> RecordType \cup {None}]
             /\ \/ UNCHANGED items
                \/ /\ items'[k] = None
                   /\ \A x \in Keys \ {k} : items'[x] = items[x]
  BY <1>0, <1>3 DEF Delete
<1>4. QED
  <2>1. CASE \E c \in Callers : Check(c) \/ Write(c) \/ WriteFails(c)
    <3>1. CASE \E c \in Callers : Write(c)
      <4>1. PICK c \in Callers : Write(c)
        BY <3>1
      <4>2. QED
        BY <1>2, <4>1
    <3>2. CASE \E c \in Callers : Check(c) \/ WriteFails(c)
      BY <1>1, <3>2 DEF Check, WriteFails
    <3>3. QED
      BY <2>1, <3>1, <3>2
  <2>2. CASE \E c \in Operators, k \in Keys : Delete(c, k)
    <3>1. PICK c \in Operators, k \in Keys : Delete(c, k)
      BY <2>2
    <3>2. QED
      BY <1>0, <1>3, <3>1
  <2>3. CASE \/ \E c \in Operators, k \in Keys, on \in BOOLEAN : Create(c, k, on) \/ SetEnabled(c, k, on)
             \/ \E c \in Operators, k \in Keys, p \in Plans : CreateExperiment(c, k, p)
             \/ \E c \in Operators, k \in Keys, p \in Plans, start \in BOOLEAN :
                    ExperimentPlan(c, k, p, start)
    BY <1>1, <2>3 DEF Create, SetEnabled, CreateExperiment, ExperimentPlan
  <2>4. CASE \/ StartPass \/ EndPass \/ Pull \/ Record \/ Receipt \/ UNCHANGED vars
             \/ \E k \in Keys : SkipUnread(k)
             \/ \E k \in Keys, failing \in SUBSET Arms : Evaluate(k, failing)
             \/ \E b \in pass.breaches : Decide(b)
    BY <1>1, <2>4 DEF StartPass, EndPass, Pull, Record, Receipt, SkipUnread, Evaluate, Decide, vars
  <2>5. QED
    BY Kinds, <2>1, <2>2, <2>3, <2>4

\* The file is written with the flags, and ages with the clock.
LEMMA DiskSteps ==
    ASSUME Inv, Runs
    PROVE  /\ disk' \in FileType
           /\ \/ UNCHANGED <<disk, items>>
              \/ disk' = Image(items', heap) /\ Collected(heap)
              \/ StartPass
<1> USE DEF Inv
<1>0. disk \in FileType /\ heap \in [Objects -> ExperimentType] /\ items' \in [Keys -> RecordType \cup {None}]
  BY ItemsSteps DEF TypeInv, FileType
<1>1. CASE UNCHANGED <<disk, items>>
  BY <1>0, <1>1
<1>2. CASE disk' = Image(items', heap) /\ Collected(heap)
  BY <1>0, <1>2, ImageType
<1>3. CASE StartPass
  <2>1. PICK t \in Nat :
            disk' = [k \in Keys |->
                        IF disk[k] = None \/ disk[k].exp = None THEN disk[k]
                        ELSE [disk[k] EXCEPT !.exp = Aged(@, t)]]
    BY <1>3, StartPassHeap
  <2> DEFINE Older(k) == [disk[k] EXCEPT !.exp = Aged(@, t)]
  <2>2. ASSUME NEW k \in Keys, disk[k] # None, disk[k].exp # None
        PROVE  Older(k) \in StoredType
    <3>1. disk[k] \in StoredType /\ disk[k].exp \in ExperimentType
      BY <1>0, <2>2 DEF FileType, StoredType
    <3>2. Aged(disk[k].exp, t) \in ExperimentType
      BY <3>1, AgedType
    <3>3. QED
      BY <3>1, <3>2 DEF StoredType
  <2>3. disk' = [k \in Keys |-> IF disk[k] = None \/ disk[k].exp = None THEN disk[k] ELSE Older(k)]
    BY <2>1
  <2> HIDE DEF Older
  <2>4. disk' \in FileType
    BY <1>0, <2>2, <2>3 DEF FileType
  <2>5. QED
    BY <1>3, <2>4
<1>4. QED
  <2>1. CASE \E c \in Callers : Check(c) \/ Write(c) \/ WriteFails(c)
    BY <1>1, <1>2, <2>1 DEF Check, Write, WriteFails
  <2>2. CASE \E c \in Operators, k \in Keys : Delete(c, k)
    BY <1>1, <1>2, <2>2 DEF Delete
  <2>3. CASE \/ \E c \in Operators, k \in Keys, on \in BOOLEAN : Create(c, k, on) \/ SetEnabled(c, k, on)
             \/ \E c \in Operators, k \in Keys, p \in Plans : CreateExperiment(c, k, p)
             \/ \E c \in Operators, k \in Keys, p \in Plans, start \in BOOLEAN :
                    ExperimentPlan(c, k, p, start)
    BY <1>1, <2>3 DEF Create, SetEnabled, CreateExperiment, ExperimentPlan
  <2>4. CASE \/ EndPass \/ Pull \/ Record \/ Receipt \/ UNCHANGED vars
             \/ \E k \in Keys : SkipUnread(k)
             \/ \E k \in Keys, failing \in SUBSET Arms : Evaluate(k, failing)
             \/ \E b \in pass.breaches : Decide(b)
    BY <1>1, <2>4 DEF EndPass, Pull, Record, Receipt, SkipUnread, Evaluate, Decide, vars
  <2>5. QED
    BY Kinds, <1>3, <2>1, <2>2, <2>3, <2>4

\* An evaluation is the last verdict of its start; time passes, and a pass ends.
LEMMA VerdictSteps ==
    ASSUME Inv, Runs
    PROVE  /\ verdicts' \in [Starts -> VerdictType]
           /\ \/ UNCHANGED verdicts
              \/ StartPass /\ \A s \in Starts :
                     /\ verdicts'[s].last = verdicts[s].last /\ verdicts'[s].twice = verdicts[s].twice
                     /\ (verdicts'[s].since = None) = (verdicts[s].since = None)
              \/ EndPass /\ \A s \in Starts :
                     /\ verdicts'[s].last = verdicts[s].last /\ verdicts'[s].twice = {}
                     /\ verdicts'[s].since = verdicts[s].since
              \/ \E k \in Keys, failing \in SUBSET Arms :
                     /\ Evaluate(k, failing) /\ k \in DOMAIN pass.todo
                     /\ LET s == heap[pass.todo[k].exp].start
                        IN /\ s \in Starts
                           /\ \A x \in Starts \ {s} : verdicts'[x] = verdicts[x]
                           /\ verdicts'[s].last = failing /\ verdicts'[s].since = 0
                           /\ verdicts'[s].twice =
                                  IF verdicts[s].since = MinGap THEN verdicts[s].last \cap failing ELSE {}
              \/ (\E k \in Keys : SkipUnread(k)) /\ \A s \in Starts :
                     /\ verdicts'[s].last = verdicts[s].last /\ verdicts'[s].twice = verdicts[s].twice
                     /\ verdicts'[s].since = verdicts[s].since
<1> USE DEF Inv
<1>0. verdicts \in [Starts -> VerdictType]
  BY DEF TypeInv
<1>1. CASE UNCHANGED verdicts
  BY <1>0, <1>1
<1>2. CASE StartPass
  <2>1. PICK t \in Nat :
            verdicts' = [s \in Starts |->
                [verdicts[s] EXCEPT !.since = IF @ = None THEN None ELSE Later(@, t, MinGap)]]
    BY <1>2, StartPassHeap
  <2> DEFINE since(s) == IF verdicts[s].since = None THEN None ELSE Later(verdicts[s].since, t, MinGap)
  <2>2. ASSUME NEW s \in Starts
        PROVE  /\ since(s) \in 0 .. MinGap \cup {None}
               /\ (since(s) = None) = (verdicts[s].since = None)
    <3>1. verdicts[s].since \in 0 .. MinGap \cup {None}
      BY <1>0 DEF VerdictType
    <3>2. CASE verdicts[s].since = None
      BY <3>2
    <3>3. CASE verdicts[s].since # None
      <4>1. Later(verdicts[s].since, t, MinGap) \in 0 .. MinGap
        BY <3>1, <3>3, LaterType, Numbers
      <4>2. Later(verdicts[s].since, t, MinGap) # None
        BY <4>1, Numbers
      <4>3. QED
        BY <3>3, <4>1, <4>2
    <3>4. QED
      BY <3>2, <3>3
  <2> DEFINE New(s) == [verdicts[s] EXCEPT !.since = since(s)]
  <2>3. verdicts' = [s \in Starts |-> New(s)]
    BY <2>1
  <2>4. ASSUME NEW s \in Starts
        PROVE  New(s) \in VerdictType /\ New(s).last = verdicts[s].last /\ New(s).twice = verdicts[s].twice
               /\ New(s).since = since(s)
    <3> HIDE DEF since
    <3>1. QED
      BY <1>0, <2>2 DEF VerdictType
  <2> HIDE DEF New, since
  <2>5. QED
    BY <1>2, <2>2, <2>3, <2>4
<1>3. CASE EndPass
  <2> DEFINE New(s) == [verdicts[s] EXCEPT !.twice = {}]
  <2>1. verdicts' = [s \in Starts |-> New(s)]
    BY <1>3 DEF EndPass
  <2>2. ASSUME NEW s \in Starts
        PROVE  New(s) \in VerdictType /\ New(s).last = verdicts[s].last /\ New(s).twice = {}
               /\ New(s).since = verdicts[s].since
    BY <1>0 DEF VerdictType
  <2> HIDE DEF New
  <2>3. QED
    BY <1>3, <2>1, <2>2
<1>4. ASSUME NEW k \in Keys, NEW failing \in SUBSET Arms, Evaluate(k, failing)
      PROVE  /\ k \in DOMAIN pass.todo
             /\ verdicts' \in [Starts -> VerdictType]
             /\ LET s == heap[pass.todo[k].exp].start
                IN /\ s \in Starts
                   /\ \A x \in Starts \ {s} : verdicts'[x] = verdicts[x]
                   /\ verdicts'[s].last = failing /\ verdicts'[s].since = 0
                   /\ verdicts'[s].twice =
                          IF verdicts[s].since = MinGap THEN verdicts[s].last \cap failing ELSE {}
  <2> DEFINE s     == heap[pass.todo[k].exp].start
             twice == IF verdicts[s].since = MinGap THEN verdicts[s].last \cap failing ELSE {}
             new   == [given |-> TRUE, last |-> failing, since |-> 0, twice |-> twice]
  <2>1. k \in DOMAIN pass.todo /\ verdicts' = [verdicts EXCEPT ![s] = new]
    BY <1>4 DEF Evaluate
  <2>2. s \in Starts
    BY <2>1, Listed
  <2>3. twice \in SUBSET Arms
    OBVIOUS
  <2>4. 0 \in 0 .. MinGap
    BY Numbers
  <2> HIDE DEF twice
  <2>5. new \in VerdictType /\ new.last = failing /\ new.since = 0 /\ new.twice = twice
    BY <2>3, <2>4 DEF VerdictType
  <2> HIDE DEF new, s
  <2>6. /\ verdicts' \in [Starts -> VerdictType] /\ verdicts'[s] = new
        /\ \A x \in Starts \ {s} : verdicts'[x] = verdicts[x]
    BY <1>0, <2>1, <2>2, <2>5
  <2>7. QED
    BY <2>1, <2>2, <2>5, <2>6 DEF s, twice
<1>5. ASSUME NEW k \in Keys, SkipUnread(k)
      PROVE  /\ verdicts' \in [Starts -> VerdictType]
             /\ \A s \in Starts :
                     /\ verdicts'[s].last = verdicts[s].last /\ verdicts'[s].twice = verdicts[s].twice
                     /\ verdicts'[s].since = verdicts[s].since
  <2> DEFINE s   == heap[pass.todo[k].exp].start
             new == [verdicts[s] EXCEPT !.given = FALSE]
  <2>1. k \in DOMAIN pass.todo /\ verdicts' = [verdicts EXCEPT ![s] = new]
    BY <1>5 DEF SkipUnread
  <2>2. s \in Starts
    BY <2>1, Listed
  <2> HIDE DEF s
  <2>3. new \in VerdictType /\ new.last = verdicts[s].last /\ new.since = verdicts[s].since
        /\ new.twice = verdicts[s].twice
    BY <1>0, <2>2 DEF VerdictType
  <2> HIDE DEF new
  <2>4. QED
    BY <1>0, <2>1, <2>2, <2>3
<1>6. QED
  <2>1. CASE \E c \in Callers : Check(c) \/ Write(c) \/ WriteFails(c)
    BY <1>1, <2>1 DEF Check, Write, WriteFails
  <2>2. CASE \E k \in Keys, failing \in SUBSET Arms : Evaluate(k, failing)
    <3>1. PICK k \in Keys, failing \in SUBSET Arms : Evaluate(k, failing)
      BY <2>2
    <3>2. QED
      BY <1>4, <3>1
  <2>3. CASE \/ \E c \in Operators, k \in Keys, on \in BOOLEAN : Create(c, k, on) \/ SetEnabled(c, k, on)
             \/ \E c \in Operators, k \in Keys, p \in Plans : CreateExperiment(c, k, p)
             \/ \E c \in Operators, k \in Keys, p \in Plans, start \in BOOLEAN :
                    ExperimentPlan(c, k, p, start)
             \/ \E c \in Operators, k \in Keys : Delete(c, k)
    BY <1>1, <2>3 DEF Create, SetEnabled, CreateExperiment, ExperimentPlan, Delete
  <2>4. CASE \/ Pull \/ Record \/ Receipt \/ UNCHANGED vars
             \/ \E b \in pass.breaches : Decide(b)
    BY <1>1, <2>4 DEF Pull, Record, Receipt, Decide, vars
  <2>5. CASE \E k \in Keys : SkipUnread(k)
    <3>1. PICK k \in Keys : SkipUnread(k)
      BY <2>5
    <3>2. QED
      BY <1>5, <3>1
  <2>6. QED
    BY Kinds, <1>2, <1>3, <2>1, <2>2, <2>3, <2>4, <2>5

\* Receipts are written by the pass, starts excused by a write, and failures counted.
LEMMA CountSteps ==
    ASSUME Inv, Runs
    PROVE  /\ receipts' \in [Starts -> Nat]
           /\ \/ UNCHANGED receipts
              \/ Receipt /\ receipts' = [receipts EXCEPT ![pass.target.start] = @ + 1]
           /\ excused' \subseteq Starts
           /\ \/ UNCHANGED excused
              \/ \E c \in Callers : Write(c) /\ excused' = excused \cup Rewrites(c)
           /\ excused \subseteq excused'
           /\ faults' \in Nat /\ (faults' = 0 => faults = 0)
           /\ delay' \in 0 .. MaxDelay \cup {None}
<1> USE DEF Inv
<1>1. receipts \in [Starts -> Nat] /\ excused \subseteq Starts /\ faults \in Nat
      /\ delay \in 0 .. MaxDelay \cup {None}
  BY DEF TypeInv
<1>2. CASE UNCHANGED <<receipts, excused, faults, delay>>
  BY <1>1, <1>2
<1>3. CASE \E c \in Callers : Check(c) \/ Write(c) \/ WriteFails(c)
  <2>1. CASE \E c \in Callers : Check(c)
    BY <1>2, <2>1 DEF Check
  <2>2. CASE \E c \in Callers : Write(c)
    BY <1>1, <2>2 DEF Write, Rewrites
  <2>3. CASE \E c \in Callers : WriteFails(c)
    BY <1>1, <2>3 DEF WriteFails
  <2>4. QED
    BY <1>3, <2>1, <2>2, <2>3
<1>4. CASE \E c \in Operators, k \in Keys : Delete(c, k)
  BY <1>1, <1>4 DEF Delete
<1>5. CASE Receipt
  <2>1. UNCHANGED <<excused, delay>>
    BY <1>5 DEF Receipt
  <2>2. CASE receipts' = [receipts EXCEPT ![pass.target.start] = @ + 1] /\ UNCHANGED faults
    <3> DEFINE x == pass.target.start
    <3>1. receipts' = [receipts EXCEPT ![x] = receipts[x] + 1]
      BY <2>2
    <3> HIDE DEF x
    <3>2. \A s \in Starts : receipts[s] + 1 \in Nat
      BY <1>1
    <3>3. receipts' \in [Starts -> Nat]
      BY <1>1, <3>1, <3>2
    <3>4. QED
      BY <1>1, <1>5, <2>1, <2>2, <3>3
  <2>3. CASE faults' = faults + 1 /\ UNCHANGED receipts
    BY <1>1, <2>1, <2>3
  <2>4. QED
    BY <1>5, <2>2, <2>3 DEF Receipt
<1>6. CASE StartPass
  BY <1>1, <1>6 DEF StartPass
<1>7. CASE \/ \E c \in Operators, k \in Keys, on \in BOOLEAN : Create(c, k, on) \/ SetEnabled(c, k, on)
           \/ \E c \in Operators, k \in Keys, p \in Plans : CreateExperiment(c, k, p)
           \/ \E c \in Operators, k \in Keys, p \in Plans, start \in BOOLEAN :
                  ExperimentPlan(c, k, p, start)
  BY <1>2, <1>7 DEF Create, SetEnabled, CreateExperiment, ExperimentPlan
<1>8. CASE \/ EndPass \/ Pull \/ Record \/ UNCHANGED vars
           \/ \E k \in Keys : SkipUnread(k)
           \/ \E k \in Keys, failing \in SUBSET Arms : Evaluate(k, failing)
           \/ \E b \in pass.breaches : Decide(b)
  BY <1>2, <1>8 DEF EndPass, Pull, Record, SkipUnread, Evaluate, Decide, vars
<1>9. QED
  BY Kinds, <1>3, <1>4, <1>5, <1>6, <1>7, <1>8

-----------------------------------------------------------------------------
\* Restarts.

\* A restart loads the experiments of the file, each at an address of its own.
LEMMA Reloaded ==
    ASSUME Inv, Restart
    PROVE  /\ items' \in [Keys -> RecordType \cup {None}]
           /\ heap' \in [Objects -> ExperimentType]
           /\ Home \in [Keys -> Objects] /\ \A j, k \in Keys : Home[j] = Home[k] => j = k
           /\ \A k \in Keys :
                  /\ (items'[k] = None) = (disk[k] = None)
                  /\ disk[k] # None =>
                         /\ items'[k].on = disk[k].on
                         /\ disk[k].exp = None => items'[k].exp = None
                         /\ disk[k].exp # None => items'[k].exp = Home[k] /\ heap'[Home[k]] = disk[k].exp
           /\ UNCHANGED disk
<1> USE DEF Inv
<1>1. Home \in [Keys -> Objects] /\ \A j, k \in Keys : Home[j] = Home[k] => j = k
  BY AddressAssumption, Zenon DEF Home
<1> HIDE DEF Inv
<1>2. disk \in [Keys -> StoredType \cup {None}]
  BY DEF TypeInv, Inv
<1> DEFINE exp(k) == IF disk[k].exp = None THEN None ELSE Home[k]
           Rec(k) == [on |-> disk[k].on, exp |-> exp(k)]
<1>3. ASSUME NEW k \in Keys, disk[k] # None
      PROVE  /\ Rec(k) \in RecordType /\ Rec(k).on = disk[k].on /\ Rec(k).exp = exp(k)
             /\ Rec(k) # None
  <2>1. disk[k] \in StoredType
    BY <1>2, <1>3
  <2>2. exp(k) \in Objects \cup {None} /\ disk[k].on \in BOOLEAN
    BY <1>1, <2>1 DEF StoredType
  <2> HIDE DEF exp
  <2>3. Rec(k) \in RecordType /\ Rec(k).on = disk[k].on /\ Rec(k).exp = exp(k)
    BY <2>2 DEF RecordType
  <2>4. QED
    BY <2>3, Numbers
<1>4. items' = [k \in Keys |-> IF disk[k] = None THEN None ELSE Rec(k)]
  BY DEF Restart
<1>5. /\ items' \in [Keys -> RecordType \cup {None}]
      /\ \A k \in Keys :
            /\ (items'[k] = None) = (disk[k] = None)
            /\ disk[k] # None => items'[k].on = disk[k].on /\ items'[k].exp = exp(k)
  <2> HIDE DEF Rec, exp
  <2>1. QED
    BY <1>3, <1>4
<1> DEFINE Loads(o) == \E k \in Keys : Home[k] = o /\ disk[k] # None /\ disk[k].exp # None
           Key(o)   == CHOOSE k \in Keys : Home[k] = o
<1>6. heap' = [o \in Objects |-> IF Loads(o) THEN disk[Key(o)].exp ELSE Blank]
  BY DEF Restart
<1>7. \A k \in Keys : Key(Home[k]) = k
  BY <1>1
<1>8. \A o \in Objects : Loads(o) =>
          Key(o) \in Keys /\ Home[Key(o)] = o /\ disk[Key(o)] # None /\ disk[Key(o)].exp # None
  BY <1>1, <1>7
<1> HIDE DEF Key
<1>9. \A o \in Objects : Loads(o) => disk[Key(o)].exp \in ExperimentType
  BY <1>2, <1>8 DEF StoredType
<1>10. \A k \in Keys : disk[k] # None /\ disk[k].exp # None => Loads(Home[k])
  OBVIOUS
<1> HIDE DEF Loads
<1>11. heap' \in [Objects -> ExperimentType]
  BY <1>6, <1>9, BlankType
<1>12. \A k \in Keys : disk[k] # None /\ disk[k].exp # None => heap'[Home[k]] = disk[k].exp
  BY <1>1, <1>6, <1>7, <1>10
<1>13. UNCHANGED disk
  BY DEF Restart
<1>14. QED
  BY <1>1, <1>5, <1>11, <1>12, <1>13

-----------------------------------------------------------------------------
\* Type correctness.

\* The first state.
LEMMA InitInv == ASSUME Init PROVE Inv
<1> USE DEF Init
<1>1. [k \in {} |-> None] \in TodoType
  <2>1. [k \in {} |-> None] \in [{} -> RecordType] /\ {} \in SUBSET Keys
    OBVIOUS
  <2>2. QED
    BY <2>1 DEF TodoType
<1>2. PassIdle \in PassType
  BY <1>1 DEF PassIdle, PassType
<1>3. [given |-> FALSE, last |-> {}, since |-> None, twice |-> {}] \in VerdictType
  BY DEF VerdictType
<1>4. TypeInv
  <2>1. call \in [Callers -> CallType]
    BY IdleType
  <2>2. heap \in [Objects -> ExperimentType]
    BY BlankType
  <2>3. verdicts \in [Starts -> VerdictType]
    BY <1>3
  <2>4. QED
    BY <1>2, <2>1, <2>2, <2>3 DEF TypeInv, PassType
<1>5. CallInv
  BY DEF CallInv, Idle
<1>6. PassInv
  BY DEF PassInv, PassIdle, Idle, Callers, Pulling
<1>7. QED
  BY <1>4, <1>5, <1>6 DEF Inv

\* A restart leaves no request and no pass.
LEMMA RestartInv == ASSUME Inv, Restart PROVE Inv'
<1>1. items' \in [Keys -> RecordType \cup {None}] /\ heap' \in [Objects -> ExperimentType]
  BY Reloaded
<1>2. call' = [c \in Callers |-> Idle] /\ pass' = PassIdle /\ delay' = None
      /\ UNCHANGED <<disk, verdicts, receipts, faults>>
  BY DEF Restart
<1>3. call' \in [Callers -> CallType] /\ \A c \in Callers : call'[c] = Idle
  BY <1>2, IdleType
<1>4. pass' \in PassType /\ DOMAIN pass'.todo = {} /\ pass'.breaches = {} /\ pass'.stage = "idle"
  <2>1. [k \in {} |-> None] \in [{} -> RecordType] /\ {} \in SUBSET Keys
    OBVIOUS
  <2>2. [k \in {} |-> None] \in TodoType
    BY <2>1 DEF TodoType
  <2>3. QED
    BY <1>2, <2>2 DEF PassIdle, PassType
<1>5. excused' \subseteq Starts
  <2>1. \A k \in Keys : disk[k] # None /\ disk[k].exp # None => disk[k].exp.start \in Starts \cup {None}
    BY DEF Inv, TypeInv, StoredType, ExperimentType
  <2>2. Image(items, heap) \in FileType
    BY ImageType DEF Inv, TypeInv
  <2>3. \A k \in Keys : Image(items, heap)[k] # None /\ Image(items, heap)[k].exp # None =>
            Image(items, heap)[k].exp.start \in Starts \cup {None}
    BY <2>2 DEF FileType, StoredType, ExperimentType
  <2>4. StartsOf(disk) \subseteq Starts
    BY <2>1 DEF StartsOf
  <2>5. StartsOf(Image(items, heap)) \subseteq Starts
    BY <2>3 DEF StartsOf
  <2>6. excused' \in {excused, excused \cup StartsOf(disk) \cup StartsOf(Image(items, heap))}
    BY DEF Restart
  <2>7. QED
    BY <2>4, <2>5, <2>6 DEF Inv, TypeInv
<1>6. TypeInv'
  BY <1>1, <1>2, <1>3, <1>4, <1>5 DEF Inv, TypeInv, PassType
<1>7. CallInv'
  BY <1>3 DEF CallInv, Idle
<1>8. PassInv'
  BY <1>2, <1>3, <1>4 DEF PassInv, Pulling, Callers, Idle
<1>9. QED
  BY <1>6, <1>7, <1>8 DEF Inv

\* Every step keeps the types, the callers and the pass in order.
LEMMA InvStep == ASSUME Inv, [Next]_vars PROVE Inv'
<1>1. CASE Runs
  <2>1. TypeInv'
    <3>1. pass' \in PassType /\ call' \in [Callers -> CallType]
      BY <1>1, PassInvStep, CallInvStep
    <3>2. /\ items' \in [Keys -> RecordType \cup {None}] /\ heap' \in [Objects -> ExperimentType]
          /\ disk' \in FileType /\ verdicts' \in [Starts -> VerdictType]
      BY <1>1, ItemsSteps, HeapSteps, DiskSteps, VerdictSteps
    <3>3. /\ receipts' \in [Starts -> Nat] /\ excused' \subseteq Starts /\ faults' \in Nat
          /\ delay' \in 0 .. MaxDelay \cup {None}
      BY <1>1, CountSteps
    <3>4. QED
      BY <3>1, <3>2, <3>3 DEF TypeInv, PassType, FileType
  <2>2. QED
    BY <1>1, <2>1, PassInvStep, CallInvStep DEF Inv
<1>2. CASE Restart
  BY <1>2, RestartInv
<1>3. QED
  BY <1>1, <1>2 DEF Next, Runs

\* The variables hold values of their types: flags, experiments, the file, the requests and
\* the safety pass (internal/flag/store.go, internal/api/guardrail_eval.go).
THEOREM TypeCorrect == Spec => []TypeOK
<1>1. Inv => TypeOK
  <2> SUFFICES ASSUME Inv PROVE TypeOK
    OBVIOUS
  <2>1. pass.stage \in {"idle", "run", "pull", "record", "receipt"} /\ DOMAIN pass.todo \subseteq Keys
    BY TodoTypes DEF Inv, Pulling
  <2>2. QED
    BY <2>1 DEF TypeOK, Inv, TypeInv, CallType
<1>2. QED
  BY <1>1, InitInv, InvStep, PTL DEF Spec

-----------------------------------------------------------------------------
\* Who refers to the experiments of a flag.

\* What a flag's records refer to is reachable.
LEMMA HoldsReachable ==
    ASSUME Inv, NEW k \in Keys
    PROVE  Holds(k) \subseteq Reachable /\ Holds(k) \subseteq Objects
<1>1. ExpOf(items[k]) \subseteq Reachable /\ ExpOf(items[k]) \subseteq Objects
  BY Referred, ExpOfType DEF Inv, TypeInv
<1>2. Listing(k) \subseteq Reachable /\ Listing(k) \subseteq Objects
  BY Listed DEF Listing
<1>3. \A c \in CallsOn(k) :
          ExpOf(call[c].rec) \cup ExpOf(call[c].prev) \subseteq Reachable \cap Objects
  BY Referred, CallTypes, ExpOfType DEF CallsOn, Inv
<1>4. QED
  BY <1>1, <1>2, <1>3 DEF Holds

\* The same in the state after a step.
LEMMA HoldsReachableNext ==
    ASSUME NEW k \in Keys
    PROVE  Holds(k)' \subseteq Reachable'
<1>1. ExpOf(items'[k]) \subseteq Reachable'
  BY DEF Reachable
<1>2. Listing(k)' \subseteq Reachable'
  BY DEF Reachable, Listing
<1>3. \A c \in Callers : ExpOf(call'[c].rec) \cup ExpOf(call'[c].prev) \subseteq Reachable'
  BY DEF Reachable
<1>4. QED
  BY <1>1, <1>2, <1>3 DEF Holds, CallsOn

\* What stays with a flag keeps its plan and its start.
LEMMA HeldKept ==
    ASSUME Inv, Runs, NEW k \in Keys, NEW o \in Holds(k), o \in Holds(k)'
    PROVE  o \in Objects /\ heap'[o].plan = heap[o].plan /\ heap'[o].start = heap[o].start
BY HoldsReachable, HoldsReachableNext, HeapSteps

\* An object just made for a flag.
Made(o, k) ==
    \E c \in Operators, op \in {"start", "plan"}, rec \in RecordType :
        Begins(c, op, k, rec) /\ Makes(c, op, k, rec) /\ o = rec.exp

\* The list of a pass is what was left of it, or what the flags are when it starts.
LEMMA TodoSteps ==
    ASSUME Inv, Runs, NEW k \in DOMAIN pass'.todo
    PROVE  \/ k \in DOMAIN pass.todo /\ pass'.todo[k] = pass.todo[k]
           \/ StartPass /\ pass'.todo[k] = items[k] /\ Running(items[k]) /\ k \in Keys
<1> USE DEF Inv
<1>1. CASE \E j \in Keys, failing \in SUBSET Arms : Evaluate(j, failing)
  <2>1. PICK j \in Keys, failing \in SUBSET Arms : Evaluate(j, failing)
    BY <1>1
  <2>2. pass'.todo = Unread(j)
    BY <2>1, EvaluatePass
  <2>3. QED
    BY <2>2, UnreadType
<1>2. CASE \E j \in Keys : SkipUnread(j)
  <2>1. PICK j \in Keys : SkipUnread(j)
    BY <1>2
  <2>2. pass'.todo = Unread(j)
    BY <2>1, SkipPass
  <2>3. QED
    BY <2>2, UnreadType
<1>3. CASE StartPass
  BY <1>3, StartPassPass
<1>4. CASE pass'.todo = pass.todo
  BY <1>4
<1>5. CASE \E c \in Callers : Check(c) \/ Write(c) \/ WriteFails(c)
  <2>1. CASE \E c \in Callers, ok \in BOOLEAN : call[c].at # "idle" /\ Returns(c, ok)
    BY <1>4, <2>1, ReturnsType
  <2>2. CASE UNCHANGED pass
    BY <1>4, <2>2
  <2>3. CASE \E c \in Callers : Check(c)
    BY <2>1, <2>2, <2>3 DEF Check
  <2>4. CASE \E c \in Callers : Write(c)
    BY <2>1, <2>4 DEF Write
  <2>5. CASE \E c \in Callers : WriteFails(c)
    BY <2>1, <2>5 DEF WriteFails
  <2>6. QED
    BY <1>5, <2>3, <2>4, <2>5
<1>6. CASE \/ \E c \in Operators, j \in Keys, on \in BOOLEAN : Create(c, j, on) \/ SetEnabled(c, j, on)
           \/ \E c \in Operators, j \in Keys, p \in Plans : CreateExperiment(c, j, p)
           \/ \E c \in Operators, j \in Keys, p \in Plans, start \in BOOLEAN :
                  ExperimentPlan(c, j, p, start)
           \/ \E c \in Operators, j \in Keys : Delete(c, j)
           \/ UNCHANGED vars
  BY <1>4, <1>6 DEF Create, SetEnabled, CreateExperiment, ExperimentPlan, Delete, vars
<1>7. CASE EndPass
  BY <1>7 DEF EndPass, PassIdle
<1>8. CASE Pull
  BY <1>4, <1>8, PullBegins DEF TypeInv
<1>9. CASE Record \/ Receipt
  BY <1>4, <1>9, RecordPass, ReceiptPass
<1>10. CASE \E b \in pass.breaches : Decide(b)
  BY <1>4, <1>10, DecidePass
<1>11. QED
  BY Kinds, <1>1, <1>2, <1>3, <1>5, <1>6, <1>7, <1>8, <1>9, <1>10

\* A flag's records come to refer to what they referred to, or to an object just made.
LEMMA HoldsSteps ==
    ASSUME Inv, Runs, NEW k \in Keys, NEW o \in Holds(k)'
    PROVE  o \in Holds(k) \/ Made(o, k)
<1> USE DEF Inv
<1>0. \A c \in Callers : call[c].key = k =>
          ExpOf(call[c].rec) \subseteq Holds(k) /\ ExpOf(call[c].prev) \subseteq Holds(k)
  BY DEF Holds, CallsOn
<1>1. CASE o \in ExpOf(items'[k])
  <2>1. CASE UNCHANGED items
    BY <1>1, <2>1 DEF Holds
  <2>2. ASSUME NEW c \in Callers, items'[call[c].key] = call[c].rec,
               \A x \in Keys \ {call[c].key} : items'[x] = items[x]
        PROVE  o \in Holds(k)
    <3>1. CASE call[c].key = k
      BY <1>0, <1>1, <2>2, <3>1
    <3>2. CASE call[c].key # k
      BY <1>1, <2>2, <3>2 DEF Holds
    <3>3. QED
      BY <3>1, <3>2
  <2>3. ASSUME NEW j \in Keys, items'[j] = None, \A x \in Keys \ {j} : items'[x] = items[x]
        PROVE  o \in Holds(k)
    <3>1. k # j
      BY <1>1, <2>3 DEF ExpOf
    <3>2. QED
      BY <1>1, <2>3, <3>1 DEF Holds
  <2>4. QED
    BY <2>1, <2>2, <2>3, ItemsSteps
<1>2. CASE o \in Listing(k)'
  <2>1. k \in DOMAIN pass'.todo /\ o \in ExpOf(pass'.todo[k])
    BY <1>2 DEF Listing
  <2>2. pass'.todo[k] = pass.todo[k] /\ k \in DOMAIN pass.todo => o \in Holds(k)
    BY <2>1 DEF Holds, Listing
  <2>3. pass'.todo[k] = items[k] => o \in Holds(k)
    BY <2>1 DEF Holds
  <2>4. QED
    BY <2>1, <2>2, <2>3, TodoSteps
<1>3. ASSUME NEW c \in Callers, call'[c].key = k, o \in ExpOf(call'[c].rec) \cup ExpOf(call'[c].prev)
      PROVE  o \in Holds(k) \/ Made(o, k)
  <2>1. CASE call'[c].key = call[c].key /\ call'[c].rec = call[c].rec /\ call'[c].prev = call[c].prev
    BY <1>0, <1>3, <2>1
  <2>2. CASE BeginsOne
    <3>1. PICK d \in Callers, op \in Requests, j \in Keys, rec \in RecordType : Begins(d, op, j, rec)
      BY <2>2 DEF BeginsOne
    <3>2. /\ \A e \in Callers \ {d} : call'[e] = call[e]
          /\ call'[d] = [at |-> "check", op |-> op, key |-> j, rec |-> rec, prev |-> None, late |-> FALSE]
      BY <3>1, BeginsType
    <3>3. CASE c # d
      BY <2>1, <3>2, <3>3
    <3>4. CASE c = d
      <4>1. j = k /\ o \in ExpOf(rec)
        BY <1>3, <3>2, <3>4 DEF ExpOf
      <4>2. CASE Makes(d, op, j, rec) /\ op \in {"start", "plan"} /\ d \in Operators
        BY <3>1, <4>1, <4>2 DEF Made, ExpOf
      <4>3. CASE ExpOf(rec) \subseteq ExpOf(items[j]) \cup Listing(j)
        BY <4>1, <4>3 DEF Holds
      <4>4. QED
        BY <3>1, <4>2, <4>3 DEF Begins
    <3>5. QED
      BY <3>3, <3>4
  <2>3. CASE \E d \in Callers : Advances(d)
    <3>1. PICK d \in Callers : Advances(d)
      BY <2>3
    <3>2. CASE c # d
      BY <2>1, <3>1, <3>2, AdvancesType
    <3>3. CASE c = d
      <4>1. call[c].key = k /\ call'[c].rec = call[c].rec /\ call'[c].prev = items[k]
        BY <1>3, <3>1, <3>3, AdvancesType
      <4>2. QED
        BY <1>0, <1>3, <4>1 DEF Holds
    <3>4. QED
      BY <3>2, <3>3
  <2>4. CASE \E d \in Callers, ok \in BOOLEAN : call[d].at # "idle" /\ Returns(d, ok)
    <3>1. PICK d \in Callers, ok \in BOOLEAN : call[d].at # "idle" /\ Returns(d, ok)
      BY <2>4
    <3>2. CASE c # d
      BY <2>1, <3>1, <3>2, ReturnsType
    <3>3. CASE c = d
      BY <1>3, <3>1, <3>3, ReturnsType, Numbers DEF Idle
    <3>4. QED
      BY <3>2, <3>3
  <2>5. CASE StartPass
    BY <2>1, <2>5, StartPassCalls
  <2>6. CASE UNCHANGED call
    BY <2>1, <2>6
  <2>7. QED
    BY CallSteps, <2>2, <2>3, <2>4, <2>5, <2>6
<1>4. QED
  BY <1>1, <1>2, <1>3 DEF Holds, CallsOn

\* After a restart, a flag refers to the object it was loaded at.
LEMMA HoldsRestarted ==
    ASSUME Inv, Restart, NEW k \in Keys, NEW o \in Holds(k)'
    PROVE  /\ disk[k] # None /\ disk[k].exp # None /\ o = Home[k] /\ heap'[o] = disk[k].exp
           /\ items'[k] # None /\ items'[k].exp = o
<1>1. call' = [c \in Callers |-> Idle] /\ pass' = PassIdle
  BY DEF Restart
<1>2. CallsOn(k)' = {}
  BY <1>1, Numbers DEF CallsOn, Idle
<1>3. Listing(k)' = {}
  BY <1>1 DEF Listing, PassIdle
<1>4. o \in ExpOf(items'[k])
  BY <1>2, <1>3 DEF Holds
<1>5. items'[k] # None /\ items'[k].exp = o /\ o # None
  BY <1>4 DEF ExpOf
<1>6. QED
  BY <1>5, Reloaded

-----------------------------------------------------------------------------
\* No two flags share an experiment, or the start of one.

\* An object made for one flag is none of another's.
LEMMA MadeApart ==
    ASSUME Inv, Runs, Apart, NEW j \in Keys, NEW k \in Keys, j # k, NEW o, Made(o, j),
           NEW p \in Holds(k), p \in Holds(k)'
    PROVE  o # p /\ (heap'[o].start # None => heap'[o].start # heap'[p].start)
<1>1. PICK c \in Operators, op \in {"start", "plan"}, rec \in RecordType :
          Begins(c, op, j, rec) /\ Makes(c, op, j, rec) /\ o = rec.exp
  BY DEF Made
<1>2. o \notin Reachable
  BY <1>1 DEF Makes, Fresh
<1>3. o # p
  BY <1>2, HoldsReachable
<1>4. p \in Objects /\ heap'[p].start = heap[p].start
  BY HeldKept
<1>5. CASE op = "start"
  <2>1. PICK s \in Starts : Unused(s) /\ heap'[o].start = s
    BY <1>1, <1>5 DEF Makes
  <2>2. QED
    BY <1>3, <1>4, <2>1 DEF Unused, Spare
<1>6. CASE op = "plan"
  <2>1. heap'[o].start = StartOn(j)
    BY <1>1, <1>6 DEF Makes
  <2>2. CASE Experiment(j) = None
    BY <1>3, <2>1, <2>2 DEF StartOn
  <2>3. CASE Experiment(j) # None
    <3>1. items[j].exp \in Holds(j) /\ StartOn(j) = heap[items[j].exp].start
      BY <2>3, ExperimentOf DEF Holds, StartOn, Inv
    <3>2. QED
      BY <1>3, <1>4, <2>1, <3>1 DEF Apart
  <2>4. QED
    BY <2>2, <2>3
<1>7. QED
  BY <1>5, <1>6

\* One step makes one object, for one flag.
LEMMA MadeOnce ==
    ASSUME Inv, NEW j \in Keys, NEW k \in Keys, NEW o, Made(o, j), NEW p, Made(p, k)
    PROVE  j = k /\ o = p
<1>1. PICK c \in Operators, op \in {"start", "plan"}, rec \in RecordType :
          Begins(c, op, j, rec) /\ o = rec.exp
  BY DEF Made
<1>2. PICK d \in Operators, op2 \in {"start", "plan"}, rec2 \in RecordType :
          Begins(d, op2, k, rec2) /\ p = rec2.exp
  BY DEF Made
<1>3. c \in Callers /\ d \in Callers
  BY DEF Callers
<1>4. /\ \A e \in Callers \ {c} : call'[e] = call[e]
      /\ call'[c] = [at |-> "check", op |-> op, key |-> j, rec |-> rec, prev |-> None, late |-> FALSE]
  BY <1>1, <1>3, BeginsType DEF Requests, Inv
<1>5. call'[d] = [at |-> "check", op |-> op2, key |-> k, rec |-> rec2, prev |-> None, late |-> FALSE]
  BY <1>2, <1>3, BeginsType DEF Requests, Inv
<1>6. call[d].at = "idle" /\ call'[d].at = "check"
  BY <1>2, <1>5 DEF Begins, Idle
<1>7. d = c
  BY <1>3, <1>4, <1>6
<1>8. call'[c].key = j /\ call'[d].key = k /\ call'[c].rec = rec /\ call'[d].rec = rec2
  BY <1>4, <1>5
<1>9. QED
  BY <1>1, <1>2, <1>7, <1>8

\* Every step but a restart keeps the flags apart.
LEMMA ApartStep == ASSUME Inv, Apart, Runs PROVE Apart'
<1> SUFFICES ASSUME NEW j \in Keys, NEW k \in Keys, j # k, NEW o \in Holds(j)', NEW p \in Holds(k)'
             PROVE  o # p /\ (heap'[o].start # None => heap'[o].start # heap'[p].start)
  BY DEF Apart
<1>1. CASE o \in Holds(j) /\ p \in Holds(k)
  BY <1>1, HeldKept DEF Apart
<1>2. CASE Made(o, j) /\ p \in Holds(k)
  BY <1>2, MadeApart
<1>3. CASE o \in Holds(j) /\ Made(p, k)
  <2>1. p # o /\ (heap'[p].start # None => heap'[p].start # heap'[o].start)
    BY <1>3, MadeApart
  <2>2. QED
    BY <2>1
<1>4. CASE Made(o, j) /\ Made(p, k)
  BY <1>4, MadeOnce
<1>5. QED
  BY <1>1, <1>2, <1>3, <1>4, HoldsSteps

\* A restart keeps the flags apart.
LEMMA ApartRestart == ASSUME Inv, Apart, SamePlans, Restart PROVE Apart'
<1> SUFFICES ASSUME NEW j \in Keys, NEW k \in Keys, j # k, NEW o \in Holds(j)', NEW p \in Holds(k)'
             PROVE  o # p /\ (heap'[o].start # None => heap'[o].start # heap'[p].start)
  BY DEF Apart
<1>1. o = Home[j] /\ p = Home[k] /\ o # p
  BY HoldsRestarted, Reloaded
<1>2. ASSUME NEW x \in Keys, NEW q \in Holds(x)'
      PROVE  items[x].exp \in Holds(x) /\ heap'[q].start = heap[items[x].exp].start
  <2>1. disk[x] # None /\ disk[x].exp # None /\ heap'[q] = disk[x].exp
    BY <1>2, HoldsRestarted
  <2>2. items[x] # None /\ items[x].exp # None /\ disk[x].exp.start = heap[items[x].exp].start
    BY <2>1 DEF SamePlans
  <2>3. items[x].exp \in Holds(x)
    BY <2>2 DEF Holds, ExpOf
  <2>4. QED
    BY <2>1, <2>2, <2>3
<1>3. QED
  BY <1>1, <1>2 DEF Apart

-----------------------------------------------------------------------------
\* The file.

\* Every step but a restart keeps the file and memory on the same plans.
LEMMA SamePlansStep == ASSUME Inv, SamePlans, Runs PROVE SamePlans'
<1> USE DEF Inv
<1> SUFFICES ASSUME NEW k \in Keys
             PROVE  /\ (disk'[k] = None) = (items'[k] = None)
                    /\ items'[k] # None =>
                           /\ disk'[k].on = items'[k].on
                           /\ (disk'[k].exp = None) = (items'[k].exp = None)
                           /\ items'[k].exp # None =>
                                  /\ disk'[k].exp.start = heap'[items'[k].exp].start
                                  /\ disk'[k].exp.plan = heap'[items'[k].exp].plan
  BY DEF SamePlans
<1>0. /\ items \in [Keys -> RecordType \cup {None}] /\ heap \in [Objects -> ExperimentType]
      /\ disk \in [Keys -> StoredType \cup {None}]
      /\ items' \in [Keys -> RecordType \cup {None}]
  BY ItemsSteps DEF TypeInv
<1>1. /\ (disk[k] = None) = (items[k] = None)
      /\ items[k] # None =>
             /\ disk[k].on = items[k].on
             /\ (disk[k].exp = None) = (items[k].exp = None)
             /\ items[k].exp # None =>
                    /\ disk[k].exp.start = heap[items[k].exp].start
                    /\ disk[k].exp.plan = heap[items[k].exp].plan
  BY DEF SamePlans
<1>2. UNCHANGED items /\ items[k] # None /\ items[k].exp # None =>
          /\ heap'[items[k].exp].start = heap[items[k].exp].start
          /\ heap'[items[k].exp].plan = heap[items[k].exp].plan
  BY HeldKept DEF Holds, ExpOf
<1>3. CASE UNCHANGED <<disk, items>>
  BY <1>1, <1>2, <1>3
<1>4. CASE disk' = Image(items', heap) /\ Collected(heap)
  <2>1. items'[k] # None /\ items'[k].exp # None =>
            items'[k].exp \in Objects /\ heap'[items'[k].exp] = heap[items'[k].exp]
    <3> SUFFICES ASSUME items'[k] # None, items'[k].exp # None
                 PROVE  items'[k].exp \in Objects /\ heap'[items'[k].exp] = heap[items'[k].exp]
      OBVIOUS
    <3>1. items'[k].exp \in Objects
      BY <1>0 DEF RecordType
    <3>2. items'[k].exp \in Reachable'
      BY DEF Reachable, ExpOf
    <3>3. QED
      BY <1>0, <1>4, <3>1, <3>2, Collects
  <2>2. items'[k] # None /\ items'[k].exp # None => heap[items'[k].exp] # None
    BY <1>0, <2>1, Numbers
  <2>3. QED
    BY <1>0, <1>4, <2>1, <2>2, ImageType
<1>5. CASE StartPass
  <2>1. PICK t \in Nat :
            disk' = [x \in Keys |->
                        IF disk[x] = None \/ disk[x].exp = None THEN disk[x]
                        ELSE [disk[x] EXCEPT !.exp = Aged(@, t)]]
    BY <1>5, StartPassHeap
  <2>2. UNCHANGED items
    BY <1>5 DEF StartPass
  <2>3. CASE disk[k] = None \/ disk[k].exp = None
    BY <1>1, <2>1, <2>2, <2>3
  <2>4. CASE disk[k] # None /\ disk[k].exp # None
    <3>1. disk[k] \in StoredType /\ disk[k].exp \in ExperimentType
      BY <1>0, <2>4 DEF StoredType
    <3> DEFINE older == Aged(disk[k].exp, t)
               new == [disk[k] EXCEPT !.exp = older]
    <3>2. older \in ExperimentType /\ older.start = disk[k].exp.start /\ older.plan = disk[k].exp.plan
      BY <3>1, AgedType
    <3>3. disk'[k] = new
      BY <2>1, <2>4
    <3> HIDE DEF older
    <3>4. new \in StoredType /\ new.on = disk[k].on /\ new.exp = older
      BY <3>1, <3>2 DEF StoredType
    <3> HIDE DEF new
    <3>5. disk'[k] # None /\ disk'[k].exp # None
      BY <3>2, <3>3, <3>4, Numbers
    <3>6. QED
      BY <1>1, <1>2, <2>2, <2>4, <3>2, <3>3, <3>4, <3>5
  <2>5. QED
    BY <2>3, <2>4
<1>6. QED
  BY <1>3, <1>4, <1>5, DiskSteps

\* A restart makes memory of the file.
LEMMA SamePlansRestart == ASSUME Inv, Restart PROVE SamePlans'
<1>1. \A k \in Keys : disk[k] # None /\ disk[k].exp # None => Home[k] # None
  BY Reloaded, Numbers
<1>2. QED
  BY <1>1, Reloaded DEF SamePlans

\* The pass has nothing to save while it waits for nobody.
LEMMA NothingUnsaved == call["pass"].at = "idle" => Unsaved = {}
BY DEF Unsaved

\* A verdict or a mark goes to an experiment the pass then saves.
LEMMA ThroughThePointer ==
    ASSUME Inv, Apart, Runs, NEW k \in Keys, UNCHANGED items, ~StartPass,
           items[k] # None, items[k].exp # None, heap'[items[k].exp] # heap[items[k].exp]
    PROVE  k \in Unsaved'
<1> USE DEF Inv
<1> DEFINE o == items[k].exp
<1>1. o \in Holds(k) /\ o \in Holds(k)'
  BY DEF Holds, ExpOf
<1>2. o \in Objects /\ o \in Reachable /\ o \in Reachable'
  BY <1>1, HoldsReachable, HoldsReachableNext
<1>3. ASSUME NEW j \in Keys, o \in Holds(j) PROVE j = k
  BY <1>1, <1>3 DEF Apart
<1>4. \/ \E j \in Keys, failing \in SUBSET Arms : Evaluate(j, failing) /\ o = pass.todo[j].exp
      \/ Record /\ Experiment(pass.target.key) # None /\ o = items[pass.target.key].exp
  BY <1>2, HeapSteps
<1>5. ASSUME NEW j \in Keys, NEW failing \in SUBSET Arms, Evaluate(j, failing), o = pass.todo[j].exp
      PROVE  k \in Unsaved'
  <2>1. j \in DOMAIN pass.todo /\ Saving("pass", "status", j, pass.todo[j])
    BY <1>5 DEF Evaluate
  <2>2. pass.todo[j] \in RecordType /\ o \in Holds(j)
    BY <1>5, <2>1, Listed DEF Holds
  <2>3. j = k
    BY <1>3, <2>2
  <2>4. call'["pass"] = [at |-> "check", op |-> "status", key |-> j, rec |-> pass.todo[j], prev |-> None,
                         late |-> FALSE]
    BY <2>1, <2>2, SavingType DEF Callers
  <2>5. call'["pass"].at = "check" /\ call'["pass"].key = k /\ call'["pass"].rec = pass.todo[j]
    BY <2>3, <2>4
  <2>6. QED
    BY <1>5, <2>5 DEF Unsaved
<1>6. CASE Record /\ Experiment(pass.target.key) # None /\ o = items[pass.target.key].exp
  <2> DEFINE j == pass.target.key
  <2>1. pass.target \in TargetType
    BY <1>6, TodoTypes DEF Record, PassInv, Pulling
  <2>2. j \in Keys /\ Saving("pass", "reason", j, items[j])
    BY <1>6, <2>1 DEF TargetType, Record
  <2>3. items[j] \in RecordType /\ items[j].exp \in Holds(j)
    BY <1>6, <2>2, ExperimentOf DEF Holds
  <2> HIDE DEF j
  <2>4. j = k
    BY <1>3, <1>6, <2>2, <2>3 DEF j
  <2>5. call'["pass"] = [at |-> "check", op |-> "reason", key |-> j, rec |-> items[j], prev |-> None,
                         late |-> FALSE]
    BY <2>2, <2>3, SavingType DEF Callers
  <2>6. call'["pass"].at = "check" /\ call'["pass"].key = k /\ call'["pass"].rec = items[k]
    BY <2>4, <2>5
  <2>7. QED
    BY <2>6 DEF Unsaved
<1>7. QED
  BY <1>4, <1>5, <1>6

\* A save of the experiment the flag has is always valid.
LEMMA SameIsValid ==
    ASSUME NEW k \in Keys, NEW rec, items[k] # None, items[k].exp = rec.exp
    PROVE  ValidatePlanChange(Experiment(k), Value(rec.exp))
<1>1. Experiment(k) = Value(rec.exp)
  BY DEF Experiment
<1>2. QED
  BY <1>1 DEF ValidatePlanChange

\* What the pass has written through a pointer stays unsaved until it is written, or a write
\* fails.
LEMMA StaysUnsaved ==
    ASSUME Inv, Runs, UNCHANGED items, faults' = 0, NEW k \in Unsaved,
           ~(disk' = Image(items', heap) /\ Collected(heap))
    PROVE  k \in Unsaved'
<1> USE DEF Inv
<1>1. /\ call["pass"].at # "idle" /\ k = call["pass"].key /\ items[k] # None
      /\ items[k].exp = call["pass"].rec.exp /\ k \in Keys /\ "pass" \in Callers
  BY Busy DEF Unsaved, Callers
<1>2. CASE /\ call'["pass"].at # "idle" /\ call'["pass"].key = call["pass"].key
           /\ call'["pass"].rec = call["pass"].rec
  BY <1>1, <1>2 DEF Unsaved
<1>3. CASE BeginsOne
  <2>1. PICK c \in Callers, op \in Requests, j \in Keys, rec \in RecordType : Begins(c, op, j, rec)
    BY <1>3 DEF BeginsOne
  <2>2. c # "pass"
    BY <1>1, <2>1 DEF Begins, Idle
  <2>3. call'["pass"] = call["pass"]
    BY <1>1, <2>1, <2>2, BeginsType
  <2>4. QED
    BY <1>1, <1>2, <2>3
<1>4. CASE \E c \in Callers : Advances(c)
  <2>1. PICK c \in Callers : Advances(c)
    BY <1>4
  <2>2. QED
    BY <1>1, <1>2, <2>1, AdvancesType
<1>5. ASSUME NEW c \in Callers, NEW ok \in BOOLEAN, call[c].at # "idle", Returns(c, ok),
             Check(c) \/ Write(c) \/ WriteFails(c)
      PROVE  k \in Unsaved'
  <2>1. CASE c # "pass"
    BY <1>1, <1>2, <1>5, <2>1, ReturnsType
  <2>2. CASE c = "pass"
    <3>1. ~Write(c)
      BY DEF Write
    <3>2. ~WriteFails(c)
      <4>2. faults \in Nat
        BY DEF TypeInv
      <4>3. WriteFails(c) => faults' = faults + 1
        BY DEF WriteFails
      <4>4. QED
        BY <4>2, <4>3
    <3>3. ~Check(c)
      <4>1. ValidatePlanChange(Experiment(call[c].key), Value(call[c].rec.exp))
        BY <1>1, <2>2, SameIsValid
      <4>2. Check(c) => Advances(c)
        BY <4>1 DEF Check, Advances
      <4>3. Advances(c) => call'[c].at = "write"
        BY AdvancesType
      <4>4. call'[c].at = "idle"
        BY <1>5, ReturnsType DEF Idle
      <4>5. QED
        BY <4>2, <4>3, <4>4
    <3>4. QED
      BY <1>5, <3>1, <3>2, <3>3
  <2>3. QED
    BY <2>1, <2>2
<1>6. CASE StartPass
  BY <1>1, <1>2, <1>6, StartPassCalls
<1>7. CASE UNCHANGED call
  BY <1>1, <1>2, <1>7
<1>8. QED
  BY CallSteps, <1>3, <1>4, <1>5, <1>6, <1>7

\* Every step but a restart keeps memory and the file together, but for what the pass saves.
LEMMA SavedStep == ASSUME Inv, Apart, SavedInv, Runs PROVE SavedInv'
<1> USE DEF Inv
<1> SUFFICES ASSUME faults' = 0, NEW k \in Keys, k \notin Unsaved'
             PROVE  disk'[k] = Image(items', heap')[k]
  BY DEF SavedInv
<1>0. /\ items' \in [Keys -> RecordType \cup {None}] /\ heap \in [Objects -> ExperimentType]
      /\ items \in [Keys -> RecordType \cup {None}] /\ disk \in [Keys -> StoredType \cup {None}]
  BY ItemsSteps DEF TypeInv
<1>1. faults = 0
  BY CountSteps
<1>2. CASE disk' = Image(items', heap) /\ Collected(heap)
  <2>1. items'[k] # None /\ items'[k].exp # None => heap'[items'[k].exp] = heap[items'[k].exp]
    <3> SUFFICES ASSUME items'[k] # None, items'[k].exp # None
                 PROVE  heap'[items'[k].exp] = heap[items'[k].exp]
      OBVIOUS
    <3>1. items'[k].exp \in Objects
      BY <1>0 DEF RecordType
    <3>2. items'[k].exp \in Reachable'
      BY DEF Reachable, ExpOf
    <3>3. QED
      BY <1>0, <1>2, <3>1, <3>2, Collects
  <2>2. Image(items', heap)[k] = Image(items', heap')[k]
    BY <2>1 DEF Image
  <2>3. QED
    BY <1>2, <2>2
<1>3. CASE StartPass
  <2>1. PICK t \in Nat :
            /\ \A o \in Objects : heap'[o] = Aged(heap[o], t)
            /\ disk' = [x \in Keys |->
                        IF disk[x] = None \/ disk[x].exp = None THEN disk[x]
                        ELSE [disk[x] EXCEPT !.exp = Aged(@, t)]]
    BY <1>3, StartPassHeap
  <2>2. UNCHANGED items /\ call["pass"].at = "idle"
    <3>1. call["pass"] = Idle
      BY <1>3, StartPassPass
    <3>2. UNCHANGED items
      BY <1>3 DEF StartPass
    <3>3. QED
      BY <3>1, <3>2 DEF Idle
  <2>3. disk[k] = Image(items, heap)[k]
    BY <1>1, <2>2, NothingUnsaved DEF SavedInv
  <2>4. CASE items[k] = None \/ items[k].exp = None
    <3>1. disk[k] = None \/ disk[k].exp = None
      BY <2>3, <2>4 DEF Image
    <3>2. Image(items, heap')[k] = Image(items, heap)[k]
      BY <2>4 DEF Image
    <3>3. disk'[k] = disk[k]
      BY <2>1, <3>1
    <3>4. QED
      BY <2>2, <2>3, <3>2, <3>3
  <2>5. CASE items[k] # None /\ items[k].exp # None
    <3> DEFINE o == items[k].exp
    <3>1. o \in Objects
      BY <1>0, <2>5 DEF RecordType
    <3>2. disk[k] = [on |-> items[k].on, exp |-> heap[o]]
      BY <2>3, <2>5 DEF Image
    <3>3. disk[k] # None /\ disk[k].exp # None
      <4>1. items[k].on \in BOOLEAN /\ heap[o] \in ExperimentType
        BY <1>0, <2>5, <3>1 DEF RecordType
      <4>2. disk[k] \in StoredType
        BY <3>2, <4>1 DEF StoredType
      <4>3. disk[k].exp = heap[o]
        BY <3>2
      <4>4. QED
        BY <4>1, <4>2, <4>3, Numbers
    <3> DEFINE older == Aged(heap[o], t)
    <3>4. disk'[k] = [disk[k] EXCEPT !.exp = older]
      <4>1. disk'[k] = [disk[k] EXCEPT !.exp = Aged(disk[k].exp, t)]
        BY <2>1, <3>3
      <4>2. disk[k].exp = heap[o]
        BY <3>2
      <4>3. QED
        BY <4>1, <4>2
    <3>5. heap'[o] = older
      BY <2>1, <3>1
    <3> HIDE DEF older
    <3>6. disk'[k] = [on |-> items[k].on, exp |-> older]
      <4>1. [[on |-> items[k].on, exp |-> heap[o]] EXCEPT !.exp = older] = [on |-> items[k].on, exp |-> older]
        OBVIOUS
      <4>2. QED
        BY <3>2, <3>4, <4>1
    <3>7. QED
      BY <2>2, <2>5, <3>5, <3>6 DEF Image
  <2>6. QED
    BY <2>4, <2>5
<1>4. CASE /\ UNCHANGED <<disk, items>> /\ ~StartPass
           /\ ~(disk' = Image(items', heap) /\ Collected(heap))
  <2>1. k \notin Unsaved
    BY <1>4, StaysUnsaved
  <2>2. disk[k] = Image(items, heap)[k]
    BY <1>1, <2>1 DEF SavedInv
  <2>3. items[k] # None /\ items[k].exp # None => heap'[items[k].exp] = heap[items[k].exp]
    BY <1>4, ThroughThePointer
  <2>4. Image(items, heap')[k] = Image(items, heap)[k]
    BY <2>3 DEF Image
  <2>5. QED
    BY <1>4, <2>2, <2>4
<1>5. QED
  BY <1>2, <1>3, <1>4, DiskSteps

\* A restart makes memory of the file.
LEMMA SavedRestart == ASSUME Inv, Restart PROVE SavedInv'
<1> SUFFICES ASSUME NEW k \in Keys PROVE disk'[k] = Image(items', heap')[k]
  BY DEF SavedInv
<1>1. disk \in [Keys -> StoredType \cup {None}]
  BY DEF Inv, TypeInv
<1>2. CASE disk[k] = None
  <2>1. items'[k] = None /\ disk'[k] = None
    BY <1>2, Reloaded
  <2>2. QED
    BY <2>1 DEF Image
<1>3. CASE disk[k] # None
  <2>1. disk[k] \in StoredType
    BY <1>1, <1>3
  <2>2. disk[k] = [on |-> disk[k].on, exp |-> disk[k].exp]
    BY <2>1 DEF StoredType
  <2>3. items'[k] # None /\ items'[k].on = disk[k].on
    BY <1>3, Reloaded
  <2>4. disk[k].exp = IF items'[k].exp = None THEN None ELSE heap'[items'[k].exp]
    <3>1. CASE disk[k].exp = None
      BY <1>3, <3>1, Reloaded
    <3>2. CASE disk[k].exp # None
      <4>1. items'[k].exp = Home[k] /\ heap'[Home[k]] = disk[k].exp /\ Home[k] \in Objects
        BY <1>3, <3>2, Reloaded
      <4>2. QED
        BY <4>1, Numbers
    <3>3. QED
      BY <3>1, <3>2
  <2>5. Image(items', heap')[k] = [on |-> items'[k].on, exp |-> disk[k].exp]
    BY <2>3, <2>4 DEF Image
  <2>6. QED
    BY <2>2, <2>3, <2>5, Reloaded
<1>4. QED
  BY <1>2, <1>3

\* While no write has failed, the file holds what memory holds, but for a verdict or a mark the
\* pass is about to save (internal/flag/store.go writes the file under the lock it changes the
\* flags under): whatever operators, the safety pass and restarts do in between.
THEOREM MemoryAgrees == Spec => []MemoryMatchesDisk
<1> DEFINE I == Inv /\ Apart /\ SamePlans /\ SavedInv
<1>1. Init => I
  <2> SUFFICES ASSUME Init PROVE I
    OBVIOUS
  <2>1. Apart
    BY DEF Init, Apart, Holds, Listing, CallsOn, ExpOf, PassIdle, Idle
  <2>2. SamePlans
    BY DEF Init, SamePlans
  <2>3. SavedInv
    BY DEF Init, SavedInv, Image
  <2>4. QED
    BY <2>1, <2>2, <2>3, InitInv
<1>2. I /\ [Next]_vars => I'
  <2> SUFFICES ASSUME I, [Next]_vars PROVE I'
    OBVIOUS
  <2>1. Inv'
    BY InvStep
  <2>2. CASE Runs
    BY <2>1, <2>2, ApartStep, SamePlansStep, SavedStep
  <2>3. CASE Restart
    BY <2>1, <2>3, ApartRestart, SamePlansRestart, SavedRestart
  <2>4. QED
    BY <2>2, <2>3 DEF Next, Runs
<1>3. I => MemoryMatchesDisk
  <2> SUFFICES ASSUME I, faults = 0, call["pass"].at = "idle" PROVE disk = Image(items, heap)
    BY DEF MemoryMatchesDisk
  <2>1. Unsaved = {}
    BY NothingUnsaved
  <2>2. \A k \in Keys : disk[k] = Image(items, heap)[k]
    BY <2>1 DEF SavedInv
  <2>3. disk = [k \in Keys |-> disk[k]]
    BY DEF Inv, TypeInv
  <2>4. Image(items, heap) = [k \in Keys |-> Image(items, heap)[k]]
    BY DEF Image
  <2>5. QED
    BY <2>2, <2>3, <2>4
<1>4. QED
  BY <1>1, <1>2, <1>3, PTL DEF Spec

-----------------------------------------------------------------------------
\* The lock.

\* Two values of an experiment that are one to the lock.
SamePlan(a, b) ==
    /\ (a = None) = (b = None)
    /\ a # None => a.start = b.start /\ a.plan = b.plan

\* The lock looks at plans and starts.
LEMMA SameValid ==
    ASSUME NEW old, NEW new, NEW old2, NEW new2, SamePlan(old, old2), SamePlan(new, new2),
           ValidatePlanChange(old, new)
    PROVE  ValidatePlanChange(old2, new2)
BY DEF SamePlan, ValidatePlanChange

\* What is at an address of a heap.
At(o, h) == IF o = None THEN None ELSE h[o]

\* An experiment that a record refers to before and after a step is one to the lock.
LEMMA ValueKept ==
    ASSUME Inv, Runs, NEW rec \in RecordType, ExpOf(rec) \subseteq Reachable,
           ExpOf(rec) \subseteq Reachable'
    PROVE  SamePlan(Value(rec.exp), At(rec.exp, heap'))
<1>1. CASE rec.exp = None
  BY <1>1 DEF Value, SamePlan, At
<1>2. CASE rec.exp # None
  <2>1. rec.exp \in Objects /\ rec.exp \in Reachable /\ rec.exp \in Reachable'
    BY <1>2, Numbers DEF ExpOf, RecordType
  <2>2. heap'[rec.exp].plan = heap[rec.exp].plan /\ heap'[rec.exp].start = heap[rec.exp].start
    BY <2>1, HeapSteps
  <2>3. heap[rec.exp] \in ExperimentType /\ heap'[rec.exp] \in ExperimentType
    BY <2>1, HeapSteps DEF Inv, TypeInv
  <2>4. Value(rec.exp) = heap[rec.exp] /\ At(rec.exp, heap') = heap'[rec.exp]
    BY <1>2 DEF Value, At
  <2>5. QED
    BY <2>2, <2>3, <2>4, Numbers DEF SamePlan
<1>3. QED
  BY <1>1, <1>2

\* What was found valid stays valid against what it was compared with.
LEMMA ValidStep == ASSUME Inv, ValidInv, Runs PROVE ValidInv'
<1> USE DEF Inv
<1> DEFINE Old(rec)  == IF rec = None THEN None ELSE Value(rec.exp)
           After(rec) == IF rec = None THEN None ELSE At(rec.exp, heap')
<1>1. ASSUME NEW c \in Callers, NEW old \in RecordType \cup {None}, NEW new \in RecordType,
             call'[c].prev = old, call'[c].rec = new, ExpOf(old) \subseteq Reachable,
             ExpOf(new) \subseteq Reachable, ValidatePlanChange(Old(old), Value(new.exp))
      PROVE  ValidatePlanChange(After(old), At(new.exp, heap'))
  <2>1. ExpOf(old) \subseteq Reachable' /\ ExpOf(new) \subseteq Reachable'
    <3>1. ExpOf(call'[c].rec) \cup ExpOf(call'[c].prev) \subseteq Reachable'
      BY DEF Reachable
    <3>2. QED
      BY <1>1, <3>1
  <2>2. SamePlan(Value(new.exp), At(new.exp, heap'))
    BY <1>1, <2>1, ValueKept
  <2>3. SamePlan(Old(old), After(old))
    <3>1. CASE old = None
      BY <3>1 DEF SamePlan
    <3>2. CASE old # None
      <4>1. SamePlan(Value(old.exp), At(old.exp, heap'))
        BY <1>1, <2>1, <3>2, ValueKept
      <4>2. QED
        BY <3>2, <4>1
    <3>3. QED
      BY <3>1, <3>2
  <2> HIDE DEF Old, After
  <2>4. QED
    BY <1>1, <2>2, <2>3, SameValid
<1> HIDE DEF After, Old
<1> SUFFICES ASSUME NEW c \in Callers, call'[c].at = "write"
             PROVE  ValidatePlanChange(After(call'[c].prev), At(call'[c].rec.exp, heap'))
  BY DEF ValidInv, Value, At, After
<1>2. CASE call[c].at = "write" /\ call'[c].rec = call[c].rec /\ call'[c].prev = call[c].prev
  <2>1. call[c].rec \in RecordType /\ call[c].prev \in RecordType \cup {None}
    BY <1>2, Busy, CallTypes
  <2>2. ValidatePlanChange(Old(call[c].prev), Value(call[c].rec.exp))
    BY <1>2 DEF ValidInv, Old
  <2>3. ExpOf(call[c].rec) \subseteq Reachable /\ ExpOf(call[c].prev) \subseteq Reachable
    BY Referred
  <2>4. QED
    BY <1>1, <1>2, <2>1, <2>2, <2>3
<1>3. CASE BeginsOne
  <2>1. PICK d \in Callers, op \in Requests, k \in Keys, rec \in RecordType : Begins(d, op, k, rec)
    BY <1>3 DEF BeginsOne
  <2>2. /\ \A e \in Callers \ {d} : call'[e] = call[e]
        /\ call'[d] = [at |-> "check", op |-> op, key |-> k, rec |-> rec, prev |-> None, late |-> FALSE]
    BY <2>1, BeginsType
  <2>3. call'[d].at = "check"
    BY <2>2
  <2>4. QED
    BY <1>2, <2>2, <2>3
<1>4. CASE \E d \in Callers : Advances(d)
  <2>1. PICK d \in Callers : Advances(d)
    BY <1>4
  <2>2. CASE c # d
    BY <1>2, <2>1, <2>2, AdvancesType
  <2>3. CASE c = d
    <3> DEFINE k == call[c].key
    <3>1. k \in Keys /\ call'[c].rec = call[c].rec /\ call'[c].prev = items[k]
          /\ call[c].at # "idle"
      BY <2>1, <2>3, AdvancesType DEF Advances
    <3>2. call[c].rec \in RecordType /\ items[k] \in RecordType \cup {None}
      BY <3>1, Busy DEF TypeInv
    <3>3. ValidatePlanChange(Experiment(k), Value(call[c].rec.exp))
      BY <2>1, <2>3 DEF Advances
    <3>4. Experiment(k) = Old(items[k])
      BY DEF Experiment, Old
    <3>5. ExpOf(items[k]) \subseteq Reachable /\ ExpOf(call[c].rec) \subseteq Reachable
      BY <3>1, Referred
    <3>6. QED
      BY <1>1, <3>1, <3>2, <3>3, <3>4, <3>5
  <2>4. QED
    BY <2>2, <2>3
<1>5. CASE \E d \in Callers, ok \in BOOLEAN : call[d].at # "idle" /\ Returns(d, ok)
  <2>1. PICK d \in Callers, ok \in BOOLEAN : call[d].at # "idle" /\ Returns(d, ok)
    BY <1>5
  <2>2. call'[d].at = "idle" /\ \A e \in Callers \ {d} : call'[e] = call[e]
    BY <2>1, ReturnsType DEF Idle
  <2>3. QED
    BY <1>2, <2>2
<1>6. CASE StartPass
  BY <1>2, <1>6, StartPassCalls
<1>7. CASE UNCHANGED call
  BY <1>2, <1>7
<1>8. QED
  BY CallSteps, <1>3, <1>4, <1>5, <1>6, <1>7

\* A flag whose record stays keeps its plan and its start.
LEMMA FlagKept ==
    ASSUME Inv, Runs, NEW k \in Keys, items'[k] = items[k]
    PROVE  SamePlan(Experiment(k), Experiment(k)')
<1>1. CASE items[k] = None
  BY <1>1 DEF Experiment, SamePlan
<1>2. CASE items[k] # None
  <2>1. items[k] \in RecordType
    BY <1>2, ExperimentOf DEF Inv
  <2>2. ExpOf(items[k]) \subseteq Reachable /\ ExpOf(items[k]) \subseteq Reachable'
    BY Referred DEF Reachable
  <2>3. SamePlan(Value(items[k].exp), At(items[k].exp, heap'))
    BY <2>1, <2>2, ValueKept
  <2>4. Experiment(k) = Value(items[k].exp) /\ Experiment(k)' = At(items[k].exp, heap')
    BY <1>2 DEF Experiment, Value, At
  <2>5. QED
    BY <2>3, <2>4
<1>3. QED
  BY <1>1, <1>2

\* What breaks a lock.
Breaks(k) ==
    /\ Experiment(k) # None /\ Experiment(k).start # None
    /\ items'[k] # None
    /\ LET new == Experiment(k)'
       IN new = None \/ new.start # Experiment(k).start \/ new.plan # Experiment(k).plan

\* A lock is broken by a write that another has overtaken, and by nothing else.
LEMMA LockStep ==
    ASSUME Inv, SamePlans, ValidInv, [Next]_vars, NEW k \in Keys, Breaks(k)
    PROVE  \E c \in Callers : call[c].at = "write" /\ call[c].key = k /\ call[c].prev # items[k]
<1> USE DEF Inv
<1>1. ~SamePlan(Experiment(k), Experiment(k)')
  BY DEF Breaks, SamePlan
<1>2. CASE Runs
  <2>1. items'[k] # items[k]
    BY <1>1, <1>2, FlagKept
  <2>2. PICK c \in Callers : /\ Write(c) /\ call[c].key = k /\ call[c].rec \in RecordType
                             /\ items'[k] = call[c].rec
    BY <1>2, <2>1, ItemsSteps DEF Breaks
  <2>3. call[c].at = "write"
    BY <2>2 DEF Write
  <2>4. ASSUME call[c].prev = items[k] PROVE FALSE
    <3>1. Experiment(k) = IF call[c].prev = None THEN None ELSE Value(call[c].prev.exp)
      BY <2>4 DEF Experiment
    <3>2. ValidatePlanChange(Experiment(k), Value(call[c].rec.exp))
      BY <2>3, <3>1 DEF ValidInv
    <3>3. SamePlan(Experiment(k), Value(call[c].rec.exp))
      BY <3>2 DEF ValidatePlanChange, Breaks, SamePlan
    <3>4. ExpOf(call[c].rec) \subseteq Reachable /\ ExpOf(call[c].rec) \subseteq Reachable'
      <4>1. ExpOf(items'[k]) \subseteq Reachable'
        BY DEF Reachable
      <4>2. QED
        BY <2>2, <4>1, Referred
    <3>5. SamePlan(Value(call[c].rec.exp), At(call[c].rec.exp, heap'))
      BY <1>2, <2>2, <3>4, ValueKept
    <3>6. Experiment(k)' = At(call[c].rec.exp, heap')
      BY <2>2 DEF Experiment, Breaks, Value, At
    <3>7. QED
      BY <1>1, <3>3, <3>5, <3>6 DEF SamePlan
  <2>5. QED
    BY <2>2, <2>3, <2>4
<1>3. CASE Restart
  <2>1. items[k] # None /\ items[k].exp # None /\ Experiment(k) = heap[items[k].exp]
    BY ExperimentOf DEF Breaks
  <2>2. disk[k] # None /\ disk[k].exp # None /\ disk[k].exp.start = Experiment(k).start
        /\ disk[k].exp.plan = Experiment(k).plan
    BY <2>1 DEF SamePlans
  <2>3. items'[k] # None /\ items'[k].exp = Home[k] /\ heap'[Home[k]] = disk[k].exp /\ Home[k] \in Objects
    BY <1>3, <2>2, Reloaded
  <2>4. Experiment(k)' = disk[k].exp
    BY <2>3, Numbers DEF Experiment, Value
  <2>5. QED
    BY <1>1, <2>2, <2>4 DEF Breaks, SamePlan
<1>4. QED
  BY <1>2, <1>3 DEF Next, Runs

\* A running plan is removed, re-dated or re-aimed only by a caller whose validation another
\* write has overtaken (ValidatePlanChange of internal/flag/experiment.go, called under another
\* lock than the write): the lock of an experiment yields to nothing else, restarts included.
THEOREM LockYieldsOnlyToRaces == Spec => LockHolds
<1> DEFINE I == Inv /\ SamePlans /\ ValidInv
           Lock == \A k \in Keys :
               /\ Experiment(k) # None /\ Experiment(k).start # None
               /\ items'[k] # None
               /\ LET new == Experiment(k)'
                  IN new = None \/ new.start # Experiment(k).start \/ new.plan # Experiment(k).plan
               => \E c \in Callers :
                     /\ call[c].at = "write" /\ call[c].key = k
                     /\ call[c].prev # items[k]
<1>1. Init => I
  <2> SUFFICES ASSUME Init PROVE I
    OBVIOUS
  <2>1. SamePlans
    BY DEF Init, SamePlans
  <2>2. ValidInv
    BY DEF Init, ValidInv, Idle
  <2>3. QED
    BY <2>1, <2>2, InitInv
<1>2. I /\ [Next]_vars => I'
  <2> SUFFICES ASSUME I, [Next]_vars PROVE I'
    OBVIOUS
  <2>1. Inv'
    BY InvStep
  <2>2. CASE Runs
    BY <2>1, <2>2, SamePlansStep, ValidStep
  <2>3. CASE Restart
    <3>1. \A c \in Callers : call'[c] = Idle
      BY <2>3 DEF Restart
    <3>2. ValidInv'
      BY <3>1 DEF ValidInv, Idle
    <3>3. QED
      BY <2>1, <2>3, <3>2, SamePlansRestart
  <2>4. QED
    BY <2>2, <2>3 DEF Next, Runs
<1>3. I /\ [Next]_vars => [Lock]_vars
  BY LockStep DEF Breaks
<1>4. LockHolds <=> [][Lock]_vars
  BY DEF LockHolds
<1>5. QED
  BY <1>1, <1>2, <1>3, <1>4, PTL DEF Spec

-----------------------------------------------------------------------------
\* Verdicts.

\* What a step does to an experiment that stays with its flag.
LEMMA HeldSteps ==
    ASSUME Inv, Apart, Runs, NEW k \in Keys, NEW o \in Holds(k), o \in Holds(k)'
    PROVE  /\ heap[o] \in ExperimentType
           /\ heap'[o].start = heap[o].start
           /\ ~StartPass => heap'[o].age = heap[o].age
           /\ heap[o].reverted => heap'[o].reverted
           /\ \/ heap'[o].failing = heap[o].failing /\ heap'[o].checked = heap[o].checked
              \/ StartPass
              \/ \E failing \in SUBSET Arms :
                     /\ Evaluate(k, failing) /\ k \in DOMAIN pass.todo /\ o = pass.todo[k].exp
                     /\ heap'[o].failing = failing /\ heap'[o].checked = 0
<1> USE DEF Inv
<1>0. o \in Objects /\ o \in Reachable /\ o \in Reachable' /\ heap'[o].start = heap[o].start
      /\ heap[o] \in ExperimentType
  BY HoldsReachable, HoldsReachableNext, HeldKept DEF TypeInv
<1>1. CASE heap'[o] = heap[o]
  BY <1>0, <1>1
<1>2. CASE StartPass
  <2>1. PICK t \in Nat : heap'[o] = Aged(heap[o], t)
    BY <1>0, <1>2, StartPassHeap
  <2>2. QED
    BY <1>0, <1>2, <2>1, AgedType
<1>3. ASSUME NEW j \in Keys, NEW failing \in SUBSET Arms, Evaluate(j, failing), o = pass.todo[j].exp
      PROVE  /\ j = k /\ j \in DOMAIN pass.todo
             /\ heap'[o].age = heap[o].age /\ heap'[o].reverted = heap[o].reverted
             /\ heap'[o].failing = failing /\ heap'[o].checked = 0
  <2>1. j \in DOMAIN pass.todo
    BY <1>3 DEF Evaluate
  <2>2. o \in Holds(j)
    BY <1>3, <2>1, Listed DEF Holds
  <2>3. j = k
    BY <2>2 DEF Apart
  <2>4. QED
    BY <1>0, <1>3, <2>1, <2>3, EvaluateBegins
<1>4. CASE Record /\ Experiment(pass.target.key) # None /\ o = items[pass.target.key].exp
  <2>1. heap' = [heap EXCEPT ![items[pass.target.key].exp].reverted = TRUE]
    BY <1>4, RecordBegins
  <2> DEFINE new == [heap[o] EXCEPT !.reverted = TRUE]
  <2>2. heap'[o] = new
    BY <1>0, <1>4, <2>1 DEF TypeInv
  <2>3. new.age = heap[o].age /\ new.reverted = TRUE /\ new.failing = heap[o].failing
        /\ new.checked = heap[o].checked
    BY <1>0 DEF ExperimentType
  <2> HIDE DEF new
  <2>4. QED
    BY <1>0, <2>2, <2>3
<1>5. QED
  BY <1>0, <1>1, <1>2, <1>3, <1>4, HeapSteps

\* But for an evaluation, a step only lets the verdicts age.
LEMMA VerdictsKept ==
    ASSUME Inv, Runs, \A k \in Keys, failing \in SUBSET Arms : ~Evaluate(k, failing), NEW s \in Starts
    PROVE  /\ verdicts'[s].last = verdicts[s].last
           /\ ~StartPass => verdicts'[s].since = verdicts[s].since
           /\ ~EndPass => verdicts'[s].twice = verdicts[s].twice
<1>1. CASE UNCHANGED verdicts
  BY <1>1
<1>2. CASE StartPass /\ \A x \in Starts :
               verdicts'[x].last = verdicts[x].last /\ verdicts'[x].twice = verdicts[x].twice
  BY <1>2
<1>3. CASE EndPass /\ \A x \in Starts :
               verdicts'[x].last = verdicts[x].last /\ verdicts'[x].since = verdicts[x].since
  BY <1>3
<1>4. CASE \A x \in Starts :
               /\ verdicts'[x].last = verdicts[x].last /\ verdicts'[x].twice = verdicts[x].twice
               /\ verdicts'[x].since = verdicts[x].since
  BY <1>4
<1>5. QED
  BY <1>1, <1>2, <1>3, <1>4, VerdictSteps

\* What an evaluation does to the verdicts.
LEMMA EvaluateVerdicts ==
    ASSUME Inv, NEW k \in Keys, NEW failing \in SUBSET Arms, Evaluate(k, failing)
    PROVE  /\ k \in DOMAIN pass.todo
           /\ LET s == heap[pass.todo[k].exp].start
              IN /\ s \in Starts
                 /\ \A x \in Starts \ {s} : verdicts'[x] = verdicts[x]
                 /\ verdicts'[s].last = failing /\ verdicts'[s].since = 0
                 /\ verdicts'[s].twice =
                        IF verdicts[s].since = MinGap THEN verdicts[s].last \cap failing ELSE {}
<1> DEFINE s     == heap[pass.todo[k].exp].start
           twice == IF verdicts[s].since = MinGap THEN verdicts[s].last \cap failing ELSE {}
           new   == [given |-> TRUE, last |-> failing, since |-> 0, twice |-> twice]
<1>1. k \in DOMAIN pass.todo /\ verdicts' = [verdicts EXCEPT ![s] = new]
  BY DEF Evaluate
<1>2. s \in Starts
  BY <1>1, Listed
<1> HIDE DEF twice
<1>3. new.last = failing /\ new.since = 0 /\ new.twice = twice
  OBVIOUS
<1> HIDE DEF new, s
<1>4. verdicts'[s] = new /\ \A x \in Starts \ {s} : verdicts'[x] = verdicts[x]
  BY <1>1, <1>2 DEF Inv, TypeInv
<1>5. QED
  BY <1>1, <1>2, <1>3, <1>4 DEF s, twice

\* An object just made has no verdict, if it was not started, or if it was started just now.
LEMMA MadeFresh ==
    ASSUME Inv, FreshInv, NEW k \in Keys, NEW c, NEW op \in {"start", "plan"}, NEW rec,
           Makes(c, op, k, rec)
    PROVE  /\ Unstarted(heap'[rec.exp])
           /\ op = "start" => heap'[rec.exp].failing = {} /\ heap'[rec.exp].checked = None
<1>1. Experiment(k) # None => StartOn(k) = Experiment(k).start /\ Unstarted(Experiment(k))
  BY ExperimentOf DEF FreshInv, Holds, StartOn, Inv
<1>2. CASE op = "start"
  <2>1. heap'[rec.exp].start # None
    BY <1>2, Numbers DEF Makes
  <2>2. QED
    BY <1>1, <1>2, <2>1 DEF Makes, Unstarted
<1>3. CASE op = "plan"
  BY <1>1, <1>3 DEF Makes, Unstarted
<1>4. QED
  BY <1>2, <1>3

\* Time leaves an experiment that was not started as it is.
LEMMA AgedFresh ==
    ASSUME NEW exp \in ExperimentType, NEW t \in Nat, Unstarted(exp)
    PROVE  Unstarted(Aged(exp, t))
BY AgedType DEF Unstarted

\* A start has no verdict before its first; nor does a plan.
LEMMA FreshStep == ASSUME Inv, Apart, FreshInv, Runs PROVE FreshInv'
<1> USE DEF Inv
<1>0. /\ disk \in [Keys -> StoredType \cup {None}] /\ heap \in [Objects -> ExperimentType]
      /\ items' \in [Keys -> RecordType \cup {None}]
  BY ItemsSteps DEF TypeInv
<1>1. ASSUME NEW k \in Keys, NEW o \in Holds(k)' PROVE Unstarted(heap'[o])
  <2>1. CASE o \in Holds(k)
    <3>1. Unstarted(heap[o]) /\ heap[o] \in ExperimentType /\ o \in Objects
      BY <1>1, <2>1, HeldSteps, HoldsReachable DEF FreshInv
    <3>2. CASE StartPass
      <4>1. PICK t \in Nat : heap'[o] = Aged(heap[o], t)
        BY <3>1, <3>2, StartPassHeap
      <4>2. QED
        BY <3>1, <4>1, AgedFresh
    <3>3. CASE ~StartPass
      <4>1. SUFFICES ASSUME heap'[o].start = None
                     PROVE  heap'[o].age = 0 /\ heap'[o].failing = {} /\ heap'[o].checked = None
        BY DEF Unstarted
      <4>2. heap[o].start = None /\ heap'[o].age = heap[o].age
        BY <1>1, <2>1, <3>3, <4>1, HeldSteps
      <4>3. heap'[o].failing = heap[o].failing /\ heap'[o].checked = heap[o].checked
        <5>1. k \in DOMAIN pass.todo => o # pass.todo[k].exp
          BY <4>2, Listed, Numbers
        <5>2. QED
          BY <1>1, <2>1, <3>3, <5>1, HeldSteps
      <4>4. QED
        BY <3>1, <4>2, <4>3 DEF Unstarted
    <3>4. QED
      BY <3>2, <3>3
  <2>2. CASE Made(o, k)
    BY <2>2, MadeFresh DEF Made
  <2>3. QED
    BY <1>1, <2>1, <2>2, HoldsSteps
<1>2. ASSUME NEW k \in Keys, disk'[k] # None, disk'[k].exp # None PROVE Unstarted(disk'[k].exp)
  <2>1. CASE UNCHANGED <<disk, items>>
    BY <1>2, <2>1 DEF FreshInv
  <2>2. CASE disk' = Image(items', heap) /\ Collected(heap)
    <3>1. items'[k] # None /\ items'[k].exp # None /\ disk'[k].exp = heap[items'[k].exp]
      BY <1>0, <1>2, <2>2, ImageType
    <3>2. items'[k].exp \in Objects /\ items'[k].exp \in Holds(k)'
      BY <1>0, <3>1 DEF RecordType, Holds, ExpOf
    <3>3. heap'[items'[k].exp] = heap[items'[k].exp]
      BY <1>0, <2>2, <3>2, HoldsReachableNext, Collects
    <3>4. QED
      BY <1>1, <3>1, <3>2, <3>3
  <2>3. CASE StartPass
    <3>1. PICK t \in Nat :
              disk' = [x \in Keys |->
                          IF disk[x] = None \/ disk[x].exp = None THEN disk[x]
                          ELSE [disk[x] EXCEPT !.exp = Aged(@, t)]]
      BY <2>3, StartPassHeap
    <3>2. CASE disk[k] = None \/ disk[k].exp = None
      BY <1>2, <3>1, <3>2
    <3>3. CASE disk[k] # None /\ disk[k].exp # None
      <4>1. disk[k] \in StoredType /\ disk[k].exp \in ExperimentType /\ Unstarted(disk[k].exp)
        BY <1>0, <3>3 DEF StoredType, FreshInv
      <4> DEFINE older == Aged(disk[k].exp, t)
      <4>2. Unstarted(older)
        BY <4>1, AgedFresh
      <4>3. disk'[k] = [disk[k] EXCEPT !.exp = older]
        BY <3>1, <3>3
      <4> HIDE DEF older
      <4>4. disk'[k].exp = older
        BY <4>1, <4>3 DEF StoredType
      <4>5. QED
        BY <4>2, <4>4
    <3>4. QED
      BY <3>2, <3>3
  <2>4. QED
    BY <2>1, <2>2, <2>3, DiskSteps
<1>3. ASSUME NEW s \in Starts, verdicts'[s].since = None
      PROVE  verdicts'[s].last = {} /\ verdicts'[s].twice = {}
  <2>1. CASE \E k \in Keys, failing \in SUBSET Arms : Evaluate(k, failing)
    <3>1. PICK k \in Keys, failing \in SUBSET Arms : Evaluate(k, failing)
      BY <2>1
    <3> DEFINE x == heap[pass.todo[k].exp].start
    <3>5. verdicts'[x].since = 0
      BY <3>1, EvaluateVerdicts
    <3> HIDE DEF x
    <3>6. s # x
      BY <1>3, <3>5, Numbers
    <3>2. s # heap[pass.todo[k].exp].start
      BY <3>6 DEF x
    <3>3. verdicts'[s] = verdicts[s]
      BY <3>1, <3>2, EvaluateVerdicts
    <3>4. QED
      BY <1>3, <3>3 DEF FreshInv
  <2>2. CASE \A k \in Keys, failing \in SUBSET Arms : ~Evaluate(k, failing)
    <3>1. verdicts[s].since = None
      BY <1>3, <2>2, VerdictSteps
    <3>2. verdicts[s].last = {} /\ verdicts[s].twice = {}
      BY <3>1 DEF FreshInv
    <3>3. verdicts'[s].last = verdicts[s].last /\ verdicts'[s].twice \in {verdicts[s].twice, {}}
      BY <2>2, VerdictSteps
    <3>4. QED
      BY <3>2, <3>3
  <2>3. QED
    BY <2>1, <2>2
<1>4. QED
  BY <1>1, <1>2, <1>3 DEF FreshInv

\* A restart loads what the file holds.
LEMMA FreshRestart == ASSUME Inv, FreshInv, Restart PROVE FreshInv'
<1>1. UNCHANGED <<disk, verdicts>>
  BY DEF Restart
<1>2. \A k \in Keys : \A o \in Holds(k)' : Unstarted(heap'[o])
  BY HoldsRestarted DEF FreshInv
<1>3. QED
  BY <1>1, <1>2 DEF FreshInv


-----------------------------------------------------------------------------
\* The objects of a flag have the verdict that was given last.

\* An experiment just started for a flag.
Begun(o, k) ==
    \E c \in Operators, rec \in RecordType :
        Begins(c, "start", k, rec) /\ Makes(c, "start", k, rec) /\ o = rec.exp

\* An experiment begun is one that was made, at a start of its own.
LEMMA BegunMade ==
    ASSUME Inv, FreshInv, NEW k \in Keys, NEW o, Begun(o, k)
    PROVE  /\ Made(o, k)
           /\ o \notin Reachable
           /\ heap'[o].age = 0 /\ heap'[o].failing = {} /\ heap'[o].checked = None
           /\ heap'[o].start \in Starts /\ Spare(heap'[o].start)
<1>1. PICK c \in Operators, rec \in RecordType :
          Begins(c, "start", k, rec) /\ Makes(c, "start", k, rec) /\ o = rec.exp
  BY DEF Begun
<1>2. Made(o, k)
  BY <1>1 DEF Made
<1>3. o \notin Reachable /\ heap'[o].age = 0 /\ \E s \in Starts : Unused(s) /\ heap'[o].start = s
  BY <1>1 DEF Makes, Fresh
<1>4. heap'[o].failing = {} /\ heap'[o].checked = None
  BY <1>1, MadeFresh
<1>5. QED
  BY <1>2, <1>3, <1>4 DEF Unused

\* What counts for a flag is held for it.
LEMMA MainHeld ==
    ASSUME NEW k \in Keys
    PROVE  Main(k) \subseteq Holds(k)
BY DEF Main, Holds

\* After a step as before it.
LEMMA MainHeldNext ==
    ASSUME NEW k \in Keys
    PROVE  Main(k)' \subseteq Holds(k)'
BY DEF Main, Holds, CallsOn

\* An experiment comes to count when it is started, or is excused when it is edited.
LEMMA MainSteps ==
    ASSUME Inv, Runs, NEW k \in Keys, NEW o \in Main(k)',
           heap'[o].start # None, heap'[o].start \notin excused'
    PROVE  o \in Main(k) \/ Begun(o, k)
<1> USE DEF Inv
<1>0. \A c \in Callers : call[c].key = k =>
          /\ ExpOf(call[c].rec) \subseteq Holds(k)
          /\ call[c].op # "plan" => ExpOf(call[c].rec) \subseteq Main(k)
  BY DEF Main, Holds, CallsOn
<1>1. CASE o \in ExpOf(items'[k])
  <2>1. CASE UNCHANGED items
    BY <1>1, <2>1 DEF Main
  <2>2. ASSUME NEW c \in Callers, Write(c), call[c].key \in Keys, call[c].rec \in RecordType,
               items'[call[c].key] = call[c].rec,
               \A x \in Keys \ {call[c].key} : items'[x] = items[x]
        PROVE  o \in Main(k)
    <3>1. CASE call[c].key # k
      BY <1>1, <2>2, <3>1 DEF Main
    <3>2. CASE call[c].key = k /\ call[c].op # "plan"
      BY <1>0, <1>1, <2>2, <3>2
    <3>3. CASE call[c].key = k /\ call[c].op = "plan"
      <4>0. o \in ExpOf(call[c].rec)
        BY <1>1, <2>2, <3>3
      <4>1. o \in Holds(k) /\ o \in Holds(k)' /\ o = call[c].rec.exp /\ call[c].rec.exp # None
        <5>1. o \in Holds(k)
          BY <1>0, <2>2, <3>3, <4>0
        <5>2. o \in Holds(k)'
          BY MainHeldNext
        <5>3. o = call[c].rec.exp /\ call[c].rec.exp # None
          BY <4>0 DEF ExpOf
        <5>4. QED
          BY <5>1, <5>2, <5>3
      <4>2. heap'[o].start = heap[o].start /\ o \in Objects
        BY <4>1, HeldKept
      <4>3. heap[o].start \in Starts
        <5>1. heap[o] \in ExperimentType
          BY <4>2 DEF TypeInv
        <5>2. QED
          BY <4>2, <5>1 DEF ExperimentType
      <4>4. heap[o].start \in Rewrites(c)
        BY <3>3, <4>1, <4>3 DEF Rewrites
      <4>5. heap[o].start \in excused'
        BY <2>2, <4>4 DEF Write
      <4>6. QED
        BY <4>2, <4>5
    <3>4. QED
      BY <3>1, <3>2, <3>3
  <2>3. ASSUME NEW j \in Keys, items'[j] = None, \A x \in Keys \ {j} : items'[x] = items[x]
        PROVE  o \in Main(k)
    <3>1. k # j
      BY <1>1, <2>3 DEF ExpOf
    <3>2. QED
      BY <1>1, <2>3, <3>1 DEF Main
  <2>4. QED
    BY <2>1, <2>2, <2>3, ItemsSteps
<1>2. CASE o \in Listing(k)'
  <2>1. k \in DOMAIN pass'.todo /\ o \in ExpOf(pass'.todo[k])
    BY <1>2 DEF Listing
  <2>2. pass'.todo[k] = pass.todo[k] /\ k \in DOMAIN pass.todo => o \in Main(k)
    BY <2>1 DEF Main, Listing
  <2>3. pass'.todo[k] = items[k] => o \in Main(k)
    BY <2>1 DEF Main
  <2>4. QED
    BY <2>1, <2>2, <2>3, TodoSteps
<1>3. ASSUME NEW c \in Callers, call'[c].key = k, call'[c].op # "plan", o \in ExpOf(call'[c].rec)
      PROVE  o \in Main(k) \/ Begun(o, k)
  <2>1. CASE call'[c].key = call[c].key /\ call'[c].rec = call[c].rec /\ call'[c].op = call[c].op
    BY <1>0, <1>3, <2>1
  <2>2. CASE BeginsOne
    <3>1. PICK d \in Callers, op \in Requests, j \in Keys, rec \in RecordType : Begins(d, op, j, rec)
      BY <2>2 DEF BeginsOne
    <3>2. /\ \A e \in Callers \ {d} : call'[e] = call[e]
          /\ call'[d] = [at |-> "check", op |-> op, key |-> j, rec |-> rec, prev |-> None, late |-> FALSE]
      BY <3>1, BeginsType
    <3>3. CASE c # d
      BY <2>1, <3>2, <3>3
    <3>4. CASE c = d
      <4>1. j = k /\ o \in ExpOf(rec) /\ op # "plan"
        BY <1>3, <3>2, <3>4
      <4>2. CASE Makes(d, op, j, rec) /\ op \in {"start", "plan"} /\ d \in Operators
        BY <3>1, <4>1, <4>2 DEF Begun, ExpOf
      <4>3. CASE ExpOf(rec) \subseteq ExpOf(items[j]) \cup Listing(j)
        BY <4>1, <4>3 DEF Main
      <4>4. QED
        BY <3>1, <4>2, <4>3 DEF Begins
    <3>5. QED
      BY <3>3, <3>4
  <2>3. CASE \E d \in Callers : Advances(d)
    <3>1. PICK d \in Callers : Advances(d)
      BY <2>3
    <3>2. QED
      BY <2>1, <3>1, AdvancesType
  <2>4. CASE \E d \in Callers, ok \in BOOLEAN : call[d].at # "idle" /\ Returns(d, ok)
    <3>1. PICK d \in Callers, ok \in BOOLEAN : call[d].at # "idle" /\ Returns(d, ok)
      BY <2>4
    <3>2. CASE c # d
      BY <2>1, <3>1, <3>2, ReturnsType
    <3>3. CASE c = d
      BY <1>3, <3>1, <3>3, ReturnsType, Numbers DEF Idle
    <3>4. QED
      BY <3>2, <3>3
  <2>5. CASE StartPass
    BY <2>1, <2>5, StartPassCalls
  <2>6. CASE UNCHANGED call
    BY <2>1, <2>6
  <2>7. QED
    BY CallSteps, <2>2, <2>3, <2>4, <2>5, <2>6
<1>4. QED
  BY <1>1, <1>2, <1>3 DEF Main, CallsOn

\* Every step but a restart keeps the verdicts where they are looked for.
LEMMA VerdictStep == ASSUME Inv, Apart, FreshInv, VerdictInv, Runs PROVE VerdictInv'
<1> USE DEF Inv
<1> SUFFICES ASSUME NEW k \in Keys, NEW o \in Main(k)', heap'[o].start # None,
                    heap'[o].start \notin excused'
             PROVE  /\ \A p \in Main(k)' : heap'[p].start = heap'[o].start => p = o
                    /\ heap'[o].failing = verdicts'[heap'[o].start].last
                    /\ heap'[o].checked = verdicts'[heap'[o].start].since
  BY DEF VerdictInv
<1>0. excused \subseteq excused'
  BY CountSteps
<1>1. ASSUME NEW q \in Main(k)', heap'[q].start = heap'[o].start
      PROVE  /\ q \in Main(k) \/ Begun(q, k)
             /\ q \in Main(k) =>
                    /\ q \in Holds(k) /\ q \in Holds(k)' /\ q \in Objects
                    /\ heap[q].start = heap'[q].start
  BY <1>1, MainSteps, MainHeld, MainHeldNext, HeldKept
<1>2. ASSUME NEW p \in Main(k)', heap'[p].start = heap'[o].start
      PROVE  p = o
  <2>1. CASE o \in Main(k) /\ p \in Main(k)
    BY <1>0, <1>1, <1>2, <2>1 DEF VerdictInv
  <2>2. CASE Begun(o, k) /\ Begun(p, k)
    BY <2>2, BegunMade, MadeOnce
  <2>3. ASSUME NEW x \in Main(k), x \in Objects, heap[x].start = heap'[o].start,
               NEW y, Begun(y, k), heap'[y].start = heap'[o].start
        PROVE  FALSE
    BY <2>3, BegunMade DEF Spare
  <2>4. QED
    BY <1>1, <1>2, <2>1, <2>2, <2>3
<1>3. CASE Begun(o, k)
  <2> DEFINE s == heap'[o].start
  <2>1. s \in Starts /\ Spare(s) /\ heap'[o].failing = {} /\ heap'[o].checked = None
    BY <1>3, BegunMade
  <2> HIDE DEF s
  <2>2. verdicts[s].since = None /\ verdicts[s].last = {}
    BY <2>1 DEF Spare, FreshInv
  <2>3. verdicts'[s].since = None /\ verdicts'[s].last = {}
    <3>1. CASE \E j \in Keys, failing \in SUBSET Arms : Evaluate(j, failing)
      <4>1. PICK j \in Keys, failing \in SUBSET Arms : Evaluate(j, failing)
        BY <3>1
      <4>2. j \in DOMAIN pass.todo /\ pass.todo[j].exp \in Objects
        BY <4>1, EvaluateVerdicts, Listed
      <4>3. s # heap[pass.todo[j].exp].start
        BY <2>1, <4>2 DEF Spare
      <4>4. verdicts'[s] = verdicts[s]
        BY <2>1, <4>1, <4>3, EvaluateVerdicts
      <4>5. QED
        BY <2>2, <4>4
    <3>2. CASE \A j \in Keys, failing \in SUBSET Arms : ~Evaluate(j, failing)
      BY <2>1, <2>2, <3>2, VerdictSteps
    <3>3. QED
      BY <3>1, <3>2
  <2>4. QED
    BY <1>2, <2>1, <2>3 DEF s
<1>4. CASE o \in Main(k)
  <2> DEFINE s == heap'[o].start
  <2>1. /\ o \in Holds(k) /\ o \in Holds(k)' /\ o \in Objects /\ heap[o].start = s
        /\ heap[o] \in ExperimentType /\ s \in Starts /\ o \in Reachable'
    <3>1. o \in Holds(k) /\ o \in Holds(k)' /\ o \in Objects /\ heap[o].start = s
      BY <1>1, <1>4
    <3>2. heap[o] \in ExperimentType /\ o \in Reachable'
      BY <3>1, HoldsReachableNext DEF TypeInv
    <3>3. QED
      BY <3>1, <3>2 DEF ExperimentType
  <2>2. heap[o].failing = verdicts[s].last /\ heap[o].checked = verdicts[s].since
        /\ \A p \in Main(k) : heap[p].start = s => p = o
    BY <1>0, <1>4, <2>1 DEF VerdictInv
  <2> HIDE DEF s
  <2>3. heap'[o].failing = verdicts'[s].last /\ heap'[o].checked = verdicts'[s].since
    <3>1. CASE \E j \in Keys, failing \in SUBSET Arms : Evaluate(j, failing)
      <4>1. PICK j \in Keys, failing \in SUBSET Arms : Evaluate(j, failing)
        BY <3>1
      <4> DEFINE q == pass.todo[j].exp
                 x == heap[q].start
      <4>2. /\ j \in DOMAIN pass.todo /\ q \in Objects /\ x \in Starts /\ Listing(j) = {q}
            /\ \A z \in Starts \ {x} : verdicts'[z] = verdicts[z]
            /\ verdicts'[x].last = failing /\ verdicts'[x].since = 0
        BY <4>1, EvaluateVerdicts, Listed
      <4>3. /\ o # q => heap'[o] = heap[o]
            /\ o = q => heap'[o].failing = failing /\ heap'[o].checked = 0
        BY <2>1, <4>1, EvaluateBegins
      <4>4. q \in Main(j) /\ q \in Holds(j)
        BY <4>2 DEF Main, Holds
      <4> HIDE DEF q
      <4>5. CASE s = x
        <5>1. x # None
          BY <4>2, Numbers
        <5>2. j = k
          BY <2>1, <4>4, <4>5, <5>1 DEF Apart
        <5>3. q = o
          BY <2>2, <4>4, <4>5, <5>2
        <5>4. QED
          BY <4>2, <4>3, <4>5, <5>3
      <4>6. CASE s # x
        <5>1. o # q
          BY <2>1, <4>6
        <5>2. verdicts'[s] = verdicts[s]
          BY <2>1, <4>2, <4>6
        <5>3. QED
          BY <2>2, <4>3, <5>1, <5>2
      <4>7. QED
        BY <4>5, <4>6
    <3>2. CASE StartPass
      <4>1. PICK t \in Nat :
                /\ \A x \in Objects : heap'[x] = Aged(heap[x], t)
                /\ verdicts' = [x \in Starts |->
                      [verdicts[x] EXCEPT !.since = IF @ = None THEN None ELSE Later(@, t, MinGap)]]
        BY <3>2, StartPassHeap
      <4>2. /\ heap'[o].failing = heap[o].failing
            /\ heap'[o].checked =
                   IF heap[o].checked = None THEN None ELSE Later(heap[o].checked, t, MinGap)
        BY <2>1, <4>1, AgedType
      <4> DEFINE since == IF verdicts[s].since = None THEN None ELSE Later(verdicts[s].since, t, MinGap)
      <4>3. verdicts'[s] = [verdicts[s] EXCEPT !.since = since] /\ verdicts[s] \in VerdictType
        BY <2>1, <4>1 DEF TypeInv
      <4> HIDE DEF since
      <4>4. verdicts'[s].since = since /\ verdicts'[s].last = verdicts[s].last
        BY <4>3 DEF VerdictType
      <4>5. QED
        BY <2>2, <4>2, <4>4 DEF since
    <3>3. CASE ~StartPass /\ \A j \in Keys, failing \in SUBSET Arms : ~Evaluate(j, failing)
      <4>1. heap'[o].failing = heap[o].failing /\ heap'[o].checked = heap[o].checked
        BY <2>1, <3>3, HeldSteps
      <4>2. verdicts'[s].last = verdicts[s].last /\ verdicts'[s].since = verdicts[s].since
        BY <2>1, <3>3, VerdictsKept
      <4>3. QED
        BY <2>2, <4>1, <4>2
    <3>4. QED
      BY <3>1, <3>2, <3>3
  <2>4. QED
    BY <1>2, <2>3 DEF s
<1>5. QED
  BY <1>1, <1>3, <1>4

\* What a restart loads is what the verdicts say, or is excused.
LEMMA VerdictRestart == ASSUME Inv, VerdictInv, Restart PROVE VerdictInv'
<1> USE DEF Inv
<1> SUFFICES ASSUME NEW k \in Keys, NEW o \in Main(k)', heap'[o].start # None,
                    heap'[o].start \notin excused'
             PROVE  /\ \A p \in Main(k)' : heap'[p].start = heap'[o].start => p = o
                    /\ heap'[o].failing = verdicts'[heap'[o].start].last
                    /\ heap'[o].checked = verdicts'[heap'[o].start].since
  BY DEF VerdictInv
<1>1. \A p \in Main(k)' : /\ p = Home[k] /\ disk[k] # None /\ disk[k].exp # None
                          /\ heap'[p] = disk[k].exp
  BY MainHeldNext, HoldsRestarted
<1>2. UNCHANGED verdicts
  BY DEF Restart
<1>3. disk = Image(items, heap) /\ heap'[o].start \notin excused
  <2>1. heap'[o].start \in StartsOf(disk)
    BY <1>1 DEF StartsOf
  <2>2. QED
    BY <2>1 DEF Restart
<1>4. items[k] # None /\ items[k].exp # None /\ heap'[o] = heap[items[k].exp]
  BY <1>1, <1>3, ImageType DEF TypeInv
<1>5. items[k].exp \in Main(k)
  BY <1>4 DEF Main, ExpOf
<1>6. QED
  BY <1>1, <1>2, <1>3, <1>4, <1>5 DEF VerdictInv


-----------------------------------------------------------------------------
\* A plan that is about to start is known to nobody else.

\* A caller goes on with its record, or takes a new one.
LEMMA RecSteps ==
    ASSUME Inv, Runs, NEW c \in Callers, call'[c].op # "none"
    PROVE  \/ /\ call'[c].op = call[c].op /\ call'[c].rec = call[c].rec /\ call'[c].key = call[c].key
              /\ ~Write(c)
              /\ call'[c].late = call[c].late \/ (StartPass /\ call'[c].late /\ ~call[c].late)
           \/ \E op \in Requests, k \in Keys, rec \in RecordType :
                  /\ Begins(c, op, k, rec)
                  /\ call'[c] = [at |-> "check", op |-> op, key |-> k, rec |-> rec, prev |-> None,
                                 late |-> FALSE]
<1> USE DEF Inv
<1>1. ASSUME NEW d \in Callers, NEW ok \in BOOLEAN, call[d].at # "idle", Returns(d, ok)
      PROVE  d # c /\ call'[c] = call[c]
  <2>1. call'[d] = Idle /\ \A e \in Callers \ {d} : call'[e] = call[e]
    BY <1>1, ReturnsType
  <2>2. QED
    BY <2>1 DEF Idle
<1>2. ~Write(c)
  BY <1>1 DEF Write
<1>3. CASE call'[c] = call[c]
  BY <1>2, <1>3
<1>4. CASE BeginsOne
  <2>1. PICK d \in Callers, op \in Requests, j \in Keys, rec \in RecordType : Begins(d, op, j, rec)
    BY <1>4 DEF BeginsOne
  <2>2. CASE c # d
    BY <1>3, <2>1, <2>2, BeginsType
  <2>3. CASE c = d
    BY <2>1, <2>3, BeginsType
  <2>4. QED
    BY <2>2, <2>3
<1>5. CASE \E d \in Callers : Advances(d)
  <2>1. PICK d \in Callers : Advances(d)
    BY <1>5
  <2>2. CASE c # d
    BY <1>3, <2>1, <2>2, AdvancesType
  <2>3. CASE c = d
    BY <1>2, <2>1, <2>3, AdvancesType
  <2>4. QED
    BY <2>2, <2>3
<1>6. CASE \E d \in Callers, ok \in BOOLEAN : call[d].at # "idle" /\ Returns(d, ok)
  BY <1>1, <1>3, <1>6
<1>7. CASE StartPass
  <2>1. /\ call'[c].op = call[c].op /\ call'[c].rec = call[c].rec /\ call'[c].key = call[c].key
        /\ call'[c].late = (call[c] # Idle)
    BY <1>7, StartPassCalls
  <2>2. call[c] # Idle
    BY <2>1 DEF Idle
  <2>3. ~call[c].late
    BY <1>7 DEF StartPass
  <2>4. QED
    BY <1>2, <1>7, <2>1, <2>2, <2>3
<1>8. CASE UNCHANGED call
  BY <1>3, <1>8
<1>9. QED
  BY CallSteps, <1>4, <1>5, <1>6, <1>7, <1>8

\* A pull goes on with its target, or begins with a breach.
LEMMA TargetSteps ==
    ASSUME Inv, Runs, pass'.stage \in Pulling
    PROVE  \/ /\ pass.stage \in Pulling /\ pass'.target = pass.target
              /\ pass'.stage = "receipt" => pass.stage = "receipt" \/ Record
           \/ \E b \in pass.breaches :
                  /\ Decide(b) /\ Pulls(b) /\ pass'.stage = "pull" /\ b.key \in Keys
                  /\ pass'.target = [key |-> b.key, arm |-> b.arm, start |-> StartOn(b.key)]
                  /\ Experiment(b.key) # None
<1> USE DEF Inv
<1>1. CASE UNCHANGED pass
  BY <1>1
<1>2. CASE pass'.stage \in {"idle", "run"}
  BY <1>2 DEF Pulling
<1>3. CASE \/ \E k \in Keys, failing \in SUBSET Arms : Evaluate(k, failing)
           \/ \E k \in Keys : SkipUnread(k)
           \/ StartPass
  BY <1>2, <1>3, EvaluatePass, SkipPass, StartPassPass
<1>4. CASE \E c \in Callers, ok \in BOOLEAN : call[c].at # "idle" /\ Returns(c, ok)
  <2>1. PICK c \in Callers, ok \in BOOLEAN : call[c].at # "idle" /\ Returns(c, ok)
    BY <1>4
  <2>2. CASE c # "pass"
    BY <1>1, <2>1, <2>2, ReturnsType
  <2>3. CASE c = "pass"
    <3>1. <<call["pass"].op, pass.stage>>
              \in {<<"status", "run">>, <<"disable", "pull">>, <<"reason", "receipt">>}
      BY <2>1, <2>3 DEF PassInv
    <3>2. /\ pass'.target = pass.target
          /\ pass'.stage = CASE pass.stage = "run" -> "run"
                             [] pass.stage = "pull" -> IF ok THEN "record" ELSE "run"
                             [] pass.stage = "receipt" -> "receipt"
      BY <2>1, <2>3, ReturnsType
    <3>3. QED
      BY <3>1, <3>2 DEF Pulling
  <2>4. QED
    BY <2>2, <2>3
<1>5. CASE \E c \in Callers : Check(c) \/ Write(c) \/ WriteFails(c)
  <2>1. CASE \E c \in Callers : Check(c)
    BY <1>1, <1>4, <2>1 DEF Check
  <2>2. CASE \E c \in Callers : Write(c)
    BY <1>1, <1>4, <2>2 DEF Write
  <2>3. CASE \E c \in Callers : WriteFails(c)
    BY <1>1, <1>4, <2>3 DEF WriteFails
  <2>4. QED
    BY <1>5, <2>1, <2>2, <2>3
<1>6. CASE \/ \E c \in Operators, j \in Keys, on \in BOOLEAN : Create(c, j, on) \/ SetEnabled(c, j, on)
           \/ \E c \in Operators, j \in Keys, p \in Plans : CreateExperiment(c, j, p)
           \/ \E c \in Operators, j \in Keys, p \in Plans, start \in BOOLEAN :
                  ExperimentPlan(c, j, p, start)
           \/ \E c \in Operators, j \in Keys : Delete(c, j)
           \/ UNCHANGED vars
  BY <1>1, <1>6 DEF Create, SetEnabled, CreateExperiment, ExperimentPlan, Delete, vars
<1>7. CASE EndPass
  BY <1>2, <1>7 DEF EndPass, PassIdle
<1>8. CASE Pull
  <2>1. pass' = [pass EXCEPT !.stage = "run"] => pass'.stage = "run"
    BY DEF TypeInv
  <2>2. QED
    BY <1>1, <1>2, <1>8, <2>1, PullBegins
<1>9. CASE Record
  BY <1>9, RecordPass DEF Pulling
<1>10. CASE Receipt
  BY <1>2, <1>10, ReceiptPass
<1>11. ASSUME NEW b \in pass.breaches, Decide(b)
       PROVE  \/ pass'.stage \in {"idle", "run"}
              \/ /\ Decide(b) /\ Pulls(b) /\ pass'.stage = "pull" /\ b.key \in Keys
                 /\ pass'.target = [key |-> b.key, arm |-> b.arm, start |-> StartOn(b.key)]
                 /\ Experiment(b.key) # None
  <2>1. CASE /\ Pulls(b) /\ pass'.stage = "pull"
             /\ pass'.target = [key |-> b.key, arm |-> b.arm, start |-> Experiment(b.key).start]
    BY <1>11, <2>1, DecidePass DEF Pulls, StartOn
  <2>2. QED
    BY <1>11, <2>1, DecidePass
<1>12. QED
  BY Kinds, <1>2, <1>3, <1>5, <1>6, <1>7, <1>8, <1>9, <1>10, <1>11

\* A start that no flag has, that no pass has listed and that has no receipt.
Unseen(s) ==
    /\ \A k \in Keys : StartOn(k) # s
    /\ \A k \in DOMAIN pass.todo : heap[pass.todo[k].exp].start # s
    /\ s \notin excused => receipts[s] = 0 /\ (pass.stage \in Pulling => pass.target.start # s)

\* A spare start is one.
LEMMA SpareUnseen ==
    ASSUME Inv, FreshInv, PulledInv, NEW s \in Starts, Spare(s)
    PROVE  Unseen(s)
<1> USE DEF Inv
<1>1. \A k \in Keys : StartOn(k) # s
  BY ExperimentOf, Numbers DEF Spare, StartOn
<1>2. \A k \in DOMAIN pass.todo : heap[pass.todo[k].exp].start # s
  BY Listed DEF Spare
<1>3. verdicts[s].twice = {}
  BY DEF Spare, FreshInv
<1>4. pass.stage \in Pulling /\ s \notin excused => pass.target.start # s
  BY <1>3 DEF PulledInv
<1>5. QED
  BY <1>1, <1>2, <1>4 DEF Unseen, Spare

\* It stays one until somebody saves it.
LEMMA UnseenStep ==
    ASSUME Inv, Runs, NEW s \in Starts, Unseen(s),
           \A c \in Callers : Write(c) => \A o \in ExpOf(call[c].rec) : heap[o].start # s
    PROVE  Unseen(s)'
<1> USE DEF Inv
<1>0. items' \in [Keys -> RecordType \cup {None}] /\ s # None
  BY ItemsSteps, Numbers
<1>1. ASSUME NEW k \in Keys PROVE StartOn(k)' # s
  <2>1. CASE items'[k] = items[k]
    <3>1. SamePlan(Experiment(k), Experiment(k)')
      BY <2>1, FlagKept
    <3>2. StartOn(k)' = StartOn(k)
      BY <3>1 DEF SamePlan, StartOn
    <3>3. QED
      BY <3>2 DEF Unseen
  <2>2. ASSUME NEW c \in Callers, Write(c), call[c].key = k, call[c].rec \in RecordType,
               items'[k] = call[c].rec
        PROVE  StartOn(k)' # s
    <3>1. CASE call[c].rec.exp = None
      BY <1>0, <2>2, <3>1 DEF StartOn, Experiment, Value
    <3>2. CASE call[c].rec.exp # None
      <4> DEFINE o == call[c].rec.exp
      <4>1. o \in ExpOf(call[c].rec) /\ o \in ExpOf(items'[k])
        BY <1>0, <2>2, <3>2, Numbers DEF ExpOf
      <4>2. o \in Holds(k) /\ o \in Holds(k)'
        BY <2>2, <4>1 DEF Holds, CallsOn
      <4>3. heap'[o].start = heap[o].start /\ heap[o].start # s
        BY <2>2, <4>1, <4>2, HeldKept
      <4>4. StartOn(k)' \in {heap'[o].start, None}
        BY <2>2, <3>2 DEF StartOn, Experiment, Value
      <4>5. QED
        BY <1>0, <4>3, <4>4
    <3>3. QED
      BY <3>1, <3>2
  <2>3. CASE items'[k] = None
    BY <1>0, <2>3 DEF StartOn, Experiment
  <2>4. QED
    BY <2>1, <2>2, <2>3, ItemsSteps
<1>2. ASSUME NEW k \in DOMAIN pass'.todo PROVE heap'[pass'.todo[k].exp].start # s
  <2>1. k \in Keys
    BY <1>2, TodoSteps, TodoTypes
  <2>2. ASSUME NEW o \in Holds(k), o = pass'.todo[k].exp, o # None, heap[o].start # s
        PROVE  heap'[o].start # s
    <3>1. o \in Listing(k)'
      BY <1>2, <2>1, <2>2, PassInvStep, Numbers DEF Listing, ExpOf, PassInv, PassType, TodoType
    <3>2. o \in Holds(k)'
      BY <3>1 DEF Holds
    <3>3. QED
      BY <2>1, <2>2, <3>2, HeldKept
  <2>3. CASE k \in DOMAIN pass.todo /\ pass'.todo[k] = pass.todo[k]
    <3>1. pass.todo[k].exp \in Holds(k) /\ pass.todo[k].exp # None
      BY <2>3, Listed, Numbers DEF Holds
    <3>2. QED
      BY <2>2, <2>3, <3>1 DEF Unseen
  <2>4. CASE pass'.todo[k] = items[k] /\ Running(items[k])
    <3>1. items[k].exp \in Holds(k) /\ items[k].exp # None
      BY <2>4 DEF Running, Holds, ExpOf
    <3>2. heap[items[k].exp].start = StartOn(k)
      BY <2>1, <2>4, ExperimentOf DEF Running, StartOn
    <3>3. QED
      BY <2>1, <2>2, <2>4, <3>1, <3>2 DEF Unseen
  <2>5. QED
    BY <1>2, <2>3, <2>4, TodoSteps
<1>3. ASSUME s \notin excused'
      PROVE  receipts'[s] = 0 /\ (pass'.stage \in Pulling => pass'.target.start # s)
  <2>1. receipts[s] = 0 /\ (pass.stage \in Pulling => pass.target.start # s)
    BY <1>3, CountSteps DEF Unseen
  <2>2. receipts'[s] = 0
    <3>1. CASE Receipt /\ receipts' = [receipts EXCEPT ![pass.target.start] = @ + 1]
      <4>1. pass.target.start # s
        BY <2>1, <3>1 DEF Receipt, Pulling
      <4>2. QED
        BY <2>1, <3>1, <4>1 DEF TypeInv
    <3>2. QED
      BY <2>1, <3>1, CountSteps
  <2>3. ASSUME pass'.stage \in Pulling PROVE pass'.target.start # s
    <3>1. ASSUME NEW b, b.key \in Keys,
                 pass'.target = [key |-> b.key, arm |-> b.arm, start |-> StartOn(b.key)]
          PROVE  pass'.target.start # s
      BY <3>1 DEF Unseen
    <3>2. QED
      BY <2>1, <2>3, <3>1, TargetSteps
  <2>4. QED
    BY <2>2, <2>3
<1>4. QED
  BY <1>1, <1>2, <1>3 DEF Unseen

\* Every step but a restart keeps a plan that is about to start to its caller.
LEMMA PendingStep ==
    ASSUME Inv, Apart, FreshInv, PulledInv, PendingInv, Runs
    PROVE  PendingInv'
<1> USE DEF Inv
<1> SUFFICES ASSUME NEW c \in Callers, call'[c].op = "start" PROVE Pending(c)'
  BY DEF PendingInv
<1>0. PICK o \in Objects, s \in Starts :
          /\ call'[c].rec # None /\ call'[c].rec \in RecordType
          /\ o = call'[c].rec.exp /\ s = heap'[o].start /\ o # None /\ s # None
  <2> DEFINE o == call'[c].rec.exp
             s == heap'[o].start
  <2>1. call' \in [Callers -> CallType] /\ heap' \in [Objects -> ExperimentType] /\ CallInv'
    BY CallInvStep, HeapSteps
  <2>2. call'[c].at # "idle"
    BY <2>1 DEF CallInv, Idle
  <2>3. call'[c].rec # None /\ call'[c].rec \in RecordType
    BY <2>1, <2>2 DEF CallInv, CallType
  <2>4. o # None /\ s # None
    BY <2>1 DEF CallInv
  <2>5. o \in Objects
    BY <2>3, <2>4 DEF RecordType
  <2>6. heap'[o] \in ExperimentType
    BY <2>1, <2>5
  <2>7. s \in Starts
    BY <2>4, <2>6 DEF ExperimentType
  <2>8. QED
    BY <2>3, <2>4, <2>5, <2>7
<1>1. ASSUME NEW k \in Keys, NEW p \in Objects, p \in Holds(k), p \in Holds(k)', heap[p].start # s
      PROVE  heap'[p].start # s
  BY <1>1, HeldKept
<1>2. ASSUME NEW d \in Callers, NEW p \in ExpOf(call[d].rec)
      PROVE  call[d].key \in Keys /\ p \in Holds(call[d].key) /\ p \in Objects
  <2>1. call[d].key \in Keys
    BY <1>2, Busy DEF CallInv, Idle, ExpOf
  <2>2. p \in Holds(call[d].key)
    BY <1>2, <2>1 DEF Holds, CallsOn
  <2>3. QED
    BY <2>1, <2>2, HoldsReachable
<1>3. ASSUME NEW d \in Callers, NEW p \in ExpOf(call'[d].rec)
      PROVE  /\ call'[d].op # "none" /\ p = call'[d].rec.exp
             /\ \E k \in Keys : k = call'[d].key /\ p \in Holds(k)'
  <2>1. CallInv' /\ call'[d].rec # None
    BY <1>3, CallInvStep DEF ExpOf
  <2>2. call'[d].at # "idle"
    BY <2>1 DEF CallInv, Idle
  <2>3. PICK k \in Keys : k = call'[d].key
    BY <2>1, <2>2 DEF CallInv
  <2>4. call'[d].op # "none"
    BY <2>1, <2>2 DEF CallInv
  <2>5. p \in Holds(k)'
    BY <1>3, <2>3 DEF Holds, CallsOn
  <2>6. QED
    BY <1>3, <2>3, <2>4, <2>5 DEF ExpOf
<1>4. ASSUME call[c].op = "start", call'[c].rec = call[c].rec, call'[c].key = call[c].key, ~Write(c),
             call'[c].late = call[c].late \/ (StartPass /\ call'[c].late /\ ~call[c].late)
      PROVE  Pending(c)'
  <2>1. o = call[c].rec.exp /\ o \in ExpOf(call[c].rec) /\ o \in ExpOf(call'[c].rec)
    BY <1>0, <1>4 DEF ExpOf
  <2>2. PICK j \in Keys : o \in Holds(j) /\ o \in Holds(j)'
    <3>1. call[c].key \in Keys /\ o \in Holds(call[c].key)
      BY <1>2, <2>1
    <3>2. \E k \in Keys : k = call'[c].key /\ o \in Holds(k)'
      BY <1>3, <2>1
    <3>3. QED
      BY <1>4, <3>1, <3>2
  <2>3. heap[o].start = s
    BY <1>0, <2>2, HeldKept
  <2>4. /\ heap[o].age <= IF call[c].late THEN Young ELSE 0
        /\ Unseen(s)
        /\ \A d \in Callers \ {c} : \A p \in ExpOf(call[d].rec) : heap[p].start # s
    BY <1>4, <2>1, <2>3 DEF PendingInv, Pending, Unseen
  <2>5. Unseen(s)'
    BY <1>0, <1>4, <2>4, UnseenStep
  <2>6. heap'[o].age <= IF call'[c].late THEN Young ELSE 0
    <3>1. CASE ~StartPass
      <4>1. heap'[o].age = heap[o].age
        BY <2>2, <3>1, HeldSteps
      <4>2. QED
        BY <1>4, <2>4, <3>1, <4>1
    <3>2. CASE StartPass
      <4>1. ~call[c].late /\ call'[c].late
        <5>1. ~call[c].late
          BY <3>2 DEF StartPass
        <5>2. call[c] # Idle
          BY <1>4 DEF Idle
        <5>3. QED
          BY <3>2, <5>1, <5>2, StartPassCalls
      <4>2. PICK t \in Nat : t <= Period + MaxDelay /\ heap'[o] = Aged(heap[o], t)
        BY <1>0, <3>2, StartPassHeap
      <4>3. heap[o] \in ExperimentType
        BY <1>0 DEF TypeInv
      <4>4. heap[o].age \in 0 .. Warmup /\ heap[o].age <= 0
        BY <2>4, <4>1, <4>3 DEF ExperimentType
      <4>5. heap'[o].age = Later(heap[o].age, t, Warmup)
        BY <1>0, <2>3, <4>2, <4>3, AgedType
      <4>6. Later(heap[o].age, t, Warmup) <= t
        BY <4>4, Numbers DEF Later
      <4>7. heap'[o].age <= Young
        BY <4>2, <4>4, <4>5, <4>6, Numbers DEF Young, Later
      <4>8. QED
        BY <4>1, <4>7
    <3>3. QED
      BY <3>1, <3>2
  <2>7. ASSUME NEW d \in Callers \ {c}, NEW p \in ExpOf(call'[d].rec)
        PROVE  heap'[p].start # s
    <3>1. /\ call'[d].op # "none" /\ p = call'[d].rec.exp
          /\ \E k \in Keys : k = call'[d].key /\ p \in Holds(k)'
      BY <1>3, <2>7
    <3>2. CASE call'[d].rec = call[d].rec /\ call'[d].key = call[d].key
      <4>1. p \in Holds(call[d].key) /\ p \in Objects /\ p \in ExpOf(call[d].rec)
        BY <1>2, <2>7, <3>2 DEF ExpOf
      <4>2. heap[p].start # s
        BY <2>4, <2>7, <4>1
      <4>3. QED
        BY <1>1, <3>1, <3>2, <4>1, <4>2
    <3>3. ASSUME NEW op \in Requests, NEW k \in Keys, NEW rec \in RecordType, Begins(d, op, k, rec),
                 call'[d] = [at |-> "check", op |-> op, key |-> k, rec |-> rec, prev |-> None,
                             late |-> FALSE]
          PROVE  heap'[p].start # s
      <4>1. p \in ExpOf(rec) /\ p = rec.exp /\ p \in Holds(k)' /\ p \in Objects
        <5>1. call'[d].rec = rec /\ call'[d].key = k
          BY <3>3
        <5>2. QED
          BY <2>7, <3>1, <5>1, ExpOfType
      <4>2. CASE p \in ExpOf(items[k])
        <5>1. StartOn(k) = heap[p].start
          BY <4>2, ExperimentOf DEF StartOn, ExpOf
        <5>2. p \in Holds(k) /\ heap[p].start # s
          BY <2>4, <3>3, <4>2, <5>1 DEF Unseen, Holds
        <5>3. QED
          BY <1>1, <3>3, <4>1, <5>2
      <4>3. CASE p \in Listing(k)
        <5>1. k \in DOMAIN pass.todo /\ p = pass.todo[k].exp
          BY <4>3 DEF Listing, ExpOf
        <5>2. p \in Holds(k) /\ heap[p].start # s
          BY <2>4, <4>3, <5>1 DEF Unseen, Holds
        <5>3. QED
          BY <1>1, <3>3, <4>1, <5>2
      <4>4. CASE Makes(d, op, k, rec) /\ op = "start"
        <5>1. Spare(heap'[p].start)
          BY <4>1, <4>4 DEF Makes, Unused
        <5>2. QED
          BY <1>0, <2>3, <5>1 DEF Spare
      <4>5. CASE Makes(d, op, k, rec) /\ op = "plan"
        <5>1. heap'[p].start = StartOn(k)
          BY <4>1, <4>5 DEF Makes
        <5>2. QED
          BY <2>4, <5>1 DEF Unseen
      <4>6. QED
        BY <3>3, <4>1, <4>2, <4>3, <4>4, <4>5 DEF Begins
    <3>4. QED
      BY <2>7, <3>1, <3>2, <3>3, RecSteps
  <2>8. QED
    BY <1>0, <2>5, <2>6, <2>7 DEF Pending, Unseen
<1>5. ASSUME NEW op \in Requests, NEW k \in Keys, NEW rec \in RecordType, Begins(c, op, k, rec),
             call'[c] = [at |-> "check", op |-> op, key |-> k, rec |-> rec, prev |-> None,
                         late |-> FALSE]
      PROVE  Pending(c)'
  <2>1. op = "start" /\ o = rec.exp /\ ~call'[c].late
    BY <1>0, <1>5
  <2>2. c \in Operators /\ Makes(c, "start", k, rec)
    BY <1>5, <2>1 DEF Begins
  <2>3. heap'[o].age = 0 /\ Spare(s)
    BY <1>0, <2>1, <2>2 DEF Makes, Unused
  <2>4. Unseen(s)
    BY <1>0, <2>3, SpareUnseen
  <2>5. \A d \in Callers : \A p \in ExpOf(call[d].rec) : p \in Objects /\ heap[p].start # s
    <3>1. \A d \in Callers : \A p \in ExpOf(call[d].rec) : p \in Objects
      BY <1>2 DEF ExpOf
    <3>2. QED
      BY <2>3, <3>1 DEF Spare
  <2>6. Unseen(s)'
    BY <1>0, <2>4, <2>5, UnseenStep
  <2>7. ASSUME NEW d \in Callers \ {c}, NEW p \in ExpOf(call'[d].rec)
        PROVE  heap'[p].start # s
    <3>1. call'[d] = call[d]
      BY <1>5, BeginsType
    <3>2. \E j \in Keys : p \in Holds(j) /\ p \in Objects /\ p \in Holds(j)'
      <4>1. call[d].key \in Keys /\ p \in Holds(call[d].key) /\ p \in Objects
        BY <1>2, <2>7, <3>1
      <4>2. \E j \in Keys : j = call'[d].key /\ p \in Holds(j)'
        BY <1>3, <2>7
      <4>3. QED
        BY <3>1, <4>1, <4>2
    <3>3. QED
      BY <1>1, <2>5, <2>7, <3>1, <3>2
  <2>8. QED
    BY <1>0, <2>1, <2>3, <2>6, <2>7 DEF Pending, Unseen
<1>6. QED
  BY <1>4, <1>5, RecSteps

\* After a restart nobody is starting a plan.
LEMMA PendingRestart == ASSUME Restart PROVE PendingInv'
BY DEF Restart, PendingInv, Idle


-----------------------------------------------------------------------------
\* What a pass has found is still what the flag carries.

\* The breaches of a pass are those it had, or those of the flag it evaluates.
LEMMA BreachSteps ==
    ASSUME Inv, Runs
    PROVE  \/ pass'.breaches \subseteq pass.breaches
           \/ \E k \in Keys, failing \in SUBSET Arms : Evaluate(k, failing)
<1> USE DEF Inv
<1>1. CASE UNCHANGED pass
  BY <1>1
<1>2. CASE pass' = PassIdle
  BY <1>2 DEF PassIdle
<1>3. CASE StartPass \/ (\E k \in Keys : SkipUnread(k)) \/ Record \/ Receipt
  BY <1>3, StartPassPass, SkipPass, RecordPass, ReceiptPass
<1>4. CASE \E c \in Callers, ok \in BOOLEAN : call[c].at # "idle" /\ Returns(c, ok)
  BY <1>4, ReturnsType
<1>5. CASE \E c \in Callers : Check(c) \/ Write(c) \/ WriteFails(c)
  <2>1. CASE \E c \in Callers : Check(c)
    BY <1>1, <1>4, <2>1 DEF Check
  <2>2. CASE \E c \in Callers : Write(c)
    BY <1>1, <1>4, <2>2 DEF Write
  <2>3. CASE \E c \in Callers : WriteFails(c)
    BY <1>1, <1>4, <2>3 DEF WriteFails
  <2>4. QED
    BY <1>5, <2>1, <2>2, <2>3
<1>6. CASE \/ \E c \in Operators, j \in Keys, on \in BOOLEAN : Create(c, j, on) \/ SetEnabled(c, j, on)
           \/ \E c \in Operators, j \in Keys, p \in Plans : CreateExperiment(c, j, p)
           \/ \E c \in Operators, j \in Keys, p \in Plans, start \in BOOLEAN :
                  ExperimentPlan(c, j, p, start)
           \/ \E c \in Operators, j \in Keys : Delete(c, j)
           \/ UNCHANGED vars
  BY <1>1, <1>6 DEF Create, SetEnabled, CreateExperiment, ExperimentPlan, Delete, vars
<1>7. CASE EndPass
  BY <1>2, <1>7 DEF EndPass
<1>8. CASE Pull
  <2>1. pass' = [pass EXCEPT !.stage = "run"] => pass'.breaches = pass.breaches
    BY DEF TypeInv
  <2>2. QED
    BY <1>1, <1>8, <2>1, PullBegins
<1>9. CASE \E b \in pass.breaches : Decide(b)
  BY <1>9, DecidePass
<1>10. QED
  BY Kinds, <1>3, <1>5, <1>6, <1>7, <1>8, <1>9

\* A flag's experiment counts for it.
LEMMA FlagMain ==
    ASSUME Inv, NEW k \in Keys, Experiment(k) # None
    PROVE  /\ items[k].exp \in Main(k) /\ items[k].exp \in Holds(k) /\ items[k].exp \in Objects
           /\ items[k].exp # None /\ items[k] # None
           /\ Experiment(k) = heap[items[k].exp]
           /\ StartOn(k) = heap[items[k].exp].start
           /\ Experiment(k) \in ExperimentType
<1>1. /\ items[k] # None /\ items[k].exp \in Objects /\ items[k].exp # None
      /\ items[k].exp \in ExpOf(items[k])
      /\ Experiment(k) = heap[items[k].exp] /\ Experiment(k) \in ExperimentType
  BY ExperimentOf DEF Inv
<1>2. StartOn(k) = heap[items[k].exp].start
  BY <1>1 DEF StartOn
<1>3. QED
  BY <1>1, <1>2 DEF Main, Holds

\* A flag that is not excused carries on with its experiment, or begins one.
LEMMA FlagSteps ==
    ASSUME Inv, Apart, VerdictInv, PendingInv, Runs, NEW k \in Keys, NEW s \in Starts,
           StartOn(k)' = s, s \notin excused'
    PROVE  \/ /\ Experiment(k) # None /\ StartOn(k) = s
              /\ ~StartPass => Experiment(k)'.age = Experiment(k).age
              /\ Experiment(k).reverted => Experiment(k)'.reverted
           \/ \E c \in Callers :
                  /\ call[c].op = "start" /\ Pending(c) /\ heap[call[c].rec.exp].start = s
                  /\ ~StartPass => Experiment(k)'.age <= Young
<1> USE DEF Inv
<1>0. /\ items' \in [Keys -> RecordType \cup {None}] /\ s # None
      /\ excused \subseteq excused' /\ s \notin excused
  BY ItemsSteps, CountSteps, Numbers
<1>1. PICK o : /\ o = items'[k].exp /\ items'[k] # None /\ o # None /\ o \in ExpOf(items'[k])
               /\ Experiment(k)' = heap'[o] /\ heap'[o].start = s
  BY <1>0 DEF StartOn, Experiment, Value, ExpOf
<1>2. o \in Holds(k)'
  BY <1>1 DEF Holds
<1>3. CASE items'[k] = items[k]
  <2>1. Experiment(k) # None
    BY <1>1, <1>3, ExperimentOf
  <2>2. o \in Holds(k) /\ Experiment(k) = heap[o] /\ StartOn(k) = heap[o].start
    BY <1>1, <1>3, <2>1, FlagMain
  <2>3. QED
    BY <1>1, <1>2, <2>1, <2>2, HeldSteps
<1>4. ASSUME NEW c \in Callers, Write(c), call[c].key = k, call[c].rec \in RecordType,
             items'[k] = call[c].rec
      PROVE  \/ /\ Experiment(k) # None /\ StartOn(k) = s
                /\ ~StartPass => Experiment(k)'.age = Experiment(k).age
                /\ Experiment(k).reverted => Experiment(k)'.reverted
             \/ /\ call[c].op = "start" /\ Pending(c) /\ heap[call[c].rec.exp].start = s
                /\ ~StartPass => Experiment(k)'.age <= Young
  <2>1. o \in Holds(k) /\ o = call[c].rec.exp /\ o \in ExpOf(call[c].rec)
    BY <1>1, <1>4 DEF Holds, CallsOn
  <2>2. /\ heap[o].start = s
        /\ ~StartPass => heap'[o].age = heap[o].age
        /\ heap[o].reverted => heap'[o].reverted
    BY <1>1, <1>2, <2>1, HeldSteps
  <2>3. s \notin Rewrites(c)
    BY <1>4 DEF Write
  <2>4. CASE call[c].op = "start"
    <3>1. Pending(c)
      BY <2>4 DEF PendingInv
    <3>2. heap[o].age <= IF call[c].late THEN Young ELSE 0
      BY <2>1, <3>1 DEF Pending
    <3>3. heap[o].age <= Young
      <4>1. heap[o] \in ExperimentType
        BY <1>2, <2>1, HeldSteps
      <4>2. heap[o].age \in Nat
        BY <4>1, Numbers DEF ExperimentType
      <4>3. QED
        BY <3>2, <4>2, Numbers DEF Young
    <3>4. QED
      BY <1>1, <2>1, <2>2, <2>4, <3>1, <3>3
  <2>5. CASE call[c].op # "start"
    <3>1. call[c].op # "plan" /\ Experiment(k) # None /\ Experiment(k).start = s
      BY <1>1, <1>4, <2>1, <2>2, <2>3, <2>5 DEF Rewrites
    <3>2. o \in Main(k)
      BY <1>4, <2>1, <3>1 DEF Main, CallsOn
    <3>3. items[k].exp \in Main(k) /\ Experiment(k) = heap[items[k].exp]
      BY <3>1, FlagMain
    <3>4. items[k].exp = o
      BY <1>0, <2>2, <3>1, <3>2, <3>3 DEF VerdictInv
    <3>5. QED
      BY <1>1, <2>2, <3>1, <3>3, <3>4 DEF StartOn
  <2>6. QED
    BY <2>4, <2>5
<1>5. QED
  BY <1>1, <1>3, <1>4, ItemsSteps

\* A flag that need not be asked about stays so while the clock stands; another keeps its
\* experiment, or need no longer be asked about.
LEMMA ExemptKept ==
    ASSUME Inv, Apart, VerdictInv, PendingInv, Runs, ~StartPass, NEW k \in Keys, ~Exempt(k)'
    PROVE  /\ ~Exempt(k) /\ StartOn(k)' = StartOn(k) /\ StartOn(k) \in Starts
           /\ Experiment(k) # None /\ StartOn(k) \notin excused
<1>1. PICK s : s = StartOn(k)'
  OBVIOUS
<1>2. s # None /\ s \notin excused' /\ ~(Experiment(k)'.age <= Young)
  BY <1>1 DEF Exempt
<1>3. s \in Starts
  <2>1. items' \in [Keys -> RecordType \cup {None}] /\ heap' \in [Objects -> ExperimentType]
    BY ItemsSteps, HeapSteps
  <2>2. PICK o : items'[k] # None /\ items'[k].exp = o /\ o # None /\ Experiment(k)' = heap'[o] /\ s = heap'[o].start
    BY <1>1, <1>2 DEF StartOn, Experiment, Value
  <2>3. o \in Objects
    BY <2>1, <2>2 DEF RecordType
  <2>4. heap'[o] \in ExperimentType
    BY <2>1, <2>3
  <2>5. QED
    BY <1>2, <2>2, <2>4 DEF ExperimentType
<1>4. Experiment(k) # None /\ StartOn(k) = s /\ Experiment(k)'.age = Experiment(k).age
  BY <1>1, <1>2, <1>3, FlagSteps
<1>5. s \notin excused
  BY <1>2, CountSteps
<1>6. QED
  BY <1>1, <1>2, <1>3, <1>4, <1>5 DEF Exempt

\* Every step but a restart keeps the breaches of a pass true.
LEMMA BreachStep ==
    ASSUME Inv, Apart, VerdictInv, PendingInv, BreachInv, Runs
    PROVE  BreachInv'
<1> USE DEF Inv
<1>1. CASE StartPass
  <2>1. ASSUME NEW k \in DOMAIN pass'.todo PROVE heap'[pass'.todo[k].exp].start = StartOn(k)'
    <3>1. k \in Keys /\ pass'.todo[k] = items[k] /\ items'[k] = items[k] /\ Running(items[k])
      BY <1>1, <2>1, StartPassPass DEF StartPass
    <3>2. Experiment(k)' = heap'[items[k].exp] /\ Experiment(k)' # None
      <4>1. items[k].exp \in Objects /\ heap' \in [Objects -> ExperimentType]
        BY <3>1, HeapSteps DEF Running, RecordType, TypeInv
      <4>2. heap'[items[k].exp] # None
        BY <4>1, Numbers
      <4>3. QED
        BY <3>1, <4>2 DEF Running, Experiment, Value
    <3>3. QED
      BY <3>1, <3>2 DEF StartOn
  <2>2. pass'.breaches = {}
    BY <1>1, StartPassPass
  <2>3. QED
    BY <2>1, <2>2 DEF BreachInv
<1>2. CASE ~StartPass
  <2>1. ASSUME NEW k \in DOMAIN pass'.todo, ~Exempt(k)'
        PROVE  heap'[pass'.todo[k].exp].start = StartOn(k)'
    <3>1. k \in DOMAIN pass.todo /\ pass'.todo[k] = pass.todo[k] /\ k \in Keys
      BY <1>2, <2>1, TodoSteps, TodoTypes
    <3>2. ~Exempt(k) /\ StartOn(k)' = StartOn(k)
      BY <1>2, <2>1, <3>1, ExemptKept
    <3>3. PICK o : o = pass.todo[k].exp /\ o \in ExpOf(pass.todo[k]) /\ o \in Holds(k)
      BY <3>1, Listed DEF Holds, Listing
    <3>4. o \in Holds(k)'
      BY <2>1, <3>1, <3>3 DEF Holds, Listing
    <3>5. heap'[o].start = heap[o].start
      BY <3>1, <3>3, <3>4, HeldKept
    <3>6. heap[o].start = StartOn(k)
      BY <3>1, <3>2, <3>3 DEF BreachInv
    <3>7. QED
      BY <3>1, <3>2, <3>3, <3>5, <3>6
  <2>2. ASSUME NEW b \in pass'.breaches, b.failed, b.gap = MinGap, ~Exempt(b.key)'
        PROVE  b.arm \in verdicts'[StartOn(b.key)'].twice
    <3>0. b.key \in Keys
      BY <2>2, PassInvStep DEF PassType, BreachType
    <3>1. PICK k \in Keys, s \in Starts :
              /\ k = b.key /\ ~Exempt(k) /\ StartOn(k)' = s /\ StartOn(k) = s
              /\ Experiment(k) # None /\ s \notin excused
      BY <1>2, <2>2, <3>0, ExemptKept
    <3>2. items[k].exp \in Holds(k) /\ heap[items[k].exp].start = s /\ s # None
      BY <3>1, FlagMain, Numbers
    <3>3. ASSUME b \in pass.breaches PROVE b.arm \in verdicts'[s].twice
      <4>1. b.arm \in verdicts[s].twice
        BY <2>2, <3>1, <3>3 DEF BreachInv
      <4>2. CASE \E j \in Keys, failing \in SUBSET Arms : Evaluate(j, failing)
        <5>1. PICK j \in Keys, failing \in SUBSET Arms : Evaluate(j, failing)
          BY <4>2
        <5>2. j \in DOMAIN pass.todo /\ pass.todo[j].exp \in Holds(j)
          <6>1. j \in DOMAIN pass.todo
            BY <5>1, EvaluateVerdicts
          <6>2. pass.todo[j].exp \in Listing(j)
            BY <6>1, Listed
          <6>3. QED
            BY <6>1, <6>2 DEF Holds
        <5>3. j # k
          BY <3>1, <3>3, <5>2 DEF PassInv
        <5>4. heap[pass.todo[j].exp].start # s
          BY <3>2, <5>2, <5>3 DEF Apart
        <5>5. verdicts'[s] = verdicts[s]
          BY <5>1, <5>4, EvaluateVerdicts
        <5>6. QED
          BY <4>1, <5>5
      <4>3. CASE \A j \in Keys, failing \in SUBSET Arms : ~Evaluate(j, failing)
        <5>1. ~EndPass
          BY <3>3 DEF EndPass
        <5>2. QED
          BY <4>1, <4>3, <5>1, VerdictsKept
      <4>4. QED
        BY <4>2, <4>3
    <3>4. ASSUME b \notin pass.breaches PROVE b.arm \in verdicts'[s].twice
      <4>1. PICK j \in Keys, failing \in SUBSET Arms : Evaluate(j, failing)
        BY <2>2, <3>4, BreachSteps
      <4> DEFINE o == pass.todo[j].exp
                 x == heap[o].start
      <4>2. /\ b.key = j /\ b.arm \in failing /\ b.failed = (b.arm \in heap[o].failing)
            /\ b.gap = heap[o].checked
        BY <2>2, <3>4, <4>1, EvaluatePass
      <4>3. /\ j \in DOMAIN pass.todo
            /\ verdicts'[x].twice = IF verdicts[x].since = MinGap THEN verdicts[x].last \cap failing ELSE {}
        BY <4>1, EvaluateVerdicts
      <4>4. o \in Main(j)
        BY <4>3, Listed DEF Main
      <4>5. x = s
        BY <3>1, <4>2, <4>3 DEF BreachInv
      <4>6. heap[o].failing = verdicts[s].last /\ heap[o].checked = verdicts[s].since
        BY <3>1, <3>2, <4>4, <4>5 DEF VerdictInv
      <4>7. verdicts[s].since = MinGap /\ b.arm \in verdicts[s].last \cap failing
        BY <2>2, <4>2, <4>6
      <4> HIDE DEF x
      <4>8. QED
        BY <4>3, <4>5, <4>7
    <3>5. QED
      BY <3>1, <3>3, <3>4
  <2>3. QED
    BY <2>1, <2>2 DEF BreachInv
<1>3. QED
  BY <1>1, <1>2

\* After a restart there is no pass.
LEMMA BreachRestart == ASSUME Restart PROVE BreachInv' /\ PulledInv'
BY DEF Restart, BreachInv, PulledInv, PassIdle, Pulling


-----------------------------------------------------------------------------
\* A flag is pulled for two failures of its own experiment, and once.

\* The target of a pull is a flag, and the start its experiment had.
LEMMA TargetTypes ==
    ASSUME TypeInv, pass.target # None
    PROVE  pass.target.key \in Keys /\ pass.target.start \in Starts \cup {None}
BY TodoTypes DEF TargetType

\* What stays with a flag, or is made for it, was not started at an instant that has a
\* verdict and that the flag does not have.
LEMMA StaysAway ==
    ASSUME Inv, Runs, FreshInv, NEW s \in Starts, verdicts[s].twice # {}, NEW k \in Keys,
           \A o \in Holds(k) : heap[o].start # s, NEW o \in Holds(k)'
    PROVE  heap'[o].start # s
<1>1. CASE o \in Holds(k)
  BY <1>1, HeldKept
<1>2. ASSUME NEW c, NEW op \in {"start", "plan"}, NEW rec, Makes(c, op, k, rec), o = rec.exp
      PROVE  heap'[o].start # s
  <2>1. CASE op = "start"
    <3>1. PICK x \in Starts : Spare(x) /\ heap'[o].start = x
      BY <1>2, <2>1 DEF Makes, Unused
    <3>2. verdicts[x].twice = {}
      BY <3>1 DEF Spare, FreshInv
    <3>3. QED
      BY <3>1, <3>2
  <2>2. CASE op = "plan"
    <3>1. heap'[o].start = StartOn(k)
      BY <1>2, <2>2 DEF Makes
    <3>2. Experiment(k) # None => StartOn(k) # s
      BY FlagMain
    <3>3. Experiment(k) = None => StartOn(k) # s
      BY Numbers DEF StartOn
    <3>4. QED
      BY <3>1, <3>2, <3>3
  <2>3. QED
    BY <2>1, <2>2
<1>3. QED
  BY <1>1, <1>2, HoldsSteps DEF Made

\* A breach that is acted on is confirmed by the verdicts.
LEMMA PullIsJustified ==
    ASSUME Inv, FreshInv, BreachInv, MarkedInv, Warmup > Young,
           NEW b \in pass.breaches, Pulls(b), StartOn(b.key) \notin excused
    PROVE  /\ StartOn(b.key) \in Starts
           /\ b.arm \in verdicts[StartOn(b.key)].twice
           /\ receipts[StartOn(b.key)] = 0
<1> USE DEF Inv
<1>1. PICK k \in Keys : k = b.key
  BY TodoTypes DEF BreachType
<1> DEFINE s == StartOn(k)
<1>2. Experiment(k) # None /\ ~Experiment(k).reverted /\ ConfirmedBreach(b, Experiment(k))
  BY <1>1 DEF Pulls
<1>3. /\ Experiment(k) \in ExperimentType /\ Unstarted(Experiment(k)) /\ Experiment(k).start = s
      /\ Experiment(k).age \in Nat
  <2>1. Experiment(k) \in ExperimentType /\ items[k].exp \in Holds(k) /\ Experiment(k) = heap[items[k].exp]
    BY <1>2, FlagMain
  <2>2. QED
    BY <1>2, <2>1, Numbers DEF FreshInv, StartOn, ExperimentType
<1>4. Experiment(k).age > Young /\ Experiment(k).age > 0
  BY <1>2, <1>3, Numbers DEF ConfirmedBreach, Young
<1>5. s # None /\ s \in Starts
  BY <1>3, <1>4 DEF Unstarted, ExperimentType
<1>6. b.gap = MinGap /\ b.failed
  <2>1. b.gap \in 0 .. MinGap \cup {None}
    BY TodoTypes DEF BreachType
  <2>2. b.gap # None /\ b.gap >= MinGap /\ b.failed
    BY <1>2 DEF ConfirmedBreach
  <2>3. QED
    BY <2>1, <2>2, Numbers
<1>7. ~Exempt(k)
  <2>1. ~(Experiment(k).age <= Young)
    BY <1>3, <1>4, Numbers DEF Young
  <2>2. QED
    BY <1>1, <1>5, <2>1 DEF Exempt
<1>8. b.arm \in verdicts[s].twice
  BY <1>1, <1>6, <1>7 DEF BreachInv
<1>9. receipts[s] = 0
  <2>1. receipts[s] <= 1 /\ receipts[s] # 1
    BY <1>1, <1>2, <1>5 DEF MarkedInv
  <2>2. receipts[s] \in Nat
    BY <1>5 DEF TypeInv
  <2>3. QED
    BY <2>1, <2>2
<1>10. QED
  BY <1>1, <1>5, <1>8, <1>9

\* While a flag is pulled, no verdict is given and no pass ends.
LEMMA PullingSteps ==
    ASSUME Inv, Runs, pass.stage \in Pulling
    PROVE  /\ ~StartPass /\ ~EndPass
           /\ \A k \in Keys, failing \in SUBSET Arms : ~Evaluate(k, failing)
BY DEF StartPass, EndPass, Evaluate, Evaluated, Pulling

\* Every step but a restart keeps a pull justified.
LEMMA PulledStep ==
    ASSUME Inv, Apart, FreshInv, VerdictInv, PendingInv, BreachInv, PulledInv, MarkedInv,
           Warmup > Young, Runs
    PROVE  PulledInv'
<1> USE DEF Inv
<1> SUFFICES ASSUME pass'.stage \in Pulling, NEW x \in Keys, NEW s \in Starts \cup {None},
                    x = pass'.target.key, s = pass'.target.start, s \notin excused'
             PROVE  /\ s # None
                    /\ pass'.target.arm \in verdicts'[s].twice
                    /\ receipts'[s] = 0
                    /\ \A k \in Keys \ {x} : \A o \in Holds(k)' : heap'[o].start # s
                    /\ pass'.stage = "receipt" /\ StartOn(x)' = s => Experiment(x)'.reverted
  <2> SUFFICES ASSUME pass'.stage \in Pulling, pass'.target.start \notin excused'
               PROVE  /\ pass'.target.start # None
                      /\ pass'.target.arm \in verdicts'[pass'.target.start].twice
                      /\ receipts'[pass'.target.start] = 0
                      /\ \E x \in Keys, s \in Starts \cup {None} :
                             /\ x = pass'.target.key /\ s = pass'.target.start
                             /\ \A k \in Keys \ {x} : \A o \in Holds(k)' : heap'[o].start # s
                             /\ pass'.stage = "receipt" /\ StartOn(x)' = s => Experiment(x)'.reverted
    BY DEF PulledInv
  <2>1. pass'.target \in TargetType
    BY PassInvStep DEF PassInv, PassType
  <2>2. PICK x \in Keys, s \in Starts \cup {None} : x = pass'.target.key /\ s = pass'.target.start
    BY <2>1 DEF TargetType
  <2>3. QED
    BY <2>2
<1>0. excused \subseteq excused'
  BY CountSteps
<1>1. CASE pass.stage \in Pulling /\ pass'.target = pass.target
           /\ (pass'.stage = "receipt" => pass.stage = "receipt" \/ Record)
  <2>1. /\ x = pass.target.key /\ s = pass.target.start /\ s \notin excused /\ s # None
        /\ s \in Starts
        /\ pass.target.arm \in verdicts[s].twice
        /\ receipts[s] = 0
        /\ \A k \in Keys \ {x} : \A o \in Holds(k) : heap[o].start # s
        /\ pass.stage = "receipt" /\ StartOn(x) = s => Experiment(x).reverted
    BY <1>0, <1>1 DEF PulledInv
  <2>2. pass.target.arm \in verdicts'[s].twice
    BY <1>1, <2>1, PullingSteps, VerdictsKept
  <2>3. receipts'[s] = 0
    <3>1. ~Receipt
      BY ReceiptPass DEF Pulling
    <3>2. QED
      BY <2>1, <3>1, CountSteps
  <2>4. ASSUME NEW k \in Keys \ {x}, NEW o \in Holds(k)' PROVE heap'[o].start # s
    BY <2>1, <2>4, StaysAway
  <2>5. ASSUME pass'.stage = "receipt", StartOn(x)' = s PROVE Experiment(x)'.reverted
    <3>1. CASE Record
      <4>1. CASE Experiment(x) = None
        <5>1. UNCHANGED <<items, heap>>
          BY <2>1, <3>1, <4>1 DEF Record
        <5>2. StartOn(x)' = StartOn(x)
          BY <5>1 DEF StartOn, Experiment, Value
        <5>3. QED
          BY <2>1, <2>5, <4>1, <5>2 DEF StartOn
      <4>2. CASE Experiment(x) # None
        <5>1. UNCHANGED items /\ heap' = [heap EXCEPT ![items[x].exp].reverted = TRUE]
          BY <2>1, <3>1, <4>2, RecordBegins DEF Record
        <5>2. PICK o \in Objects : o = items[x].exp /\ o # None /\ items[x] # None /\ heap[o] \in ExperimentType
          BY <4>2, FlagMain DEF TypeInv
        <5>3. heap'[o] = [heap[o] EXCEPT !.reverted = TRUE]
          BY <5>1, <5>2 DEF TypeInv
        <5>4. heap'[o].reverted = TRUE
          BY <5>2, <5>3 DEF ExperimentType
        <5>5. Experiment(x)' = heap'[o]
          BY <5>1, <5>2 DEF Experiment, Value
        <5>6. QED
          BY <5>4, <5>5
      <4>3. QED
        BY <4>1, <4>2
    <3>2. CASE pass.stage = "receipt"
      <4>1. ASSUME NEW c \in Callers, Pending(c), heap[call[c].rec.exp].start = s PROVE FALSE
        BY <1>1, <2>1, <4>1 DEF Pending
      <4>2. Experiment(x) # None /\ StartOn(x) = s /\ (Experiment(x).reverted => Experiment(x)'.reverted)
        <5>1. s \in Starts /\ s \notin excused'
          BY <2>1
        <5>2. QED
          BY <2>5, <4>1, <5>1, FlagSteps
      <4>3. QED
        BY <2>1, <3>2, <4>2
    <3>3. QED
      BY <1>1, <2>5, <3>1, <3>2
  <2>6. QED
    BY <1>1, <2>1, <2>2, <2>3, <2>4, <2>5
<1>2. ASSUME NEW b \in pass.breaches, Decide(b), Pulls(b), pass'.stage = "pull", b.key \in Keys,
             pass'.target = [key |-> b.key, arm |-> b.arm, start |-> StartOn(b.key)],
             Experiment(b.key) # None
      PROVE  /\ s # None
             /\ pass'.target.arm \in verdicts'[s].twice
             /\ receipts'[s] = 0
             /\ \A k \in Keys \ {x} : \A o \in Holds(k)' : heap'[o].start # s
  <2>1. UNCHANGED <<items, heap, call, verdicts, receipts, excused>>
    BY <1>2 DEF Decide
  <2>2. /\ x = b.key /\ s = StartOn(x) /\ pass'.target.arm = b.arm /\ s \in Starts
        /\ b.arm \in verdicts[s].twice /\ receipts[s] = 0
    <3>1. pass'.target.start = StartOn(b.key) /\ pass'.target.key = b.key /\ pass'.target.arm = b.arm
      BY <1>2
    <3>2. StartOn(b.key) \notin excused
      BY <2>1, <3>1
    <3>3. QED
      BY <1>2, <3>1, <3>2, PullIsJustified
  <2>3. items[x].exp \in Holds(x) /\ heap[items[x].exp].start = s /\ s # None
    BY <1>2, <2>2, FlagMain, Numbers
  <2>4. ASSUME NEW k \in Keys \ {x}, NEW o \in Holds(k)' PROVE heap'[o].start # s
    <3>1. \A p \in Holds(k) : heap[p].start # s
      BY <2>3, <2>4 DEF Apart
    <3>2. QED
      BY <2>2, <2>4, <3>1, StaysAway
  <2>5. QED
    BY <2>1, <2>2, <2>3, <2>4
<1>3. CASE \E b \in pass.breaches :
               /\ Decide(b) /\ Pulls(b) /\ pass'.stage = "pull" /\ b.key \in Keys
               /\ pass'.target = [key |-> b.key, arm |-> b.arm, start |-> StartOn(b.key)]
               /\ Experiment(b.key) # None
  BY <1>2, <1>3
<1>4. QED
  BY <1>1, <1>3, TargetSteps

\* Every step but a restart keeps the marks of the experiments that were pulled.
LEMMA MarkedStep ==
    ASSUME Inv, Apart, VerdictInv, PendingInv, PulledInv, MarkedInv, Runs
    PROVE  MarkedInv'
<1> USE DEF Inv
<1> SUFFICES ASSUME NEW s \in Starts \ excused'
             PROVE  /\ receipts'[s] <= 1
                    /\ receipts'[s] = 1 =>
                           \A k \in Keys : StartOn(k)' = s => Experiment(k)'.reverted
  BY DEF MarkedInv
<1>0. s \in Starts /\ s \notin excused
  BY CountSteps
<1>1. /\ receipts[s] <= 1
      /\ receipts[s] = 1 => \A k \in Keys : StartOn(k) = s => Experiment(k).reverted
  BY <1>0 DEF MarkedInv
<1>2. CASE receipts'[s] = receipts[s]
  <2>1. ASSUME NEW k \in Keys, receipts[s] = 1, StartOn(k)' = s PROVE Experiment(k)'.reverted
    <3>1. ASSUME NEW c \in Callers, Pending(c), heap[call[c].rec.exp].start = s PROVE FALSE
      BY <1>0, <2>1, <3>1 DEF Pending
    <3>2. Experiment(k) # None /\ StartOn(k) = s /\ (Experiment(k).reverted => Experiment(k)'.reverted)
      BY <2>1, <3>1, FlagSteps
    <3>3. QED
      BY <1>1, <2>1, <3>2
  <2>2. QED
    BY <1>1, <1>2, <2>1
<1>3. CASE Receipt /\ receipts' = [receipts EXCEPT ![pass.target.start] = @ + 1]
           /\ pass.target.start = s
  <2>1. pass.stage = "receipt" /\ pass.stage \in Pulling
    BY <1>3 DEF Receipt, Pulling
  <2>2. PICK x \in Keys :
            /\ x = pass.target.key /\ receipts[s] = 0
            /\ \A k \in Keys \ {x} : \A o \in Holds(k) : heap[o].start # s
            /\ StartOn(x) = s => Experiment(x).reverted
    BY <1>0, <1>3, <2>1, TargetTypes DEF PulledInv, PassInv
  <2>3. receipts'[s] = 1
    BY <1>0, <1>3, <2>2 DEF TypeInv
  <2>4. ASSUME NEW k \in Keys, StartOn(k)' = s PROVE Experiment(k)'.reverted
    <3>1. UNCHANGED <<items, heap>>
      BY <1>3 DEF Receipt
    <3>2. StartOn(k) = s /\ Experiment(k)' = Experiment(k)
      BY <2>4, <3>1 DEF StartOn, Experiment, Value
    <3>3. Experiment(k) # None
      BY <1>0, <3>2, Numbers DEF StartOn
    <3>4. k = x
      BY <2>2, <3>2, <3>3, FlagMain
    <3>5. QED
      BY <2>2, <3>2, <3>4
  <2>5. QED
    BY <2>3, <2>4
<1>4. QED
  <2>1. receipts' = [receipts EXCEPT ![pass.target.start] = @ + 1] /\ pass.target.start # s =>
            receipts'[s] = receipts[s]
    BY <1>0 DEF TypeInv
  <2>2. QED
    BY <1>2, <1>3, <2>1, CountSteps

\* A mark is in the file, or its start is excused.
LEMMA MarkedRestart == ASSUME Inv, MarkedInv, Restart PROVE MarkedInv'
<1> USE DEF Inv
<1>0. UNCHANGED <<receipts, disk>> /\ excused \subseteq excused'
  BY DEF Restart
<1> SUFFICES ASSUME NEW s \in Starts \ excused'
             PROVE  /\ receipts[s] <= 1
                    /\ receipts[s] = 1 =>
                           \A k \in Keys : StartOn(k)' = s => Experiment(k)'.reverted
  BY <1>0 DEF MarkedInv
<1>1. /\ s \in Starts /\ s # None /\ s \notin excused /\ receipts[s] <= 1
      /\ receipts[s] = 1 => \A k \in Keys : StartOn(k) = s => Experiment(k).reverted
  BY <1>0, Numbers DEF MarkedInv
<1>2. ASSUME NEW k \in Keys, StartOn(k)' = s
      PROVE  Experiment(k)' = Experiment(k) /\ StartOn(k) = s
  <2>1. items'[k] # None /\ items'[k].exp # None /\ Experiment(k)' = heap'[items'[k].exp]
        /\ Experiment(k)'.start = s
    BY <1>1, <1>2 DEF StartOn, Experiment, Value
  <2>2. disk[k] # None /\ disk[k].exp # None /\ Experiment(k)' = disk[k].exp
    BY <2>1, Reloaded
  <2>3. s \in StartsOf(disk)
    BY <1>1, <2>1, <2>2 DEF StartsOf
  <2>4. disk = Image(items, heap)
    BY <2>3 DEF Restart
  <2>5. items[k] # None /\ items[k].exp # None /\ disk[k].exp = heap[items[k].exp]
    BY <2>2, <2>4, ImageType DEF TypeInv
  <2>6. Experiment(k) = heap[items[k].exp] /\ Experiment(k) # None
    BY <2>5, ExperimentOf
  <2>7. QED
    BY <2>1, <2>2, <2>5, <2>6 DEF StartOn
<1>3. QED
  BY <1>1, <1>2

-----------------------------------------------------------------------------
\* Ages.

\* The experiments of memory and of the file.
Written == {k \in Keys : disk[k] # None /\ disk[k].exp # None}

Carried == {heap[o] : o \in Objects} \cup {disk[k].exp : k \in Written}

\* The copies of an experiment have one age, whatever became of each.
SameAge == \A x, y \in Carried : x.start # None /\ x.start = y.start => x.age = y.age

\* What is pulled is past its warm-up.
WarmInv ==
    pass.stage \in Pulling => pass.target.start # None /\ PastWarmup(pass.target.start)

\* The parts of what is carried.
LEMMA CarriedType == ASSUME TypeInv PROVE Carried \subseteq ExperimentType
<1>1. \A k \in Written : disk[k].exp \in ExperimentType
  BY DEF TypeInv, Written, StoredType
<1>2. QED
  BY <1>1 DEF Carried, TypeInv

\* An experiment of memory that is dated is a copy of one that was there, of its age, or one
\* that has just been started at an instant of its own.
LEMMA HeapAges ==
    ASSUME Inv, Runs, ~StartPass, NEW o \in Objects, heap'[o].start # None
    PROVE  \/ \E p \in Objects : heap[p].start = heap'[o].start /\ heap[p].age = heap'[o].age
           \/ heap'[o].age = 0 /\ Spare(heap'[o].start)
<1> USE DEF Inv
<1>0. heap \in [Objects -> ExperimentType] /\ Blank.start = None
  BY BlankType DEF TypeInv
<1>1. CASE heap' = heap
  BY <1>1
<1>2. CASE Collected(heap)
  BY <1>0, <1>2 DEF Collected
<1>3. ASSUME NEW c \in Operators, NEW k \in Keys, NEW p \in Plans, CreateExperiment(c, k, p)
      PROVE  heap'[o] = heap[o] \/ (heap'[o].age = 0 /\ Spare(heap'[o].start))
  <2>1. PICK x \in Objects, s \in Starts :
            Unused(s) /\ heap' = [heap EXCEPT ![x] = Started(Plan(p), s)]
    BY <1>3 DEF CreateExperiment
  <2>2. Started(Plan(p), s).start = s /\ Started(Plan(p), s).age = 0
    BY BlankType, StartedType
  <2>3. QED
    BY <1>0, <2>1, <2>2 DEF Unused
<1>4. ASSUME NEW c \in Operators, NEW k \in Keys, NEW p \in Plans, NEW start \in BOOLEAN,
             ExperimentPlan(c, k, p, start)
      PROVE  \/ heap'[o] = heap[o]
             \/ heap'[o].age = 0 /\ Spare(heap'[o].start)
             \/ \E q \in Objects : heap[q].start = heap'[o].start /\ heap[q].age = heap'[o].age
  <2> DEFINE old  == IF items[k].exp = None THEN Plan(p) ELSE Value(items[k].exp)
             copy == [old EXCEPT !.plan = p]
  <2>1. PICK x \in Objects, s \in Starts :
            /\ Unused(s) /\ items[k] # None
            /\ heap' = [heap EXCEPT ![x] = IF start THEN Started(copy, s) ELSE copy]
    BY <1>4 DEF ExperimentPlan
  <2>2. old \in ExperimentType
    <3>1. items[k].exp = None => old = Plan(p)
      OBVIOUS
    <3>2. items[k].exp # None => old = Experiment(k) /\ Experiment(k) \in ExperimentType
      BY <2>1, ExperimentOf DEF Experiment
    <3>3. QED
      BY <3>1, <3>2, BlankType
  <2>3. copy \in ExperimentType /\ copy.start = old.start /\ copy.age = old.age
    <3> HIDE DEF old
    <3>1. QED
      BY <2>2 DEF ExperimentType
  <2>4. CASE o # x
    BY <1>0, <2>1, <2>4
  <2>5. CASE o = x /\ start
    <3>1. heap'[o] = Started(copy, s)
      BY <1>0, <2>1, <2>5
    <3>2. Started(copy, s).start = s /\ Started(copy, s).age = 0
      <4> HIDE DEF copy
      <4>1. QED
        BY <2>3, StartedType
    <3>3. QED
      BY <2>1, <3>1, <3>2 DEF Unused
  <2>6. CASE o = x /\ ~start
    <3>1. heap'[o] = copy
      BY <1>0, <2>1, <2>6
    <3>2. old.start # None
      BY <2>3, <3>1
    <3>3. items[k].exp # None
      BY <3>2 DEF Plan
    <3>4. items[k].exp \in Objects /\ old = heap[items[k].exp]
      BY <2>1, <3>3, ExperimentOf DEF Value
    <3>5. QED
      BY <2>3, <3>1, <3>4
  <2>7. QED
    BY <2>4, <2>5, <2>6
<1>5. ASSUME NEW k \in Keys, NEW failing \in SUBSET Arms, Evaluate(k, failing)
      PROVE  heap'[o].start = heap[o].start /\ heap'[o].age = heap[o].age
  <2> DEFINE x == pass.todo[k].exp
             h == [heap EXCEPT ![x].failing = failing, ![x].checked = 0]
  <2>1. Collected(h)
    BY <1>5 DEF Evaluate
  <2>2. h[o].start = heap[o].start /\ h[o].age = heap[o].age
    BY <1>0 DEF ExperimentType
  <2>3. heap'[o] = h[o]
    <3> HIDE DEF h
    <3>1. QED
      BY <1>0, <2>1 DEF Collected
  <2>4. QED
    BY <2>2, <2>3
<1>6. CASE Record
  <2>1. heap' = heap \/ heap' = [heap EXCEPT ![items[pass.target.key].exp].reverted = TRUE]
    BY <1>6 DEF Record
  <2>2. heap'[o].start = heap[o].start /\ heap'[o].age = heap[o].age
    BY <1>0, <2>1 DEF ExperimentType
  <2>3. QED
    BY <2>2
<1>7. QED
  <2>1. CASE \E c \in Operators, k \in Keys, on \in BOOLEAN : Create(c, k, on) \/ SetEnabled(c, k, on)
    BY <1>1, <2>1 DEF Create, SetEnabled
  <2>2. CASE \E c \in Operators, k \in Keys, p \in Plans : CreateExperiment(c, k, p)
    BY <1>3, <2>2
  <2>3. CASE \E c \in Operators, k \in Keys, p \in Plans, start \in BOOLEAN : ExperimentPlan(c, k, p, start)
    BY <1>4, <2>3
  <2>4. CASE \E c \in Operators, k \in Keys : Delete(c, k)
    BY <1>2, <2>4 DEF Delete
  <2>5. CASE \E c \in Callers : Check(c) \/ Write(c) \/ WriteFails(c)
    BY <1>2, <2>5 DEF Check, Write, WriteFails
  <2>6. CASE \E k \in Keys, failing \in SUBSET Arms : Evaluate(k, failing)
    BY <1>5, <2>6
  <2>7. CASE \E k \in Keys : SkipUnread(k)
    BY <1>2, <2>7 DEF SkipUnread
  <2>8. CASE EndPass \/ Pull \/ Receipt \/ UNCHANGED vars \/ \E b \in pass.breaches : Decide(b)
    BY <1>1, <2>8 DEF EndPass, Pull, Receipt, Decide, vars
  <2>9. QED
    BY Kinds, <1>6, <2>1, <2>2, <2>3, <2>4, <2>5, <2>6, <2>7, <2>8

\* The same of all that is carried: the file holds what memory held, and a restart loads it.
LEMMA CarriedAges ==
    ASSUME Inv, Runs \/ Restart, ~StartPass, NEW x \in Carried', x.start # None
    PROVE  \/ \E y \in Carried : y.start = x.start /\ y.age = x.age
           \/ x.age = 0 /\ Spare(x.start)
<1> USE DEF Inv
<1>1. \A k \in Written : disk[k].exp \in Carried
  BY DEF Carried
<1>2. \A o \in Objects : heap[o] \in Carried
  BY DEF Carried
<1>3. CASE Runs
  <2>1. ASSUME NEW o \in Objects, x = heap'[o]
        PROVE  \/ \E y \in Carried : y.start = x.start /\ y.age = x.age
               \/ x.age = 0 /\ Spare(x.start)
    BY <1>2, <1>3, <2>1, HeapAges
  <2>2. ASSUME NEW k \in Keys, k \in Written', x = disk'[k].exp PROVE x \in Carried
    <3>1. CASE UNCHANGED disk
      BY <1>1, <2>2, <3>1 DEF Written
    <3>2. CASE disk' = Image(items', heap)
      <4>1. items' \in [Keys -> RecordType \cup {None}] /\ heap \in [Objects -> ExperimentType]
        BY <1>3, ItemsSteps DEF TypeInv
      <4>2. items'[k] # None /\ items'[k].exp # None /\ x = heap[items'[k].exp]
        BY <2>2, <3>2 DEF Written, Image
      <4>3. items'[k].exp \in Objects
        BY <4>1, <4>2 DEF RecordType
      <4>4. QED
        BY <1>2, <4>2, <4>3
    <3>3. QED
      BY <1>3, <3>1, <3>2, DiskSteps
  <2>3. x \in {heap'[o] : o \in Objects} \/ \E k \in Keys : k \in Written' /\ x = disk'[k].exp
    BY DEF Carried, Written
  <2>4. QED
    BY <2>1, <2>2, <2>3
<1>4. CASE Restart
  <2>1. UNCHANGED disk
    BY <1>4 DEF Restart
  <2>2. ASSUME NEW o \in Objects, x = heap'[o] PROVE x \in Carried
    <3>1. PICK j \in Keys : Home[j] = o /\ disk[j] # None /\ disk[j].exp # None
      BY <1>4, <2>2, BlankType DEF Restart
    <3>2. x = disk[j].exp
      BY <1>4, <2>2, <3>1, Reloaded
    <3>3. QED
      BY <1>1, <3>1, <3>2 DEF Written
  <2>3. x \in {heap'[o] : o \in Objects} \/ \E k \in Written : x = disk[k].exp
    BY <2>1 DEF Carried, Written
  <2>4. QED
    BY <1>1, <2>2, <2>3
<1>5. QED
  BY <1>3, <1>4

\* A pass ages all of it alike.
LEMMA CarriedAged ==
    ASSUME Inv, StartPass
    PROVE  \E t \in Nat : \A x \in Carried' : \E y \in Carried :
               x.start = y.start /\ x.age = IF y.start = None THEN 0 ELSE Later(y.age, t, Warmup)
<1> USE DEF Inv
<1>1. PICK t \in Nat :
          /\ \A o \in Objects : heap'[o] = Aged(heap[o], t)
          /\ disk' = [k \in Keys |->
                         IF disk[k] = None \/ disk[k].exp = None THEN disk[k]
                         ELSE [disk[k] EXCEPT !.exp = Aged(@, t)]]
  BY StartPassHeap
<1>2. \A y \in Carried :
          /\ Aged(y, t).start = y.start
          /\ Aged(y, t).age = IF y.start = None THEN 0 ELSE Later(y.age, t, Warmup)
  BY CarriedType, AgedType
<1>3. ASSUME NEW x \in Carried' PROVE \E y \in Carried : x = Aged(y, t)
  <2>1. CASE \E o \in Objects : x = heap'[o]
    BY <1>1, <2>1 DEF Carried
  <2>2. ASSUME NEW k \in Keys, k \in Written', x = disk'[k].exp PROVE \E y \in Carried : x = Aged(y, t)
    <3>1. k \in Written
      BY <1>1, <2>2 DEF Written
    <3>2. disk[k] \in StoredType /\ disk'[k] = [disk[k] EXCEPT !.exp = Aged(@, t)]
      BY <1>1, <3>1 DEF Written, TypeInv
    <3>3. x = Aged(disk[k].exp, t)
      BY <2>2, <3>2 DEF StoredType
    <3>4. QED
      BY <3>1, <3>3 DEF Carried
  <2>3. QED
    BY <2>1, <2>2 DEF Carried, Written
<1>4. QED
  BY <1>2, <1>3

\* Copies stay of one age.
LEMMA SameAgeStep == ASSUME Inv, SameAge, Runs \/ Restart PROVE SameAge'
<1> USE DEF Inv
<1>1. CASE StartPass
  <2>1. PICK t \in Nat : \A x \in Carried' : \E y \in Carried :
            x.start = y.start /\ x.age = IF y.start = None THEN 0 ELSE Later(y.age, t, Warmup)
    BY <1>1, CarriedAged
  <2>2. QED
    BY <2>1 DEF SameAge
<1>2. CASE ~StartPass
  <2> SUFFICES ASSUME NEW x \in Carried', NEW y \in Carried', x.start # None, x.start = y.start
               PROVE  x.age = y.age
    BY DEF SameAge
  <2>1. Spare(x.start) => \A z \in Carried : z.start # x.start
    BY DEF Spare, Carried, Written
  <2>2. /\ (\E z \in Carried : z.start = x.start /\ z.age = x.age) \/ (x.age = 0 /\ Spare(x.start))
        /\ (\E z \in Carried : z.start = x.start /\ z.age = y.age) \/ (y.age = 0 /\ Spare(x.start))
    BY <1>2, CarriedAges
  <2>3. QED
    BY <2>1, <2>2 DEF SameAge
<1>3. QED
  BY <1>1, <1>2

\* Every step but a restart keeps what is pulled past its warm-up.
LEMMA WarmStep ==
    ASSUME Inv, FreshInv, SameAge, WarmInv, Warmup > Young, Runs
    PROVE  WarmInv'
<1> USE DEF Inv
<1> SUFFICES ASSUME pass'.stage \in Pulling
             PROVE  pass'.target.start # None /\ PastWarmup(pass.target.start)'
  BY DEF WarmInv
<1>1. CASE pass.stage \in Pulling /\ pass'.target = pass.target
  <2> DEFINE s == pass.target.start
  <2>1. s # None /\ PastWarmup(s) /\ ~StartPass /\ pass.target # None
    BY <1>1, PullingSteps DEF WarmInv, PassInv
  <2>2. ~Spare(s)
    BY <2>1 DEF Spare
  <2>3. ASSUME NEW o \in Objects, heap'[o].start = s PROVE heap'[o].age >= Warmup
    BY <2>1, <2>2, <2>3, HeapAges DEF PastWarmup
  <2>4. QED
    BY <1>1, <2>1, <2>3 DEF PastWarmup
<1>2. ASSUME NEW b \in pass.breaches, Decide(b), Pulls(b), b.key \in Keys,
             pass'.target = [key |-> b.key, arm |-> b.arm, start |-> StartOn(b.key)],
             Experiment(b.key) # None
      PROVE  pass'.target.start # None /\ PastWarmup(pass.target.start)'
  <2> DEFINE k == b.key
             exp == Experiment(k)
  <2>1. UNCHANGED heap /\ pass'.target.start = exp.start
    BY <1>2 DEF Decide, StartOn
  <2>2. exp.age >= Warmup
    BY <1>2 DEF Pulls, ConfirmedBreach
  <2>3. items[k].exp \in Objects /\ exp = heap[items[k].exp] /\ items[k].exp \in Holds(k)
    BY <1>2, ExperimentOf, FlagMain
  <2>4. exp.start # None
    <3>1. Unstarted(exp)
      BY <1>2, <2>3 DEF FreshInv
    <3>2. ~(0 >= Warmup)
      BY Numbers DEF Young
    <3>3. QED
      BY <2>2, <3>1, <3>2 DEF Unstarted
  <2>5. ASSUME NEW o \in Objects, heap[o].start = exp.start PROVE heap[o].age >= Warmup
    <3>1. heap[o] \in Carried /\ exp \in Carried
      BY <2>3 DEF Carried
    <3>2. heap[o].age = exp.age
      BY <2>4, <2>5, <3>1 DEF SameAge
    <3>3. QED
      BY <2>2, <3>2
  <2>6. QED
    BY <2>1, <2>4, <2>5 DEF PastWarmup
<1>3. QED
  BY <1>1, <1>2, TargetSteps

\* Before anything happens nothing is started, and nothing was pulled.
LEMMA RevertInit == ASSUME Init PROVE RevertInv /\ SameAge /\ WarmInv
<1>1. \A k \in Keys : Holds(k) = {} /\ items[k] = None /\ disk[k] = None
  BY Numbers DEF Init, Holds, Listing, CallsOn, ExpOf, Idle, PassIdle
<1>2. \A k \in Keys : Main(k) = {} /\ StartOn(k) = None
  BY <1>1, MainHeld DEF StartOn, Experiment
<1>3. /\ \A s \in Starts : receipts[s] = 0 /\ verdicts[s].last = {} /\ verdicts[s].twice = {}
      /\ pass.stage = "idle" /\ DOMAIN pass.todo = {} /\ pass.breaches = {}
      /\ \A c \in Callers : call[c].op = "none"
  BY DEF Init, PassIdle, Idle
<1>4. FreshInv /\ VerdictInv /\ PendingInv
  BY <1>1, <1>2, <1>3 DEF FreshInv, VerdictInv, PendingInv
<1>5. BreachInv /\ PulledInv /\ MarkedInv
  BY <1>3 DEF BreachInv, PulledInv, MarkedInv, Pulling
<1>6. SameAge /\ WarmInv
  <2>1. \A x \in Carried : x.start = None
    BY <1>1, BlankType DEF Init, Carried, Written
  <2>2. QED
    BY <1>3, <2>1 DEF SameAge, WarmInv, Pulling
<1>7. QED
  BY <1>4, <1>5, <1>6 DEF RevertInv

\* An experiment is turned off by the safety pass only past its warm-up, of which no copy of
\* it, in memory, in a request or loaded again, can be short; only when one of its own arms has
\* failed in two evaluations in a row, the gap apart; and once, whatever the operators save in
\* between (auto_revert.go:54, :124).  The failures and the count are excused, the warm-up is
\* not, when a caller wrote over a verdict or a restart lost it.  Given that the warm-up
\* outlasts a pass and its delay.
THEOREM RevertsAreJustified ==
    ASSUME Warmup > Period + MaxDelay
    PROVE  Spec => []RevertJustified
<1> DEFINE All == Inv /\ Apart /\ SamePlans /\ RevertInv /\ SameAge /\ WarmInv
<1>1. Init => All
  <2> SUFFICES ASSUME Init PROVE All
    OBVIOUS
  <2>1. Apart /\ SamePlans
    <3>1. \A k \in Keys : Holds(k) = {} /\ items[k] = None /\ disk[k] = None
      BY Numbers DEF Init, Holds, Listing, CallsOn, ExpOf, Idle, PassIdle
    <3>2. QED
      BY <3>1 DEF Apart, SamePlans
  <2>2. QED
    BY <2>1, InitInv, RevertInit
<1>2. All /\ [Next]_vars => All'
  <2> SUFFICES ASSUME All, [Next]_vars PROVE All'
    OBVIOUS
  <2>1. Inv'
    BY InvStep
  <2>2. CASE Runs
    <3>1. Apart' /\ SamePlans'
      BY <2>2, ApartStep, SamePlansStep
    <3>2. FreshInv' /\ VerdictInv' /\ PendingInv' /\ BreachInv'
      BY <2>2, FreshStep, VerdictStep, PendingStep, BreachStep DEF RevertInv
    <3>3. PulledInv' /\ MarkedInv'
      BY <2>2, PulledStep, MarkedStep DEF RevertInv, Young
    <3>4. SameAge' /\ WarmInv'
      BY <2>2, SameAgeStep, WarmStep DEF RevertInv, Young
    <3>5. QED
      BY <2>1, <3>1, <3>2, <3>3, <3>4 DEF RevertInv
  <2>3. CASE Restart
    <3>1. Apart' /\ SamePlans'
      BY <2>3, ApartRestart, SamePlansRestart
    <3>2. FreshInv' /\ VerdictInv' /\ PendingInv'
      BY <2>3, FreshRestart, VerdictRestart, PendingRestart DEF RevertInv
    <3>3. BreachInv' /\ PulledInv' /\ MarkedInv'
      BY <2>3, BreachRestart, MarkedRestart DEF RevertInv
    <3>4. SameAge' /\ WarmInv'
      BY <2>3, SameAgeStep DEF Restart, PassIdle, WarmInv, Pulling
    <3>5. QED
      BY <2>1, <3>1, <3>2, <3>3, <3>4 DEF RevertInv
  <2>4. QED
    BY <2>2, <2>3 DEF Next, Runs
<1>3. All => RevertJustified
  <2> SUFFICES ASSUME All PROVE RevertJustified
    OBVIOUS
  <2>1. PulledInv /\ MarkedInv /\ WarmInv
    BY DEF RevertInv
  <2>2. QED
    BY <2>1 DEF PulledInv, MarkedInv, WarmInv, RevertJustified, Pulling
<1>4. QED
  <2> HIDE DEF All
  <2>1. QED
    BY <1>1, <1>2, <1>3, PTL DEF Spec
=============================================================================

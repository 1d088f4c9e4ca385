----------------------------- MODULE FlagControl -----------------------------
(***************************************************************************)
(* Feature flags, the experiments locked onto them, and the safety pass    *)
(* that turns a hurting one off: internal/flag/store.go, the lock of       *)
(* internal/flag/experiment.go, internal/api/guardrail_eval.go and         *)
(* internal/api/auto_revert.go.                                            *)
(*                                                                         *)
(* Store.mu is held for one read or one write, never for both.  A caller   *)
(* reads a flag, validates what it is about to save against a second read, *)
(* and writes the whole record back: three steps, and anything can happen  *)
(* between them.  A flag record holds its experiment by POINTER: every     *)
(* copy of the record shares the object, and the safety pass writes        *)
(* through it before it saves.  heap is where the objects live.            *)
(*                                                                         *)
(* Time moves when a pass starts.  An age is counted in units, of which    *)
(* Period are one tick of the safety loop, and stops at the largest the    *)
(* code compares with; the age of an experiment counts from the pass       *)
(* before its start.                                                       *)
(***************************************************************************)
EXTENDS Naturals, FiniteSets

CONSTANTS
    Keys,       \* flag keys
    Arms,       \* pairs of a guardrail and a treatment arm
    Plans,      \* analysis plans
    Guarded,    \* the plans with a guardrail
    Operators,  \* requests of the API and of the MCP server
    Objects,    \* addresses of experiments
    Starts,     \* the instants experiments can be started at
    None,       \* nil
    Period,     \* desk.SafetyPassEvery
    MaxDelay,   \* how late after its tick a pass may read the clock
    MinGap,     \* desk.RevertMinGap
    Warmup,     \* desk.RevertWarmup
    AutoRevert, \* desk.RevertEnabled()
    MaxCalls,   \* bound: calls of operators
    MaxFaults   \* bound: failed writes and restarts

ASSUME FlagControlAssumption ==
    /\ {Period, MaxDelay, MinGap, Warmup, MaxCalls, MaxFaults} \subseteq Nat
    /\ Guarded \subseteq Plans
    /\ AutoRevert \in BOOLEAN
    /\ "pass" \notin Operators
    /\ Plans # {}

\* A restart loads every record at an address of its own.
ASSUME AddressAssumption ==
    \E at \in [Keys -> Objects] : \A j, k \in Keys : at[j] = at[k] => j = k

ExperimentType ==
    [plan : Plans, start : Starts \cup {None}, age : 0 .. Warmup, failing : SUBSET Arms,
     checked : 0 .. MinGap \cup {None}, reverted : BOOLEAN]

RecordType == [on : BOOLEAN, exp : Objects \cup {None}]

StoredType == [on : BOOLEAN, exp : ExperimentType \cup {None}]

TargetType == [key : Keys, arm : Arms, start : Starts \cup {None}]

ASSUME NilAssumption ==
    None \notin Objects \cup Starts \cup Keys \cup Nat
                 \cup ExperimentType \cup RecordType \cup StoredType \cup TargetType

VARIABLES
    items,      \* Store.items: key -> nil or [on, exp], exp an address or nil
    heap,       \* address -> experiment
    disk,       \* the flags file: key -> nil or [on, exp], exp a value or nil
    call,       \* every caller's progress through SaveWithExposure
    pass,       \* the safety loop inside EvaluateGuardrails
    delay,      \* how late the last pass was; nil after a restart
    \* bookkeeping
    verdicts,   \* start -> its last two evaluations
    receipts,   \* start -> $experiment_reverted events written
    excused,    \* starts whose verdict was replaced by an older one, or which were put back
    calls, faults, crashes

vars == <<items, heap, disk, call, pass, delay,
          verdicts, receipts, excused, calls, faults, crashes>>

Callers == Operators \cup {"pass"}

-----------------------------------------------------------------------------
\* Experiments.

Later(n, t, most) == IF n + t > most THEN most ELSE n + t

\* start and checked are nil until the plan is started, the guardrails checked.
Plan(p) ==
    [plan |-> p, start |-> None, age |-> 0, failing |-> {}, checked |-> None, reverted |-> FALSE]

Blank == Plan(CHOOSE p \in Plans : TRUE)

Started(exp, s) == [exp EXCEPT !.start = s, !.age = 0]

Aged(exp, t) ==
    [exp EXCEPT !.age = IF exp.start = None THEN 0 ELSE Later(@, t, Warmup),
                !.checked = IF @ = None THEN None ELSE Later(@, t, MinGap)]

\* Mutant: a plan may be re-dated.
ValidChangeRedated(old, new) ==
    old = None \/ old.start = None \/ (new # None /\ new.start # None /\ new.plan = old.plan)

\* A started plan can be neither removed, nor unlocked, nor re-dated, nor
\* changed.
ValidatePlanChange(old, new) ==
    \/ old = None
    \/ old.start = None
    \/ new # None /\ new.start = old.start /\ new.plan = old.plan

Value(o) == IF o = None THEN None ELSE heap[o]

Experiment(k) == IF items[k] = None THEN None ELSE Value(items[k].exp)

\* What the code marshals: the records with their experiments inside.
Image(its, h) ==
    [k \in Keys |->
        IF its[k] = None THEN None
        ELSE [on |-> its[k].on, exp |-> IF its[k].exp = None THEN None ELSE h[its[k].exp]]]

-----------------------------------------------------------------------------
\* Addresses.

Idle == [at |-> "idle", op |-> "none", key |-> None, rec |-> None, prev |-> None,
         late |-> FALSE]

PassIdle == [stage |-> "idle", todo |-> [k \in {} |-> None], breaches |-> {}, target |-> None]

ExpOf(rec) == IF rec = None THEN {} ELSE {rec.exp} \ {None}

Reachable ==
    UNION ({ExpOf(items[k]) : k \in Keys}
           \cup {ExpOf(call[c].rec) \cup ExpOf(call[c].prev) : c \in Callers}
           \cup {ExpOf(pass.todo[k]) : k \in DOMAIN pass.todo})

Fresh(o) == o \notin Reachable /\ o = CHOOSE x \in Objects : x \notin Reachable

\* The collector: an address nothing refers to may be used again.
Collected(h) == heap' = [o \in Objects |-> IF o \in Reachable' THEN h[o] ELSE Blank]

Spare(s) ==
    /\ \A o \in Objects : heap[o].start # s
    /\ \A k \in Keys : disk[k] # None /\ disk[k].exp # None => disk[k].exp.start # s
    /\ verdicts[s].since = None
    /\ receipts[s] = 0
    /\ pass.target # None => pass.target.start # s

Unused(s) == Spare(s) /\ s = CHOOSE x \in Starts : Spare(x)

-----------------------------------------------------------------------------
\* SaveWithExposure: validate against one read, write under another lock.

Saving(c, op, k, rec) ==
    call' = [call EXCEPT ![c] = [Idle EXCEPT !.at = "check", !.op = op, !.key = k, !.rec = rec]]

\* Where the safety pass goes on after a save of its own.
Resumes(op, ok) ==
    CASE op = "status"  -> "run"
      [] op = "disable" -> IF ok THEN "record" ELSE "run"
      [] op = "reason"  -> "receipt"

Returns(c, ok) ==
    /\ call' = [call EXCEPT ![c] = Idle]
    /\ pass' = IF c = "pass" THEN [pass EXCEPT !.stage = Resumes(call[c].op, ok)] ELSE pass

Check(c) ==
    /\ call[c].at = "check"
    /\ IF ValidatePlanChange(Experiment(call[c].key), Value(call[c].rec.exp))
       THEN /\ call' = [call EXCEPT ![c].at = "write", ![c].prev = items[call[c].key]]
            /\ UNCHANGED pass
       ELSE Returns(c, FALSE)
    /\ UNCHANGED <<items, disk, delay, verdicts, receipts, excused, calls, faults, crashes>>
    /\ Collected(heap)

\* A plan saved over a started one replaces the verdict recorded since its copy was taken; a
\* record read before the flag lost its experiment puts it back, under whatever verdict is
\* about to be acted on.
Rewrites(c) ==
    {s \in Starts :
        /\ call[c].rec.exp # None
        /\ heap[call[c].rec.exp].start = s
        /\ \/ call[c].op = "plan"
           \/ /\ call[c].op # "start"
              /\ Experiment(call[c].key) = None \/ Experiment(call[c].key).start # s}

Write(c) ==
    /\ call[c].at = "write"
    /\ items' = [items EXCEPT ![call[c].key] = call[c].rec]
    /\ disk' = Image(items', heap)
    /\ excused' = excused \cup Rewrites(c)
    /\ Returns(c, TRUE)
    /\ UNCHANGED <<delay, verdicts, receipts, calls, faults, crashes>>
    /\ Collected(heap)

\* The records are rolled back; what was written through a pointer is not.
WriteFails(c) ==
    /\ call[c].at = "write"
    /\ faults + crashes < MaxFaults
    /\ faults' = faults + 1
    /\ Returns(c, FALSE)
    /\ UNCHANGED <<items, disk, delay, verdicts, receipts, excused, calls, crashes>>
    /\ Collected(heap)

-----------------------------------------------------------------------------
\* The operators.

Calls(c) == call[c] = Idle /\ calls < MaxCalls /\ calls' = calls + 1

\* create_flag: a record without an experiment, whatever was there.
Create(c, k, on) ==
    /\ Calls(c)
    /\ Saving(c, "create", k, [on |-> on, exp |-> None])
    /\ UNCHANGED <<items, heap, disk, pass, delay, verdicts, receipts, excused, faults, crashes>>

SetEnabled(c, k, on) ==
    /\ Calls(c)
    /\ items[k] # None
    /\ Saving(c, "switch", k, [items[k] EXCEPT !.on = on])
    /\ UNCHANGED <<items, heap, disk, pass, delay, verdicts, receipts, excused, faults, crashes>>

\* apiCreateExperiment: a new plan, started at once; a new flag is off.
CreateExperiment(c, k, p) ==
    /\ Calls(c)
    /\ \E o \in Objects, s \in Starts :
        /\ Fresh(o) /\ Unused(s)
        /\ Saving(c, "start", k, [on |-> items[k] # None /\ items[k].on, exp |-> o])
        /\ heap' = [heap EXCEPT ![o] = Started(Plan(p), s)]
    /\ UNCHANGED <<items, disk, pass, delay, verdicts, receipts, excused, faults, crashes>>

\* experiment_plan: a copy of the plan, edited, and started if it was not.
ExperimentPlan(c, k, p, start) ==
    /\ Calls(c)
    /\ items[k] # None
    /\ \E o \in Objects, s \in Starts :
        /\ Fresh(o) /\ Unused(s)
        /\ LET old  == IF items[k].exp = None THEN Plan(p) ELSE Value(items[k].exp)
               copy == [old EXCEPT !.plan = p]
           IN /\ start => copy.start = None
              /\ Saving(c, IF start THEN "start" ELSE "plan", k, [items[k] EXCEPT !.exp = o])
              /\ heap' = [heap EXCEPT ![o] = IF start THEN Started(copy, s) ELSE copy]
    /\ UNCHANGED <<items, disk, pass, delay, verdicts, receipts, excused, faults, crashes>>

\* Mutant: the file is not rewritten.
DeleteUnsaved(c, k) ==
    /\ Calls(c)
    /\ items[k] # None
    /\ items' = [items EXCEPT ![k] = None]
    /\ UNCHANGED <<disk, call, pass, delay, verdicts, receipts, excused, faults, crashes>>
    /\ Collected(heap)

\* One lock from the look-up to the file.
Delete(c, k) ==
    /\ Calls(c)
    /\ items[k] # None
    /\ \/ /\ items' = [items EXCEPT ![k] = None]
          /\ disk' = Image(items', heap)
          /\ UNCHANGED faults
       \/ /\ faults + crashes < MaxFaults
          /\ faults' = faults + 1
          /\ UNCHANGED <<items, disk>>
    /\ UNCHANGED <<call, pass, delay, verdicts, receipts, excused, crashes>>
    /\ Collected(heap)

-----------------------------------------------------------------------------
\* The safety pass.

Running(rec) ==
    rec # None /\ rec.exp # None /\ heap[rec.exp].plan \in Guarded /\ heap[rec.exp].start # None

\* How far the clock has moved since the pass before: a tick, give or take how
\* late the two passes were.  The first pass after a restart waits for no tick.
Elapsed(late) ==
    IF delay = None THEN 0 .. Period + MaxDelay ELSE {Period + late - delay}

\* The clock is read, the events and the flags are listed.  No request lasts
\* from one tick past the next.
StartPass ==
    /\ pass.stage = "idle"
    /\ \A c \in Callers : ~call[c].late
    /\ call' = [c \in Callers |-> [call[c] EXCEPT !.late = call[c] # Idle]]
    /\ \E late \in 0 .. MaxDelay, t \in 0 .. Period + MaxDelay :
        /\ t \in Elapsed(late)
        /\ delay' = late
        /\ heap' = [o \in Objects |-> Aged(heap[o], t)]
        /\ disk' = [k \in Keys |->
                       IF disk[k] = None \/ disk[k].exp = None THEN disk[k]
                       ELSE [disk[k] EXCEPT !.exp = Aged(@, t)]]
        /\ verdicts' = [s \in Starts |-> 
            [verdicts[s] EXCEPT !.since = IF @ = None THEN None ELSE Later(@, t, MinGap)]]
    /\ pass' = [stage    |-> "run",
                todo     |-> [k \in {x \in Keys : Running(items[x])} |-> items[k]],
                breaches |-> {},
                target   |-> None]
    /\ UNCHANGED <<items, receipts, excused, calls, faults, crashes>>

\* One flag of the list: evaluateOne finds nothing to compare, or the failing
\* arms.  The verdict goes through the pointer, then the record as it was
\* listed is saved.
Unread(k) == [x \in DOMAIN pass.todo \ {k} |-> pass.todo[x]]

Evaluate(k, failing) ==
    /\ pass.stage = "run" /\ call["pass"] = Idle
    /\ k \in DOMAIN pass.todo
    /\ UNCHANGED <<items, disk, delay, receipts, excused, calls, faults, crashes>>
    /\ LET rec == pass.todo[k]
           exp == heap[rec.exp]
           Failed(a) == [key |-> k, arm |-> a, failed |-> a \in exp.failing, gap |-> exp.checked]
       IN /\ pass' = [pass EXCEPT !.todo = Unread(k),
                          !.breaches = @ \cup {Failed(a) : a \in failing}]
          /\ Saving("pass", "status", k, rec)
          /\ verdicts' = [verdicts EXCEPT ![exp.start] =
                [given |-> TRUE, last |-> failing, since |-> 0,
                 twice |-> IF @.since = MinGap THEN @.last \cap failing ELSE {}]]
          /\ Collected([heap EXCEPT ![rec.exp].failing = failing, ![rec.exp].checked = 0])

SkipUnread(k) ==
    /\ pass.stage = "run" /\ call["pass"] = Idle
    /\ k \in DOMAIN pass.todo
    /\ pass' = [pass EXCEPT !.todo = Unread(k)]
    /\ verdicts' = [verdicts EXCEPT ![heap[pass.todo[k].exp].start].given = FALSE]
    /\ UNCHANGED <<items, disk, call, delay, receipts, excused, calls, faults, crashes>>
    /\ Collected(heap)

Evaluated == pass.stage = "run" /\ DOMAIN pass.todo = {} /\ call["pass"] = Idle

\* Mutants: an experiment that has just begun counts; two failures inside one
\* bad minute are enough; the gap must be exceeded.
ConfirmedYoung(b, exp) == b.gap # None /\ b.gap >= MinGap /\ b.failed
ConfirmedTooSoon(b, exp) == exp.age >= Warmup /\ b.gap # None /\ b.failed
ConfirmedStrictly(b, exp) ==
    exp.age >= Warmup /\ b.gap # None /\ b.gap > MinGap /\ b.failed

\* The second consecutive failure of this guardrail and arm, far enough from
\* the first, on an experiment past its warm-up.
ConfirmedBreach(b, exp) ==
    /\ exp.age >= Warmup
    /\ b.gap # None /\ b.gap >= MinGap
    /\ b.failed

Pulls(b) ==
    /\ AutoRevert
    /\ Experiment(b.key) # None
    /\ ~Experiment(b.key).reverted
    /\ ConfirmedBreach(b, Experiment(b.key))

\* applyAutoRevert looks at one breach; the first confirmed one of a flag is
\* the reason.
Decide(b) ==
    /\ Evaluated
    /\ b \in pass.breaches
    /\ pass' = IF Pulls(b)
               THEN [pass EXCEPT !.stage = "pull",
                        !.breaches = {x \in @ : x.key # b.key},
                        !.target = [key |-> b.key, arm |-> b.arm,
                                    start |-> Experiment(b.key).start]]
               ELSE [pass EXCEPT !.breaches = @ \ {b}]
    /\ UNCHANGED <<items, heap, disk, call, delay, verdicts, receipts, excused,
                   calls, faults, crashes>>

EndPass ==
    /\ Evaluated
    /\ pass.breaches = {}
    /\ pass' = PassIdle
    /\ verdicts' = [s \in Starts |-> [verdicts[s] EXCEPT !.twice = {}]]
    /\ UNCHANGED <<items, heap, disk, call, delay, receipts, excused, calls, faults, crashes>>

\* autoRevert: SetEnabled(key, false), and nothing more if that fails.
Pull ==
    /\ pass.stage = "pull" /\ call["pass"] = Idle
    /\ LET k == pass.target.key
       IN IF items[k] = None
          THEN pass' = [pass EXCEPT !.stage = "run"] /\ UNCHANGED call
          ELSE Saving("pass", "disable", k, [items[k] EXCEPT !.on = FALSE]) /\ UNCHANGED pass
    /\ UNCHANGED <<items, heap, disk, delay, verdicts, receipts, excused,
                   calls, faults, crashes>>

\* The flag is read again, the mark goes through the pointer, the record is
\* saved.
Record ==
    /\ pass.stage = "record"
    /\ pass' = [pass EXCEPT !.stage = "receipt"]
    /\ LET k == pass.target.key
       IN IF Experiment(k) = None
          THEN UNCHANGED <<heap, call>>
          ELSE /\ heap' = [heap EXCEPT ![items[k].exp].reverted = TRUE]
               /\ Saving("pass", "reason", k, items[k])
    /\ UNCHANGED <<items, disk, delay, verdicts, receipts, excused, calls, faults, crashes>>

\* The receipt goes into the event log; a failure is logged and forgotten.
Receipt ==
    /\ pass.stage = "receipt" /\ call["pass"] = Idle
    /\ \/ receipts' = [receipts EXCEPT ![pass.target.start] = @ + 1] /\ UNCHANGED faults
       \/ faults + crashes < MaxFaults /\ faults' = faults + 1 /\ UNCHANGED receipts
    /\ pass' = [pass EXCEPT !.stage = "run", !.target = None]
    /\ UNCHANGED <<items, heap, disk, call, delay, verdicts, excused, calls, crashes>>

-----------------------------------------------------------------------------
\* A restart loads what the file holds, at addresses of its own.

Home == CHOOSE at \in [Keys -> Objects] : \A j, k \in Keys : at[j] = at[k] => j = k

StartsOf(image) ==
    {image[k].exp.start : k \in {x \in Keys : image[x] # None /\ image[x].exp # None}} \ {None}

Restart ==
    /\ faults + crashes < MaxFaults
    /\ crashes' = crashes + 1
    /\ items' = [k \in Keys |->
                    IF disk[k] = None THEN None
                    ELSE [on |-> disk[k].on, exp |-> IF disk[k].exp = None THEN None ELSE Home[k]]]
    /\ heap' = [o \in Objects |->
                   IF \E k \in Keys : Home[k] = o /\ disk[k] # None /\ disk[k].exp # None
                   THEN disk[CHOOSE k \in Keys : Home[k] = o].exp
                   ELSE Blank]
    /\ call' = [c \in Callers |-> Idle]
    /\ pass' = PassIdle
    /\ delay' = None
    /\ excused' = IF disk = Image(items, heap)
                  THEN excused
                  ELSE excused \cup StartsOf(disk) \cup StartsOf(Image(items, heap))
    /\ UNCHANGED <<disk, verdicts, receipts, calls, faults>>

-----------------------------------------------------------------------------
Init ==
    /\ items = [k \in Keys |-> None]
    /\ heap = [o \in Objects |-> Blank]
    /\ disk = [k \in Keys |-> None]
    /\ call = [c \in Callers |-> Idle]
    /\ pass = PassIdle
    /\ delay = None
    /\ verdicts = [s \in Starts |->
          [given |-> FALSE, last |-> {}, since |-> None, twice |-> {}]]
    /\ receipts = [s \in Starts |-> 0]
    /\ excused = {}
    /\ calls = 0
    /\ faults = 0
    /\ crashes = 0

Operate(c, k) ==
    \/ \E on \in BOOLEAN : Create(c, k, on) \/ SetEnabled(c, k, on)
    \/ \E p \in Plans : CreateExperiment(c, k, p)
    \/ \E p \in Plans, start \in BOOLEAN : ExperimentPlan(c, k, p, start)
    \/ Delete(c, k)

RequestStep(c) == Check(c) \/ Write(c) \/ WriteFails(c)

SafetyStep ==
    \/ RequestStep("pass")
    \/ StartPass \/ EndPass
    \/ \E k \in Keys : SkipUnread(k) \/ \E failing \in SUBSET Arms : Evaluate(k, failing)
    \/ \E b \in pass.breaches : Decide(b)
    \/ Pull \/ Record \/ Receipt

Next ==
    \/ \E c \in Operators, k \in Keys : Operate(c, k)
    \/ \E c \in Operators : RequestStep(c)
    \/ SafetyStep
    \/ Restart

\* The safety loop is a goroutine of its own and its ticker never stops; a
\* request that has read a flag returns.
Spec ==
    /\ Init /\ [][Next]_vars
    /\ WF_vars(SafetyStep)
    /\ \A c \in Operators : WF_vars(RequestStep(c))
-----------------------------------------------------------------------------
\* Properties.

\* The variables hold values of their types.
TypeOK ==
    /\ items \in [Keys -> RecordType \cup {None}]
    /\ heap \in [Objects -> ExperimentType]
    /\ disk \in [Keys -> StoredType \cup {None}]
    /\ call \in [Callers ->
           [at : {"idle", "check", "write"},
            op : {"none", "create", "switch", "start", "plan", "status", "disable", "reason"},
            key : Keys \cup {None}, rec : RecordType \cup {None}, prev : RecordType \cup {None},
            late : BOOLEAN]]
    /\ pass.stage \in {"idle", "run", "pull", "record", "receipt"}
    /\ DOMAIN pass.todo \subseteq Keys
    /\ delay \in 0 .. MaxDelay \cup {None}
    /\ receipts \in [Starts -> Nat]
    /\ excused \subseteq Starts

PastWarmup(s) == \A o \in Objects : heap[o].start = s => heap[o].age >= Warmup

\* While a flag is pulled, every copy of the experiment it is pulled for is past
\* its warm-up: no edit, restart or racing save makes a new experiment inherit
\* the age of another.  And it is pulled only for a guardrail and arm that
\* failed in this evaluation and in the one before it, at least MinGap earlier
\* (auto_revert.go:54, "the SECOND consecutive one ... far enough apart"), and
\* at most once, so that a human who turns it on again is not overruled
\* (auto_revert.go:124); these two unless a verdict in between was overwritten
\* or lost in a restart, or a racing save has put the experiment back on its
\* flag.
RevertJustified ==
    /\ pass.stage \in {"pull", "record", "receipt"} =>
           /\ PastWarmup(pass.target.start)
           /\ \/ pass.target.start \in excused
              \/ pass.target.arm \in verdicts[pass.target.start].twice
    /\ \A s \in Starts \ excused : receipts[s] <= 1

\* A running plan is removed, re-dated or re-aimed only by a caller whose
\* validation another write has overtaken.
LockHolds ==
    [][\A k \in Keys :
        /\ Experiment(k) # None /\ Experiment(k).start # None
        /\ items'[k] # None
        /\ LET new == Experiment(k)'
           IN new = None \/ new.start # Experiment(k).start \/ new.plan # Experiment(k).plan
        => \E c \in Callers :
              /\ call[c].at = "write" /\ call[c].key = k
              /\ call[c].prev # items[k]]_vars

\* While no write has failed, the file holds what memory holds, but for a
\* verdict or a mark the pass is about to save.
MemoryMatchesDisk ==
    faults = 0 /\ call["pass"].at = "idle" => disk = Image(items, heap)

\* Always revert something that is hurting (auto_revert.go:20): an experiment
\* that goes on failing on one arm is pulled in the end, however the ticks
\* jitter, though writes fail and the process restarts.
Hurting(k, a) ==
    /\ Experiment(k) # None
    /\ Experiment(k).start # None
    /\ Experiment(k).plan \in Guarded
    /\ verdicts[Experiment(k).start].given
    /\ a \in verdicts[Experiment(k).start].last

HurtingIsPulled ==
    \A k \in Keys, a \in Arms : <>[]Hurting(k, a) => <>(Experiment(k) # None /\ Experiment(k).reverted)

\* The pass is a pure read plus a status write (guardrail_eval.go:37): saving a
\* verdict neither turns a flag on or off nor brings a deleted one back.
PassOnlyWritesStatus ==
    [][call["pass"].op = "status" /\ call'["pass"] # call["pass"] =>
        \A k \in Keys :
            /\ (items[k] = None) = (items'[k] = None)
            /\ items[k] # None => items'[k].on = items[k].on]_vars
=============================================================================

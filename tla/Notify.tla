-------------------------------- MODULE Notify --------------------------------
(***************************************************************************)
(* What smolanalytics says without being asked: the alerts and anomalies   *)
(* of internal/api/api.go, evaluated by the safety pass, and the webhook   *)
(* endpoints of internal/webhook/webhook.go that carry them.               *)
(*                                                                         *)
(* One goroutine evaluates.  DeliverAll starts one goroutine per enabled   *)
(* endpoint and does not wait: a delivery makes up to MaxAttempts requests *)
(* and then records the outcome on whatever the endpoint has become.       *)
(*                                                                         *)
(* Time moves when a pass starts; an age stops at the largest the code     *)
(* compares with.  A record is "none" before it is added, "live", or       *)
(* "gone"; ids are never used twice.                                       *)
(***************************************************************************)
EXTENDS Naturals, FiniteSetsExt, Functions

CONSTANTS
    Alerts,         \* alert ids
    Endpoints,      \* webhook ids
    Titles,         \* titles of anomaly findings
    Jobs,           \* bound: deliveries in flight
    Window,         \* an alert's window, in passes
    Day,            \* 24 hours, in passes
    MaxAttempts,    \* webhook.maxAttempts
    MaxFailures,    \* webhook.maxFailures
    MaxAnomalies,   \* anomalies sent in a day
    MaxChanges,     \* bound: requests of the operator
    MaxFaults,      \* bound: failed writes of a file
    MaxCrashes,     \* bound: restarts
    None            \* the zero time, no delivery

ASSUME NotifyAssumption ==
    /\ {Window, Day, MaxAttempts, MaxFailures, MaxAnomalies} \subseteq Nat \ {0}
    /\ {MaxChanges, MaxFaults, MaxCrashes} \subseteq Nat
    /\ None \notin Nat \cup [alert : Alerts, fired : BOOLEAN]

VARIABLES
    alerts,     \* alert.Store.items: id -> [status, fired], fired the age of LastFired
    alertFile,  \* the alerts file
    eps,        \* webhook.Store.items: id -> [status, on, failures]
    epFile,     \* the webhooks file
    anomalies,  \* Server.anomalyFired: title -> age
    jobs,       \* deliveries in flight: nil or [ep, attempt]
    pass,       \* EvaluateAlerts: its stage, the alerts listed and not yet
                \* evaluated, and the one whose check is to be recorded
    \* bookkeeping
    sent,       \* alert -> age of its last DeliverAll
    unsaved,    \* endpoints whose change in memory a failed write left out of the file
    changes, faults, crashes

hooks  == <<eps, epFile, unsaved>>
stores == <<alerts, alertFile, hooks>>
vars   == <<stores, anomalies, jobs, pass, sent, changes, faults, crashes>>

-----------------------------------------------------------------------------
Older(age, most) == IF age = None THEN None ELSE IF age = most THEN most ELSE age + 1

\* The file follows, or the write fails and nobody is told.
Saved(file, items) ==
    \/ file' = items /\ UNCHANGED faults
    \/ faults < MaxFaults /\ faults' = faults + 1 /\ UNCHANGED file

\* The webhooks file, after a change of endpoint e.
EndpointSaved(e) ==
    /\ Saved(epFile, eps')
    /\ unsaved' = IF epFile' = eps' THEN {} ELSE unsaved \cup {e}

\* DeliverAll: one delivery for every endpoint that is on now.
On == {e \in Endpoints : eps[e].status = "live" /\ eps[e].on}

Job(e) == [ep |-> e, attempt |-> 0]

DeliverAll ==
    \E at \in [On -> Jobs] :
        /\ \A e \in On : jobs[at[e]] = None
        /\ \A d, e \in On : at[d] = at[e] => d = e
        /\ \A e \in On, j \in Jobs : j < at[e] /\ jobs[j] = None => \E d \in On : at[d] = j
        /\ jobs' = [j \in Jobs |->
                       IF \E e \in On : at[e] = j THEN Job(CHOOSE e \in On : at[e] = j)
                       ELSE jobs[j]]

-----------------------------------------------------------------------------
\* EvaluateAlerts.

PassIdle == [stage |-> "idle", todo |-> {}, checked |-> None]

\* The tick.
StartPass ==
    /\ pass.stage = "idle"
    /\ alerts' = [a \in Alerts |-> [alerts[a] EXCEPT !.fired = Older(@, Window)]]
    /\ alertFile' = [a \in Alerts |-> [alertFile[a] EXCEPT !.fired = Older(@, Window)]]
    /\ sent' = [a \in Alerts |-> Older(sent[a], Window)]
    /\ anomalies' = [t \in Titles |-> Older(anomalies[t], Day)]
    /\ pass' = [PassIdle EXCEPT !.stage = "anomalies"]
    /\ UNCHANGED <<hooks, jobs, changes, faults, crashes>>

Fresh(t) == anomalies[t] # None /\ anomalies[t] < Day

SendsAnomaly(t) ==
    /\ Cardinality({u \in Titles : Fresh(u)}) < MaxAnomalies
    /\ ~Fresh(t)

\* evaluateAnomalies sends one warning of the verdict engine.
EvaluateAnomaly(t) ==
    /\ pass.stage = "anomalies"
    /\ SendsAnomaly(t)
    /\ anomalies' = [anomalies EXCEPT ![t] = 0]
    /\ DeliverAll
    /\ UNCHANGED <<stores, pass, sent, changes, faults, crashes>>

\* The alerts as they are now.
Listed == {a \in Alerts : alerts[a].status = "live"}

ListAlerts ==
    /\ pass.stage = "anomalies"
    /\ pass' = IF Listed = {} THEN PassIdle ELSE [PassIdle EXCEPT !.stage = "alerts", !.todo = Listed]
    /\ UNCHANGED <<stores, anomalies, jobs, sent, changes, faults, crashes>>

\* Mutants: the cool-down is ignored; an alert fires once.
FiresAgain(a, met) == met
FiresOnce(a, met) == met /\ alerts[a].fired = None

\* The alert as it was when the pass listed it: nobody else writes LastFired.
Fires(a, met) == met /\ (alerts[a].fired = None \/ alerts[a].fired >= Window)

\* evalAlert finds the condition met or not; a payload that fires is handed over.
Evaluate(a, met) ==
    /\ a \in pass.todo /\ pass.checked = None
    /\ pass' = [pass EXCEPT !.todo = @ \ {a}, !.checked = [alert |-> a, fired |-> Fires(a, met)]]
    /\ IF Fires(a, met)
       THEN DeliverAll /\ sent' = [sent EXCEPT ![a] = 0]
       ELSE UNCHANGED <<jobs, sent>>
    /\ UNCHANGED <<stores, anomalies, changes, faults, crashes>>

Stamp(a, fired) == IF alerts[a].status = "live" /\ fired THEN 0 ELSE alerts[a].fired

\* By id: a deleted alert stays deleted, and nothing is written.
SetChecked ==
    /\ pass.checked # None
    /\ LET a == pass.checked.alert
       IN /\ alerts' = [alerts EXCEPT ![a].fired = Stamp(a, pass.checked.fired)]
          /\ IF alerts[a].status = "live"
             THEN Saved(alertFile, alerts')
             ELSE UNCHANGED <<alertFile, faults>>
    /\ pass' = IF pass.todo = {} THEN PassIdle ELSE [pass EXCEPT !.checked = None]
    /\ UNCHANGED <<hooks, anomalies, jobs, sent, changes, crashes>>

-----------------------------------------------------------------------------
\* Deliveries.

\* Mutants: a success turns the endpoint on; the count stops one short of the
\* limit.
OutcomeEnables(ep, ok) ==
    IF ok THEN [ep EXCEPT !.failures = 0, !.on = TRUE]
    ELSE [ep EXCEPT !.failures = @ + 1, !.on = @ /\ ep.failures + 1 < MaxFailures]
OutcomeNeverPauses(ep, ok) ==
    [ep EXCEPT !.failures = IF ok THEN 0 ELSE IF @ + 1 = MaxFailures THEN @ ELSE @ + 1]

\* recordDelivery, on what the endpoint has become: too many failures in a row
\* turn it off.
Outcome(ep, ok) ==
    IF ep.status # "live" THEN ep
    ELSE IF ok THEN [ep EXCEPT !.failures = 0]
    ELSE [ep EXCEPT !.failures = IF @ > MaxFailures THEN @ ELSE @ + 1,
                    !.on = @ /\ ep.failures + 1 < MaxFailures]

\* A yes, a definite no (a 4xx other than 429), or the last of the attempts.
LastAttempt(j, answer) == answer # "fails" \/ jobs[j].attempt + 1 = MaxAttempts

\* A request returns; the last one of a delivery is recorded.
Deliver(j, answer) ==
    /\ jobs[j] # None
    /\ LET e == jobs[j].ep
       IN IF LastAttempt(j, answer)
          THEN /\ jobs' = [jobs EXCEPT ![j] = None]
               /\ eps' = [eps EXCEPT ![e] = Outcome(@, answer = "ok")]
               /\ IF eps[e].status = "live"
                  THEN EndpointSaved(e)
                  ELSE UNCHANGED <<epFile, unsaved, faults>>
          ELSE /\ jobs' = [jobs EXCEPT ![j].attempt = @ + 1]
               /\ UNCHANGED <<hooks, faults>>
    /\ UNCHANGED <<alerts, alertFile, anomalies, pass, sent, changes, crashes>>

-----------------------------------------------------------------------------
\* The operator.  Adding and deleting roll back when the file cannot be
\* written; pausing does not.

Changes == changes < MaxChanges /\ changes' = changes + 1

Stored(items, file, new) ==
    \/ items' = new /\ file' = new /\ UNCHANGED faults
    \/ faults < MaxFaults /\ faults' = faults + 1 /\ UNCHANGED <<items, file>>

ChangeAlert(a, from, to) ==
    /\ alerts[a].status = from
    /\ Stored(alerts, alertFile, [alerts EXCEPT ![a].status = to])
    /\ UNCHANGED <<hooks, anomalies, jobs, pass, sent, crashes>>

ChangeEndpoint(e, from, to) ==
    /\ eps[e].status = from
    /\ Stored(eps, epFile, [eps EXCEPT ![e].status = to])
    /\ unsaved' = IF epFile' = eps' THEN {} ELSE unsaved
    /\ UNCHANGED <<alerts, alertFile, anomalies, jobs, pass, sent, crashes>>

AddAlert(a) == ChangeAlert(a, "none", "live") /\ UNCHANGED changes
DeleteAlert(a) == ChangeAlert(a, "live", "gone") /\ Changes
AddEndpoint(e) == ChangeEndpoint(e, "none", "live") /\ UNCHANGED changes
DeleteEndpoint(e) == ChangeEndpoint(e, "live", "gone") /\ Changes

\* Turning an endpoint on says that its receiver is fixed.
Switched(ep, on) == [ep EXCEPT !.on = on, !.failures = IF on THEN 0 ELSE @]

SetEnabled(e, on) ==
    /\ Changes
    /\ eps[e].status = "live"
    /\ eps' = [eps EXCEPT ![e] = Switched(@, on)]
    /\ EndpointSaved(e)
    /\ UNCHANGED <<alerts, alertFile, anomalies, jobs, pass, sent, crashes>>

-----------------------------------------------------------------------------
\* The process.

\* Deliveries in flight and the anomalies already sent are forgotten.
Restart ==
    /\ crashes < MaxCrashes
    /\ crashes' = crashes + 1
    /\ alerts' = alertFile
    /\ eps' = epFile
    /\ jobs' = [j \in Jobs |-> None]
    /\ anomalies' = [t \in Titles |-> None]
    /\ pass' = PassIdle
    /\ unsaved' = {}
    /\ sent' = [a \in Alerts |-> IF alertFile[a].fired = sent[a] THEN sent[a] ELSE None]
    /\ UNCHANGED <<alertFile, epFile, changes, faults>>

-----------------------------------------------------------------------------
Init ==
    /\ alerts = [a \in Alerts |-> [status |-> "none", fired |-> None]]
    /\ alertFile = alerts
    /\ eps = [e \in Endpoints |-> [status |-> "none", on |-> TRUE, failures |-> 0]]
    /\ epFile = eps
    /\ anomalies = [t \in Titles |-> None]
    /\ jobs = [j \in Jobs |-> None]
    /\ pass = PassIdle
    /\ sent = [a \in Alerts |-> None]
    /\ unsaved = {}
    /\ changes = 0 /\ faults = 0 /\ crashes = 0

PassStep ==
    \/ StartPass \/ ListAlerts \/ SetChecked
    \/ \E t \in Titles : EvaluateAnomaly(t)
    \/ \E a \in Alerts, met \in BOOLEAN : Evaluate(a, met)

DeliveryStep(j) == \E answer \in {"ok", "refuses", "fails"} : Deliver(j, answer)

Operate ==
    \/ \E a \in Alerts : AddAlert(a) \/ DeleteAlert(a)
    \/ \E e \in Endpoints : AddEndpoint(e) \/ DeleteEndpoint(e)
    \/ \E e \in Endpoints, on \in BOOLEAN : SetEnabled(e, on)

Next ==
    \/ PassStep
    \/ \E j \in Jobs : DeliveryStep(j)
    \/ Operate
    \/ Restart

\* The safety loop and every delivery are goroutines of their own; a request
\* times out.
Spec ==
    /\ Init /\ [][Next]_vars
    /\ WF_vars(PassStep)
    /\ \A j \in Jobs : WF_vars(DeliveryStep(j))
-----------------------------------------------------------------------------
\* Properties.

\* The variables hold values of their types.
TypeOK ==
    /\ \A s \in {alerts, alertFile} :
           s \in [Alerts -> [status : {"none", "live", "gone"}, fired : 0 .. Window \cup {None}]]
    /\ \A s \in {eps, epFile} :
           s \in [Endpoints -> [status : {"none", "live", "gone"}, on : BOOLEAN,
                                failures : 0 .. MaxFailures + 1]]
    /\ anomalies \in [Titles -> 0 .. Day \cup {None}]
    /\ jobs \in [Jobs -> [ep : Endpoints, attempt : 0 .. MaxAttempts - 1] \cup {None}]
    /\ pass.stage \in {"idle", "anomalies", "alerts"}
    /\ pass.todo \subseteq Alerts
    /\ unsaved \subseteq Endpoints

\* An alert is not sent twice within its window, across restarts too, unless
\* the first firing never reached the file (api.go:274).
CoolsDown ==
    [][\A a \in Alerts : sent'[a] = 0 /\ sent[a] # 0 => sent[a] \in {None, Window}]_vars

\* Only the operator turns an endpoint on, and what was deleted stays deleted:
\* no late outcome of an old delivery and no check of a pass in flight undoes a
\* decision (webhook.go:421, webhook.go:444, alert.go:135).  Nor does a restart,
\* unless the write of that very switch failed (webhook.go:433, webhook.go:458)
\* and no later one has written the file.
OperatorDecides ==
    [][/\ \A a \in Alerts : alerts[a].status = "gone" => alerts'[a].status = "gone"
       /\ \A e \in Endpoints :
              /\ eps[e].status = "gone" => eps'[e].status = "gone"
              /\ ~eps[e].on /\ eps'[e].on => changes' > changes \/ (crashes' > crashes /\ e \in unsaved)]_vars

\* The condition is not met when the alert could fire.
Spares(a) == Fires(a, TRUE) /\ Evaluate(a, FALSE)

Posts(e, answer) == \E j \in Jobs : jobs[j] # None /\ jobs[j].ep = e /\ Deliver(j, answer)

\* An alert whose condition goes on being met keeps being posted to an endpoint
\* that stays on.
KeepsTelling ==
    \A a \in Alerts, e \in Endpoints :
        <>[](alerts[a].status = "live" /\ e \in On) /\ <>[][~Spares(a)]_vars
        => []<><<\E answer \in {"ok", "refuses", "fails"} : Posts(e, answer)>>_vars

\* An endpoint that has stopped answering is turned off in the end, rather than
\* posted to for ever (webhook.go:373).
BrokenIsPaused ==
    \A a \in Alerts, e \in Endpoints :
        /\ <>[](alerts[a].status = "live" /\ eps[e].status = "live")
        /\ <>[][~Spares(a)]_vars
        /\ <>[][~Posts(e, "ok")]_vars
        => <>(~eps[e].on)
=============================================================================

----------------------------- MODULE NotifyProofs -----------------------------
(***************************************************************************)
(* Alerts cool down and the operator has the last word: for every number   *)
(* of alerts, endpoints and deliveries in flight, every limit, and any     *)
(* number of requests, failed writes and restarts.                         *)
(***************************************************************************)
EXTENDS Notify, TLAPS

-----------------------------------------------------------------------------
\* The inductive invariant.

Statuses == {"none", "live", "gone"}

AlertType == [Alerts -> [status : Statuses, fired : 0 .. Window \cup {None}]]

EndpointType == [Endpoints -> [status : Statuses, on : BOOLEAN, failures : 0 .. MaxFailures + 1]]

JobType == [ep : Endpoints, attempt : 0 .. MaxAttempts - 1]

TypeInv ==
    /\ alerts \in AlertType /\ alertFile \in AlertType
    /\ eps \in EndpointType /\ epFile \in EndpointType
    /\ anomalies \in [Titles -> 0 .. Day \cup {None}]
    /\ jobs \in [Jobs -> JobType \cup {None}]
    /\ pass \in [stage : {"idle", "anomalies", "alerts"}, todo : SUBSET Alerts,
                 checked : [alert : Alerts, fired : BOOLEAN] \cup {None}]
    /\ sent \in [Alerts -> 0 .. Window \cup {None}]
    /\ unsaved \subseteq Endpoints
    /\ changes \in Nat /\ crashes \in Nat

\* What no failed write has left out is in the file.
FileFollows == \A e \in Endpoints \ unsaved : epFile[e] = eps[e]

\* The files may miss a stamp or a switch, never an addition or a deletion.
SameStatus ==
    /\ \A a \in Alerts : alertFile[a].status = alerts[a].status
    /\ \A e \in Endpoints : epFile[e].status = eps[e].status

\* Only a pass in its second half has alerts to evaluate or a check to record.
PassInv == pass.stage # "alerts" => pass.todo = {} /\ pass.checked = None

\* The check to be recorded says that a fired.
Due(a) == pass.checked # None /\ pass.checked.alert = a /\ pass.checked.fired

\* An alert's last firing is on its stamp, about to be stamped, or that of a deleted alert,
\* which no pass will evaluate again.
Stamped(a) ==
    /\ Due(a) => sent[a] = 0 /\ a \notin pass.todo
    /\ \/ sent[a] = None
       \/ sent[a] = alerts[a].fired
       \/ Due(a)
       \/ alerts[a].status = "gone" /\ a \notin pass.todo

\* An alert not yet added has never been sent or listed.
Unborn(a) ==
    alerts[a].status = "none" =>
        sent[a] = None /\ a \notin pass.todo /\ (pass.checked = None \/ pass.checked.alert # a)

StampInv == \A a \in Alerts : Stamped(a) /\ Unborn(a)

IInv == TypeInv /\ SameStatus /\ FileFollows /\ PassInv /\ StampInv

-----------------------------------------------------------------------------
\* Types.

\* The limits are positive numbers, and the zero time is no age.
LEMMA Numbers ==
    /\ Window \in Nat \ {0} /\ Day \in Nat \ {0} /\ MaxAttempts \in Nat \ {0}
    /\ MaxFailures \in Nat \ {0} /\ MaxAnomalies \in Nat \ {0}
    /\ MaxChanges \in Nat /\ MaxFaults \in Nat /\ MaxCrashes \in Nat
    /\ None \notin Nat /\ None \notin [alert : Alerts, fired : BOOLEAN]
BY NotifyAssumption

\* An age grows up to its limit, and never to zero.
LEMMA OlderType ==
    ASSUME NEW most \in Nat \ {0}, NEW age \in 0 .. most \cup {None}
    PROVE  Older(age, most) \in 0 .. most \cup {None} /\ Older(age, most) # 0
BY Numbers DEF Older

\* What an outcome leaves of an endpoint is an endpoint, of the same status, and on only if it
\* was on.
LEMMA OutcomeType ==
    ASSUME NEW ep \in [status : Statuses, on : BOOLEAN, failures : 0 .. MaxFailures + 1],
           NEW ok
    PROVE  /\ Outcome(ep, ok) \in [status : Statuses, on : BOOLEAN, failures : 0 .. MaxFailures + 1]
           /\ Outcome(ep, ok).status = ep.status
           /\ Outcome(ep, ok).on => ep.on
<1>1. CASE ep.status # "live"
  BY <1>1 DEF Outcome
<1>2. CASE ep.status = "live" /\ ok
  BY <1>2, Numbers DEF Outcome
<1>3. CASE ep.status = "live" /\ ~ok
  <2> DEFINE failures == IF ep.failures > MaxFailures THEN ep.failures ELSE ep.failures + 1
             on       == ep.on /\ ep.failures + 1 < MaxFailures
  <2>1. Outcome(ep, ok) = [ep EXCEPT !.failures = failures, !.on = on]
    BY <1>3 DEF Outcome
  <2>2. failures \in 0 .. MaxFailures + 1 /\ on \in BOOLEAN /\ (on => ep.on)
    BY Numbers
  <2> HIDE DEF failures, on
  <2>3. QED
    BY <2>1, <2>2
<1>4. QED
  BY <1>1, <1>2, <1>3

\* An endpoint that is switched keeps its status.
LEMMA SwitchedType ==
    ASSUME NEW ep \in [status : Statuses, on : BOOLEAN, failures : 0 .. MaxFailures + 1],
           NEW on \in BOOLEAN
    PROVE  /\ Switched(ep, on) \in [status : Statuses, on : BOOLEAN, failures : 0 .. MaxFailures + 1]
           /\ Switched(ep, on).status = ep.status
<1> DEFINE failures == IF on THEN 0 ELSE ep.failures
<1>1. Switched(ep, on) = [ep EXCEPT !.on = on, !.failures = failures]
  BY DEF Switched
<1>2. failures \in 0 .. MaxFailures + 1
  BY Numbers
<1> HIDE DEF failures
<1>3. QED
  BY <1>1, <1>2

\* Handing a payload over starts deliveries.
LEMMA DeliverAllType == ASSUME TypeInv, DeliverAll PROVE jobs' \in [Jobs -> JobType \cup {None}]
<1>1. PICK at \in [On -> Jobs] :
          jobs' = [j \in Jobs |->
                      IF \E e \in On : at[e] = j THEN Job(CHOOSE e \in On : at[e] = j)
                      ELSE jobs[j]]
  BY DEF DeliverAll
<1>2. \A e \in On : Job(e) \in JobType
  BY Numbers DEF On, Job, JobType
<1>3. ASSUME NEW j \in Jobs, \E e \in On : at[e] = j
      PROVE  Job(CHOOSE e \in On : at[e] = j) \in JobType
  BY <1>2, <1>3
<1>4. \A j \in Jobs : jobs[j] \in JobType \cup {None}
  BY DEF TypeInv
<1>5. QED
  BY <1>1, <1>3, <1>4

\* A change of one endpoint is in the file with all that came before, or noted as left out.
LEMMA EndpointFollows ==
    ASSUME NEW e \in Endpoints, NEW ep, eps \in EndpointType, eps' = [eps EXCEPT ![e] = ep],
           EndpointSaved(e), FileFollows
    PROVE  FileFollows'
<1>1. CASE epFile' = eps'
  BY <1>1 DEF FileFollows
<1>2. CASE epFile' # eps'
  <2>1. epFile' = epFile /\ unsaved' = unsaved \cup {e}
    BY <1>2 DEF EndpointSaved, Saved
  <2>2. \A d \in Endpoints \ unsaved' : d # e /\ d \notin unsaved
    BY <2>1
  <2>3. \A d \in Endpoints : d # e => eps'[d] = eps[d]
    BY DEF EndpointType
  <2>4. QED
    BY <2>1, <2>2, <2>3 DEF FileFollows
<1>3. QED
  BY <1>1, <1>2

\* An answer is recorded on the endpoint, or asks for another attempt.
LEMMA DeliverType ==
    ASSUME TypeInv, NEW j \in Jobs, NEW answer, Deliver(j, answer)
    PROVE  /\ jobs' \in [Jobs -> JobType \cup {None}]
           /\ eps' \in EndpointType /\ epFile' \in EndpointType /\ unsaved' \subseteq Endpoints
           /\ \A e \in Endpoints : /\ eps'[e].status = eps[e].status
                                   /\ epFile'[e].status \in {eps[e].status, epFile[e].status}
                                   /\ eps'[e].on => eps[e].on
           /\ FileFollows => FileFollows'
           /\ UNCHANGED <<alerts, alertFile, anomalies, pass, sent, changes, crashes>>
<1>1. jobs[j] \in JobType /\ UNCHANGED <<alerts, alertFile, anomalies, pass, sent, changes, crashes>>
  BY DEF TypeInv, Deliver
<1>2. CASE LastAttempt(j, answer)
  <2> DEFINE e == jobs[j].ep
  <2>1. e \in Endpoints
    BY <1>1 DEF JobType
  <2>2. /\ jobs' = [jobs EXCEPT ![j] = None]
        /\ eps' = [eps EXCEPT ![e] = Outcome(eps[e], answer = "ok")]
        /\ epFile' \in {epFile, eps'}
        /\ unsaved' \in {unsaved, unsaved \cup {e}, {}}
    BY <1>2 DEF Deliver, Saved, EndpointSaved
  <2>3. /\ eps[e] \in [status : Statuses, on : BOOLEAN, failures : 0 .. MaxFailures + 1]
        /\ eps \in EndpointType /\ epFile \in EndpointType
    BY <2>1 DEF TypeInv, EndpointType
  <2>4. /\ Outcome(eps[e], answer = "ok")
                \in [status : Statuses, on : BOOLEAN, failures : 0 .. MaxFailures + 1]
        /\ Outcome(eps[e], answer = "ok").status = eps[e].status
        /\ Outcome(eps[e], answer = "ok").on => eps[e].on
    BY <2>3, OutcomeType
  <2> HIDE DEF e
  <2>5. /\ eps' \in EndpointType
        /\ \A d \in Endpoints : eps'[d].status = eps[d].status /\ (eps'[d].on => eps[d].on)
    BY <2>1, <2>2, <2>3, <2>4 DEF EndpointType
  <2>6. jobs' \in [Jobs -> JobType \cup {None}]
    BY <2>2 DEF TypeInv
  <2>7. FileFollows => FileFollows'
    <3>1. CASE eps[e].status = "live"
      BY <1>2, <2>1, <2>2, <2>3, <3>1, EndpointFollows DEF Deliver, e
    <3>2. CASE eps[e].status # "live"
      <4>1. eps' = eps /\ UNCHANGED <<epFile, unsaved>>
        BY <1>2, <2>2, <2>3, <3>2 DEF Deliver, Outcome, EndpointType, e
      <4>2. QED
        BY <4>1 DEF FileFollows
    <3>3. QED
      BY <3>1, <3>2
  <2>8. QED
    BY <1>1, <2>1, <2>2, <2>3, <2>5, <2>6, <2>7 DEF TypeInv
<1>3. CASE ~LastAttempt(j, answer)
  <2>1. /\ jobs' = [jobs EXCEPT ![j].attempt = jobs[j].attempt + 1]
        /\ UNCHANGED <<eps, epFile, unsaved>>
    BY <1>3 DEF Deliver, hooks
  <2>2. jobs[j].attempt + 1 \in 0 .. MaxAttempts - 1
    BY <1>1, <1>3, Numbers DEF JobType, LastAttempt
  <2>3. jobs' \in [Jobs -> JobType \cup {None}]
    BY <1>1, <2>1, <2>2 DEF TypeInv, JobType
  <2>4. QED
    BY <1>1, <2>1, <2>3 DEF TypeInv, FileFollows
<1>4. QED
  BY <1>2, <1>3

\* The operator adds or deletes an alert, in memory and in the file or in neither.
LEMMA ChangeAlertType ==
    ASSUME TypeInv, NEW a \in Alerts, NEW from \in Statuses, NEW to \in Statuses,
           ChangeAlert(a, from, to)
    PROVE  /\ alerts' \in AlertType /\ alertFile' \in AlertType
           /\ \/ UNCHANGED <<alerts, alertFile>>
              \/ /\ alerts[a].status = from
                 /\ alerts' = [alerts EXCEPT ![a].status = to]
                 /\ alertFile' = alerts'
           /\ UNCHANGED <<eps, epFile, unsaved, anomalies, jobs, pass, sent, crashes>>
<1>1. /\ alerts[a].status = from
      /\ UNCHANGED <<eps, epFile, unsaved, anomalies, jobs, pass, sent, crashes>>
      /\ \/ alerts' = [alerts EXCEPT ![a].status = to] /\ alertFile' = alerts'
         \/ UNCHANGED <<alerts, alertFile>>
  BY DEF ChangeAlert, Stored, hooks
<1>2. alerts \in AlertType /\ alertFile \in AlertType
  BY DEF TypeInv
<1>3. [alerts EXCEPT ![a].status = to] \in AlertType
  BY <1>2 DEF AlertType
<1>4. QED
  BY <1>1, <1>2, <1>3

\* The operator adds or deletes an endpoint.
LEMMA ChangeEndpointType ==
    ASSUME TypeInv, NEW e \in Endpoints, NEW from \in Statuses, NEW to \in Statuses,
           ChangeEndpoint(e, from, to)
    PROVE  /\ eps' \in EndpointType /\ epFile' \in EndpointType /\ unsaved' \subseteq Endpoints
           /\ FileFollows => FileFollows'
           /\ \/ UNCHANGED <<eps, epFile>>
              \/ /\ eps[e].status = from
                 /\ eps' = [eps EXCEPT ![e].status = to]
                 /\ epFile' = eps'
           /\ UNCHANGED <<alerts, alertFile, anomalies, jobs, pass, sent, crashes>>
<1>1. /\ eps[e].status = from
      /\ UNCHANGED <<alerts, alertFile, anomalies, jobs, pass, sent, crashes>>
      /\ \/ eps' = [eps EXCEPT ![e].status = to] /\ epFile' = eps'
         \/ UNCHANGED <<eps, epFile>>
      /\ unsaved' = IF epFile' = eps' THEN {} ELSE unsaved
  BY DEF ChangeEndpoint, Stored
<1>2. eps \in EndpointType /\ epFile \in EndpointType /\ unsaved \subseteq Endpoints
  BY DEF TypeInv
<1>3. [eps EXCEPT ![e].status = to] \in EndpointType
  BY <1>2 DEF EndpointType
<1>4. FileFollows => FileFollows'
  BY <1>1 DEF FileFollows
<1>5. QED
  BY <1>1, <1>2, <1>3, <1>4

\* What the operator does: one of three kinds of change, each of which is counted unless it
\* adds something.
LEMMA OperateCases ==
    ASSUME Operate
    PROVE  \/ \E a \in Alerts : \/ ChangeAlert(a, "none", "live") /\ UNCHANGED changes
                                \/ ChangeAlert(a, "live", "gone") /\ changes' = changes + 1
           \/ \E e \in Endpoints : \/ ChangeEndpoint(e, "none", "live") /\ UNCHANGED changes
                                   \/ ChangeEndpoint(e, "live", "gone") /\ changes' = changes + 1
           \/ \E e \in Endpoints, on \in BOOLEAN : SetEnabled(e, on)
BY DEF Operate, AddAlert, DeleteAlert, AddEndpoint, DeleteEndpoint, Changes

\* The operator turns an endpoint on or off.
LEMMA SetEnabledType ==
    ASSUME TypeInv, NEW e \in Endpoints, NEW on \in BOOLEAN, SetEnabled(e, on)
    PROVE  /\ eps' \in EndpointType /\ epFile' \in EndpointType /\ unsaved' \subseteq Endpoints
           /\ FileFollows => FileFollows'
           /\ \A d \in Endpoints : /\ eps'[d].status = eps[d].status
                                   /\ epFile'[d].status \in {eps[d].status, epFile[d].status}
           /\ changes' = changes + 1
           /\ UNCHANGED <<alerts, alertFile, anomalies, jobs, pass, sent, crashes>>
<1>1. /\ changes' = changes + 1
      /\ UNCHANGED <<alerts, alertFile, anomalies, jobs, pass, sent, crashes>>
      /\ eps' = [eps EXCEPT ![e] = Switched(eps[e], on)] /\ epFile' \in {eps', epFile}
      /\ EndpointSaved(e) /\ unsaved' \in {unsaved \cup {e}, {}}
  BY DEF SetEnabled, Changes, EndpointSaved, Saved
<1>2. /\ eps \in EndpointType /\ epFile \in EndpointType /\ unsaved \subseteq Endpoints
      /\ eps[e] \in [status : Statuses, on : BOOLEAN, failures : 0 .. MaxFailures + 1]
  BY DEF TypeInv, EndpointType
<1>3. /\ Switched(eps[e], on) \in [status : Statuses, on : BOOLEAN, failures : 0 .. MaxFailures + 1]
      /\ Switched(eps[e], on).status = eps[e].status
  BY <1>2, SwitchedType
<1>4. eps' \in EndpointType /\ \A d \in Endpoints : eps'[d].status = eps[d].status
  BY <1>1, <1>2, <1>3 DEF EndpointType
<1>5. FileFollows => FileFollows'
  BY <1>1, <1>2, EndpointFollows
<1>6. QED
  BY <1>1, <1>2, <1>4, <1>5

\* The stamp of a check.
LEMMA SetCheckedType ==
    ASSUME TypeInv, SetChecked
    PROVE  /\ alerts' \in AlertType /\ alertFile' \in AlertType
           /\ \A a \in Alerts : /\ alerts'[a].status = alerts[a].status
                                /\ alertFile'[a].status \in {alerts[a].status, alertFile[a].status}
           /\ \A a \in Alerts : alerts'[a].fired =
                  IF a = pass.checked.alert /\ alerts[a].status = "live" /\ pass.checked.fired
                  THEN 0 ELSE alerts[a].fired
           /\ pass.checked \in [alert : Alerts, fired : BOOLEAN]
           /\ pass' = PassIdle \/ (pass.todo # {} /\ pass' = [pass EXCEPT !.checked = None])
           /\ UNCHANGED <<eps, epFile, unsaved, anomalies, jobs, sent, changes, crashes>>
<1> DEFINE a     == pass.checked.alert
           stamp == Stamp(a, pass.checked.fired)
<1>1. pass.checked \in [alert : Alerts, fired : BOOLEAN]
  BY DEF TypeInv, SetChecked
<1>2. a \in Alerts
  BY <1>1
<1>3. /\ alerts' = [alerts EXCEPT ![a].fired = stamp] /\ alertFile' \in {alertFile, alerts'}
      /\ pass' = PassIdle \/ (pass.todo # {} /\ pass' = [pass EXCEPT !.checked = None])
      /\ UNCHANGED <<eps, epFile, unsaved, anomalies, jobs, sent, changes, crashes>>
  BY DEF SetChecked, Saved, hooks
<1>4. /\ stamp \in 0 .. Window \cup {None} /\ alerts \in AlertType /\ alertFile \in AlertType
      /\ stamp = IF alerts[a].status = "live" /\ pass.checked.fired THEN 0 ELSE alerts[a].fired
  BY <1>2, Numbers DEF Stamp, TypeInv, AlertType
<1> HIDE DEF stamp
<1>5. /\ alerts' \in AlertType
      /\ \A b \in Alerts : /\ alerts'[b].status = alerts[b].status
                           /\ alerts'[b].fired = IF b = a THEN stamp ELSE alerts[b].fired
  BY <1>2, <1>3, <1>4 DEF AlertType
<1>6. QED
  BY <1>1, <1>3, <1>4, <1>5

\* An evaluation hands a payload over and notes it, or does neither.
LEMMA EvaluateType ==
    ASSUME TypeInv, NEW a \in Alerts, NEW met \in BOOLEAN, Evaluate(a, met)
    PROVE  /\ a \in pass.todo /\ pass.checked = None
           /\ pass' \in [stage : {"idle", "anomalies", "alerts"}, todo : SUBSET Alerts,
                         checked : [alert : Alerts, fired : BOOLEAN] \cup {None}]
           /\ pass'.stage = pass.stage /\ pass'.todo = pass.todo \ {a}
           /\ pass'.checked = [alert |-> a, fired |-> Fires(a, met)]
           /\ sent' = IF Fires(a, met) THEN [sent EXCEPT ![a] = 0] ELSE sent
           /\ sent' \in [Alerts -> 0 .. Window \cup {None}]
           /\ jobs' \in [Jobs -> JobType \cup {None}]
           /\ UNCHANGED <<stores, anomalies, changes, faults, crashes>>
<1>1. Fires(a, met) \in BOOLEAN
  BY DEF Fires
<1>2. /\ a \in pass.todo /\ pass.checked = None
      /\ pass' = [pass EXCEPT !.todo = pass.todo \ {a},
                              !.checked = [alert |-> a, fired |-> Fires(a, met)]]
      /\ UNCHANGED <<stores, anomalies, changes, faults, crashes>>
  BY DEF Evaluate
<1>3. /\ pass \in [stage : {"idle", "anomalies", "alerts"}, todo : SUBSET Alerts,
                   checked : [alert : Alerts, fired : BOOLEAN] \cup {None}]
      /\ jobs \in [Jobs -> JobType \cup {None}]
      /\ sent \in [Alerts -> 0 .. Window \cup {None}]
  BY DEF TypeInv
<1>4. [alert |-> a, fired |-> Fires(a, met)] \in [alert : Alerts, fired : BOOLEAN]
  BY <1>1
<1>5. /\ pass' \in [stage : {"idle", "anomalies", "alerts"}, todo : SUBSET Alerts,
                    checked : [alert : Alerts, fired : BOOLEAN] \cup {None}]
      /\ pass'.stage = pass.stage /\ pass'.todo = pass.todo \ {a}
      /\ pass'.checked = [alert |-> a, fired |-> Fires(a, met)]
  BY <1>2, <1>3, <1>4
<1>6. CASE Fires(a, met)
  <2>1. DeliverAll /\ sent' = [sent EXCEPT ![a] = 0]
    BY <1>6 DEF Evaluate
  <2>2. sent' \in [Alerts -> 0 .. Window \cup {None}]
    BY <1>3, <2>1, Numbers
  <2>3. QED
    BY <1>2, <1>5, <1>6, <2>1, <2>2, DeliverAllType
<1>7. CASE ~Fires(a, met)
  <2>1. UNCHANGED <<jobs, sent>>
    BY <1>7 DEF Evaluate
  <2>2. QED
    BY <1>2, <1>3, <1>5, <1>7, <2>1
<1>8. QED
  BY <1>6, <1>7

\* A pass starts: everything is a pass older.
LEMMA StartPassType ==
    ASSUME TypeInv, StartPass
    PROVE  /\ pass.stage = "idle"
           /\ pass' \in [stage : {"idle", "anomalies", "alerts"}, todo : SUBSET Alerts,
                         checked : [alert : Alerts, fired : BOOLEAN] \cup {None}]
           /\ pass'.stage = "anomalies" /\ pass'.todo = {} /\ pass'.checked = None
           /\ alerts' \in AlertType /\ alertFile' \in AlertType
           /\ \A a \in Alerts : /\ alerts'[a].status = alerts[a].status
                                /\ alerts'[a].fired = Older(alerts[a].fired, Window)
                                /\ alertFile'[a].status = alertFile[a].status
                                /\ sent'[a] = Older(sent[a], Window)
           /\ sent' \in [Alerts -> 0 .. Window \cup {None}]
           /\ anomalies' \in [Titles -> 0 .. Day \cup {None}]
           /\ UNCHANGED <<eps, epFile, unsaved, jobs, changes, faults, crashes>>
<1>1. /\ pass.stage = "idle" /\ pass' = [PassIdle EXCEPT !.stage = "anomalies"]
      /\ alerts' = [a \in Alerts |-> [alerts[a] EXCEPT !.fired = Older(alerts[a].fired, Window)]]
      /\ alertFile' = [a \in Alerts |->
                          [alertFile[a] EXCEPT !.fired = Older(alertFile[a].fired, Window)]]
      /\ sent' = [a \in Alerts |-> Older(sent[a], Window)]
      /\ anomalies' = [t \in Titles |-> Older(anomalies[t], Day)]
      /\ UNCHANGED <<eps, epFile, unsaved, jobs, changes, faults, crashes>>
  BY DEF StartPass, hooks
<1>2. /\ alerts \in AlertType /\ alertFile \in AlertType
      /\ sent \in [Alerts -> 0 .. Window \cup {None}]
      /\ anomalies \in [Titles -> 0 .. Day \cup {None}]
  BY DEF TypeInv
<1>3. \A a \in Alerts : /\ Older(alerts[a].fired, Window) \in 0 .. Window \cup {None}
                        /\ Older(alertFile[a].fired, Window) \in 0 .. Window \cup {None}
                        /\ Older(sent[a], Window) \in 0 .. Window \cup {None}
  BY <1>2, OlderType, Numbers DEF AlertType
<1>4. \A t \in Titles : Older(anomalies[t], Day) \in 0 .. Day \cup {None}
  BY <1>2, OlderType, Numbers
<1>5. /\ alerts' \in AlertType
      /\ \A a \in Alerts : /\ alerts'[a].status = alerts[a].status
                           /\ alerts'[a].fired = Older(alerts[a].fired, Window)
  BY <1>1, <1>2, <1>3 DEF AlertType
<1>6. /\ alertFile' \in AlertType
      /\ \A a \in Alerts : alertFile'[a].status = alertFile[a].status
  BY <1>1, <1>2, <1>3 DEF AlertType
<1>7. /\ pass' \in [stage : {"idle", "anomalies", "alerts"}, todo : SUBSET Alerts,
                    checked : [alert : Alerts, fired : BOOLEAN] \cup {None}]
      /\ pass'.stage = "anomalies" /\ pass'.todo = {} /\ pass'.checked = None
  BY <1>1 DEF PassIdle
<1>8. sent' \in [Alerts -> 0 .. Window \cup {None}] /\ anomalies' \in [Titles -> 0 .. Day \cup {None}]
  BY <1>1, <1>3, <1>4
<1>9. QED
  BY <1>1, <1>5, <1>6, <1>7, <1>8

\* An idle pass.
LEMMA IdleType ==
    /\ PassIdle \in [stage : {"idle", "anomalies", "alerts"}, todo : SUBSET Alerts,
                     checked : [alert : Alerts, fired : BOOLEAN] \cup {None}]
    /\ PassIdle.stage = "idle" /\ PassIdle.todo = {} /\ PassIdle.checked = None
BY DEF PassIdle

\* The alerts of a pass are the live ones.
LEMMA ListAlertsType ==
    ASSUME ListAlerts
    PROVE  /\ pass.stage = "anomalies"
           /\ pass' \in [stage : {"idle", "anomalies", "alerts"}, todo : SUBSET Alerts,
                         checked : [alert : Alerts, fired : BOOLEAN] \cup {None}]
           /\ pass'.todo = Listed /\ pass'.checked = None
           /\ UNCHANGED <<stores, anomalies, jobs, sent, changes, faults, crashes>>
<1>1. Listed \in SUBSET Alerts
  BY DEF Listed
<1>2. QED
  BY <1>1, IdleType DEF ListAlerts, PassIdle

\* Memory is what the files hold, and a firing that no file knows is forgotten.
LEMMA RestartType ==
    ASSUME TypeInv, Restart
    PROVE  /\ alerts' = alertFile /\ eps' = epFile /\ UNCHANGED <<alertFile, epFile, changes>>
           /\ unsaved' = {}
           /\ jobs' \in [Jobs -> JobType \cup {None}]
           /\ anomalies' \in [Titles -> 0 .. Day \cup {None}]
           /\ pass' = PassIdle
           /\ sent' \in [Alerts -> 0 .. Window \cup {None}]
           /\ \A a \in Alerts : sent'[a] = None \/ (sent'[a] = sent[a] /\ sent[a] = alertFile[a].fired)
           /\ crashes' = crashes + 1
BY DEF Restart, TypeInv

\* An anomaly is sent.
LEMMA EvaluateAnomalyType ==
    ASSUME TypeInv, NEW t \in Titles, EvaluateAnomaly(t)
    PROVE  /\ jobs' \in [Jobs -> JobType \cup {None}]
           /\ anomalies' \in [Titles -> 0 .. Day \cup {None}]
           /\ UNCHANGED <<stores, pass, sent, changes, faults, crashes>>
<1>1. anomalies' \in [Titles -> 0 .. Day \cup {None}]
  BY Numbers DEF EvaluateAnomaly, TypeInv
<1>2. QED
  BY <1>1, DeliverAllType DEF EvaluateAnomaly

\* Every step leaves the variables values of their types.
LEMMA NextType == ASSUME TypeInv, [Next]_vars PROVE TypeInv'
<1>1. CASE StartPass
  BY <1>1, StartPassType DEF TypeInv
<1>2. CASE ListAlerts
  BY <1>2, ListAlertsType DEF TypeInv, stores, hooks
<1>3. CASE SetChecked
  <2>1. pass' \in [stage : {"idle", "anomalies", "alerts"}, todo : SUBSET Alerts,
                   checked : [alert : Alerts, fired : BOOLEAN] \cup {None}]
    BY <1>3, SetCheckedType, IdleType DEF TypeInv
  <2>2. QED
    BY <1>3, <2>1, SetCheckedType DEF TypeInv
<1>4. ASSUME NEW t \in Titles, EvaluateAnomaly(t) PROVE TypeInv'
  BY <1>4, EvaluateAnomalyType DEF TypeInv, stores, hooks
<1>5. ASSUME NEW a \in Alerts, NEW met \in BOOLEAN, Evaluate(a, met) PROVE TypeInv'
  BY <1>5, EvaluateType DEF TypeInv, stores, hooks
<1>6. ASSUME NEW j \in Jobs, NEW answer, Deliver(j, answer) PROVE TypeInv'
  BY <1>6, DeliverType DEF TypeInv
<1>7. CASE Operate
  <2>1. changes' \in Nat
    BY <1>7, OperateCases DEF TypeInv, SetEnabled, Changes
  <2>2. ASSUME NEW a \in Alerts, NEW from \in Statuses, NEW to \in Statuses,
               ChangeAlert(a, from, to)
        PROVE  TypeInv'
    BY <2>1, <2>2, ChangeAlertType DEF TypeInv
  <2>3. ASSUME NEW e \in Endpoints, NEW from \in Statuses, NEW to \in Statuses,
               ChangeEndpoint(e, from, to)
        PROVE  TypeInv'
    BY <2>1, <2>3, ChangeEndpointType DEF TypeInv
  <2>4. ASSUME NEW e \in Endpoints, NEW on \in BOOLEAN, SetEnabled(e, on) PROVE TypeInv'
    BY <2>1, <2>4, SetEnabledType DEF TypeInv
  <2>5. QED
    BY <1>7, <2>2, <2>3, <2>4, OperateCases DEF Statuses
<1>8. CASE Restart
  BY <1>8, RestartType, IdleType DEF TypeInv
<1>9. CASE UNCHANGED vars
  BY <1>9 DEF vars, stores, hooks, TypeInv
<1>10. QED
  BY <1>1, <1>2, <1>3, <1>4, <1>5, <1>6, <1>7, <1>8, <1>9 DEF Next, PassStep, DeliveryStep

-----------------------------------------------------------------------------
\* What one step does to the statuses, the pass and the stamps.

\* An alert's status changes by the operator's hand alone, in memory and in the file at once.
LEMMA AlertSteps ==
    ASSUME TypeInv, SameStatus, [Next]_vars, NEW a \in Alerts
    PROVE  /\ alertFile'[a].status = alerts'[a].status
           /\ \/ alerts'[a].status = alerts[a].status
              \/ alerts[a].status = "none" /\ alerts'[a].status = "live"
                 /\ UNCHANGED <<sent, pass>>
              \/ alerts[a].status = "live" /\ alerts'[a].status = "gone"
                 /\ UNCHANGED <<sent, pass>>
<1>1. CASE StartPass
  BY <1>1, StartPassType DEF SameStatus
<1>2. CASE ListAlerts
  BY <1>2, ListAlertsType DEF SameStatus, stores, hooks
<1>3. CASE SetChecked
  BY <1>3, SetCheckedType DEF SameStatus
<1>4. ASSUME NEW t \in Titles, EvaluateAnomaly(t)
      PROVE  UNCHANGED <<alerts, alertFile>>
  BY <1>4, EvaluateAnomalyType DEF stores
<1>5. ASSUME NEW b \in Alerts, NEW met \in BOOLEAN, Evaluate(b, met)
      PROVE  UNCHANGED <<alerts, alertFile>>
  BY <1>5, EvaluateType DEF stores
<1>6. ASSUME NEW j \in Jobs, NEW answer, Deliver(j, answer)
      PROVE  UNCHANGED <<alerts, alertFile>>
  BY <1>6, DeliverType
<1>7. ASSUME NEW b \in Alerts, NEW from \in Statuses, NEW to \in Statuses,
             ChangeAlert(b, from, to)
      PROVE  /\ alertFile'[a].status = alerts'[a].status
             /\ \/ alerts'[a].status = alerts[a].status
                \/ alerts[a].status = from /\ alerts'[a].status = to /\ UNCHANGED <<sent, pass>>
  <2>1. CASE UNCHANGED <<alerts, alertFile>>
    BY <2>1 DEF SameStatus
  <2>2. CASE /\ alerts[b].status = from
             /\ alerts' = [alerts EXCEPT ![b].status = to]
             /\ alertFile' = alerts'
    BY <1>7, <2>2, ChangeAlertType DEF TypeInv, AlertType
  <2>3. QED
    BY <1>7, <2>1, <2>2, ChangeAlertType
<1>8. ASSUME NEW e \in Endpoints, NEW from \in Statuses, NEW to \in Statuses,
             ChangeEndpoint(e, from, to)
      PROVE  UNCHANGED <<alerts, alertFile>>
  BY <1>8, ChangeEndpointType
<1>9. ASSUME NEW e \in Endpoints, NEW on \in BOOLEAN, SetEnabled(e, on)
      PROVE  UNCHANGED <<alerts, alertFile>>
  BY <1>9, SetEnabledType
<1>10. CASE Restart
  BY <1>10, RestartType DEF SameStatus
<1>11. CASE UNCHANGED <<alerts, alertFile>>
  BY <1>11 DEF SameStatus
<1>12. QED
  BY <1>1, <1>2, <1>3, <1>4, <1>5, <1>6, <1>7, <1>8, <1>9, <1>10, <1>11, OperateCases
     DEF Next, PassStep, DeliveryStep, vars, stores, hooks, Statuses

\* An endpoint's status changes by the operator's hand alone, and it is turned on by a
\* request or by a restart that reads a file which a failed write left behind.
LEMMA EndpointSteps ==
    ASSUME TypeInv, SameStatus, FileFollows, [Next]_vars, NEW e \in Endpoints
    PROVE  /\ epFile'[e].status = eps'[e].status
           /\ eps[e].status = "gone" => eps'[e].status = "gone"
           /\ ~eps[e].on /\ eps'[e].on =>
                  changes' > changes \/ (crashes' > crashes /\ e \in unsaved)
<1> DEFINE P == /\ epFile'[e].status = eps'[e].status
                /\ eps[e].status = "gone" => eps'[e].status = "gone"
                /\ ~eps[e].on /\ eps'[e].on =>
                       changes' > changes \/ (crashes' > crashes /\ e \in unsaved)
<1>1. CASE UNCHANGED <<eps, epFile>>
  BY <1>1 DEF SameStatus
<1>2. ASSUME NEW j \in Jobs, NEW answer, Deliver(j, answer) PROVE P
  BY <1>2, DeliverType DEF SameStatus
<1>3. ASSUME NEW d \in Endpoints, NEW from \in Statuses, NEW to \in Statuses,
             ChangeEndpoint(d, from, to), from # "gone"
      PROVE  P
  <2>1. CASE /\ eps[d].status = from
             /\ eps' = [eps EXCEPT ![d].status = to]
             /\ epFile' = eps'
    <3>1. eps'[e].on = eps[e].on
      BY <2>1 DEF TypeInv, EndpointType
    <3>2. d # e => eps'[e].status = eps[e].status
      BY <2>1 DEF TypeInv, EndpointType
    <3>3. QED
      BY <1>3, <2>1, <3>1, <3>2
  <2>2. QED
    BY <1>1, <1>3, <2>1, ChangeEndpointType
<1>4. ASSUME NEW d \in Endpoints, NEW on \in BOOLEAN, SetEnabled(d, on) PROVE P
  <2>1. changes' > changes
    BY <1>4, SetEnabledType DEF TypeInv
  <2>2. QED
    BY <1>4, <2>1, SetEnabledType DEF SameStatus
<1>5. CASE Restart
  <2>1. crashes' > crashes
    BY <1>5, RestartType DEF TypeInv
  <2>2. eps'[e] = epFile[e] /\ (e \notin unsaved => epFile[e] = eps[e])
    BY <1>5, RestartType DEF FileFollows
  <2>3. QED
    BY <1>5, <2>1, <2>2, RestartType DEF SameStatus
<1>6. ASSUME NEW a \in Alerts, NEW from \in Statuses, NEW to \in Statuses,
             ChangeAlert(a, from, to)
      PROVE  P
  BY <1>1, <1>6, ChangeAlertType
<1>7. CASE PassStep
  <2>1. UNCHANGED <<eps, epFile>>
    BY <1>7 DEF PassStep, StartPass, ListAlerts, SetChecked, EvaluateAnomaly, Evaluate, stores, hooks
  <2>2. QED
    BY <1>1, <2>1
<1>8. CASE Operate
  BY <1>3, <1>4, <1>6, <1>8, OperateCases DEF Statuses
<1>9. CASE UNCHANGED vars
  BY <1>1, <1>9 DEF vars, stores, hooks
<1>10. QED
  BY <1>2, <1>5, <1>7, <1>8, <1>9 DEF Next, DeliveryStep

\* Whatever a step changes of the endpoints, the file follows or the endpoint is noted.
LEMMA NextFollows == ASSUME TypeInv, FileFollows, [Next]_vars PROVE FileFollows'
<1>1. CASE UNCHANGED <<eps, epFile, unsaved>>
  BY <1>1 DEF FileFollows
<1>2. ASSUME NEW j \in Jobs, NEW answer, Deliver(j, answer) PROVE FileFollows'
  BY <1>2, DeliverType
<1>3. CASE Operate
  <2>1. ASSUME NEW a \in Alerts, NEW from \in Statuses, NEW to \in Statuses,
               ChangeAlert(a, from, to)
        PROVE  FileFollows'
    BY <1>1, <2>1, ChangeAlertType
  <2>2. ASSUME NEW e \in Endpoints, NEW from \in Statuses, NEW to \in Statuses,
               ChangeEndpoint(e, from, to)
        PROVE  FileFollows'
    BY <2>2, ChangeEndpointType
  <2>3. ASSUME NEW e \in Endpoints, NEW on \in BOOLEAN, SetEnabled(e, on) PROVE FileFollows'
    BY <2>3, SetEnabledType
  <2>4. QED
    BY <1>3, <2>1, <2>2, <2>3, OperateCases DEF Statuses
<1>4. CASE Restart
  BY <1>4, RestartType DEF FileFollows
<1>5. CASE PassStep
  <2>1. UNCHANGED <<eps, epFile, unsaved>>
    BY <1>5 DEF PassStep, StartPass, ListAlerts, SetChecked, EvaluateAnomaly, Evaluate, stores, hooks
  <2>2. QED
    BY <1>1, <2>1
<1>6. CASE UNCHANGED vars
  BY <1>1, <1>6 DEF vars, stores, hooks
<1>7. QED
  BY <1>2, <1>3, <1>4, <1>5, <1>6 DEF Next, DeliveryStep

\* Only a pass in its second half has something to evaluate or to record.
LEMMA NextPass == ASSUME TypeInv, PassInv, [Next]_vars PROVE PassInv'
<1>1. CASE UNCHANGED pass
  BY <1>1 DEF PassInv
<1>2. CASE StartPass
  BY <1>2, StartPassType DEF PassInv
<1>3. CASE ListAlerts
  BY <1>3, ListAlertsType, IdleType DEF PassInv, ListAlerts
<1>4. CASE SetChecked
  <2>1. pass.checked # None
    BY <1>4 DEF SetChecked
  <2>2. pass.stage = "alerts"
    BY <2>1 DEF PassInv
  <2>3. pass' = [pass EXCEPT !.checked = None] => pass'.stage = "alerts"
    BY <2>2 DEF TypeInv
  <2>4. QED
    BY <1>4, <2>3, SetCheckedType, IdleType DEF PassInv
<1>5. ASSUME NEW a \in Alerts, NEW met \in BOOLEAN, Evaluate(a, met) PROVE PassInv'
  BY <1>5, EvaluateType DEF PassInv
<1>6. CASE Restart
  BY <1>6, RestartType, IdleType DEF PassInv
<1>7. CASE (\E t \in Titles : EvaluateAnomaly(t)) \/ Operate
           \/ (\E j \in Jobs : DeliveryStep(j)) \/ UNCHANGED vars
  <2>1. UNCHANGED pass
    BY <1>7
       DEF EvaluateAnomaly, Operate, AddAlert, DeleteAlert, AddEndpoint, DeleteEndpoint,
           SetEnabled, ChangeAlert, ChangeEndpoint, DeliveryStep, Deliver, vars
  <2>2. QED
    BY <1>1, <2>1
<1>8. QED
  BY <1>2, <1>3, <1>4, <1>5, <1>6, <1>7 DEF Next, PassStep

\* An alert not yet added stays unsent and unlisted.
LEMMA NextUnborn ==
    ASSUME TypeInv, SameStatus, PassInv, [Next]_vars, NEW a \in Alerts, Unborn(a)
    PROVE  Unborn(a)'
<1> SUFFICES ASSUME alerts'[a].status = "none"
             PROVE  /\ sent'[a] = None /\ a \notin pass'.todo
                    /\ pass'.checked = None \/ pass'.checked.alert # a
  BY DEF Unborn
<1>1. /\ alerts[a].status = "none"
      /\ sent[a] = None /\ a \notin pass.todo /\ (pass.checked = None \/ pass.checked.alert # a)
  BY AlertSteps DEF Unborn
<1>2. CASE UNCHANGED <<sent, pass>>
  BY <1>1, <1>2
<1>3. CASE StartPass
  BY <1>1, <1>3, StartPassType DEF Older
<1>4. CASE ListAlerts
  BY <1>1, <1>4, ListAlertsType DEF Listed
<1>5. CASE SetChecked
  <2>1. /\ pass' = PassIdle \/ pass' = [pass EXCEPT !.checked = None]
        /\ sent' = sent
    BY <1>5, SetCheckedType
  <2>2. pass'.checked = None /\ pass'.todo \in {{}, pass.todo}
    BY <2>1, IdleType DEF TypeInv
  <2>3. QED
    BY <1>1, <2>1, <2>2
<1>6. ASSUME NEW b \in Alerts, NEW met \in BOOLEAN, Evaluate(b, met)
      PROVE  /\ sent'[a] = None /\ a \notin pass'.todo
             /\ pass'.checked = None \/ pass'.checked.alert # a
  <2>1. b # a /\ b \in pass.todo
    BY <1>1, <1>6, EvaluateType
  <2>2. pass'.checked.alert = b /\ pass'.todo = pass.todo \ {b}
    <3>1. pass'.checked = [alert |-> b, fired |-> Fires(b, met)] /\ pass'.todo = pass.todo \ {b}
      BY <1>6, EvaluateType
    <3>2. QED
      BY <3>1
  <2>3. sent'[a] = sent[a]
    <3>1. sent' = [sent EXCEPT ![b] = 0] \/ sent' = sent
      BY <1>6, EvaluateType
    <3>2. QED
      BY <2>1, <3>1 DEF TypeInv
  <2>4. QED
    BY <1>1, <2>1, <2>2, <2>3
<1>7. CASE Restart
  BY <1>1, <1>7, RestartType, IdleType
<1>8. CASE (\E t \in Titles : EvaluateAnomaly(t)) \/ Operate
           \/ (\E j \in Jobs : DeliveryStep(j)) \/ UNCHANGED vars
  <2>1. UNCHANGED <<sent, pass>>
    BY <1>8
       DEF EvaluateAnomaly, Operate, AddAlert, DeleteAlert, AddEndpoint, DeleteEndpoint,
           SetEnabled, ChangeAlert, ChangeEndpoint, DeliveryStep, Deliver, vars
  <2>2. QED
    BY <1>2, <2>1
<1>9. QED
  BY <1>3, <1>4, <1>5, <1>6, <1>7, <1>8 DEF Next, PassStep
\* What was sent of an alert is on its stamp, or about to be, or nobody's any more.
LEMMA NextStamped ==
    ASSUME TypeInv, SameStatus, PassInv, [Next]_vars, NEW a \in Alerts, Stamped(a), Unborn(a)
    PROVE  Stamped(a)'
<1>1. ASSUME sent'[a] = sent[a], alerts'[a].fired = alerts[a].fired, pass' = pass
      PROVE  Stamped(a)'
  <2>1. alerts[a].status = "gone" => alerts'[a].status = "gone"
    BY AlertSteps
  <2>2. QED
    BY <1>1, <2>1 DEF Stamped, Due
<1>2. CASE StartPass
  <2>1. pass.todo = {} /\ pass.checked = None /\ pass'.todo = {} /\ pass'.checked = None
    BY <1>2, StartPassType DEF PassInv
  <2>2. sent'[a] = Older(sent[a], Window) /\ alerts'[a].fired = Older(alerts[a].fired, Window)
        /\ alerts'[a].status = alerts[a].status
    BY <1>2, StartPassType
  <2>3. sent[a] = None \/ sent[a] = alerts[a].fired \/ alerts[a].status = "gone"
    BY <2>1 DEF Stamped, Due
  <2>4. Older(None, Window) = None
    BY DEF Older
  <2>5. QED
    BY <2>1, <2>2, <2>3, <2>4 DEF Stamped, Due
<1>3. CASE ListAlerts
  <2>1. sent' = sent /\ alerts' = alerts /\ pass'.todo = Listed /\ pass'.checked = None
        /\ pass.checked = None
    BY <1>3, ListAlertsType DEF stores, PassInv
  <2>2. alerts[a].status = "gone" => a \notin Listed
    BY DEF Listed
  <2>3. QED
    BY <2>1, <2>2 DEF Stamped, Due
<1>4. CASE SetChecked
  <2>1. sent' = sent /\ alerts'[a].status = alerts[a].status
    BY <1>4, SetCheckedType
  <2>2. pass'.checked = None /\ pass'.todo \in {{}, pass.todo}
    BY <1>4, SetCheckedType, IdleType DEF TypeInv
  <2>3. pass.checked # None
    BY <1>4 DEF SetChecked
  <2>4. CASE Due(a)
    <3>1. alerts[a].status = "live" => alerts'[a].fired = 0
      BY <1>4, <2>4, SetCheckedType DEF Due
    <3>2. alerts[a].status # "none"
      BY <2>4 DEF Unborn, Due
    <3>3. alerts[a].status \in {"none", "live", "gone"}
      BY DEF TypeInv, AlertType, Statuses
    <3>4. sent[a] = 0 /\ a \notin pass.todo
      BY <2>4 DEF Stamped
    <3>5. QED
      BY <2>1, <2>2, <3>1, <3>2, <3>3, <3>4 DEF Stamped, Due
  <2>5. CASE ~Due(a)
    <3>1. alerts'[a].fired = alerts[a].fired
      BY <1>4, <2>3, <2>5, SetCheckedType DEF Due
    <3>2. QED
      BY <2>1, <2>2, <2>5, <3>1 DEF Stamped, Due
  <2>6. QED
    BY <2>4, <2>5
<1>5. ASSUME NEW b \in Alerts, NEW met \in BOOLEAN, Evaluate(b, met)
      PROVE  Stamped(a)'
  <2>1. /\ pass.checked = None /\ b \in pass.todo /\ alerts' = alerts
        /\ pass'.todo = pass.todo \ {b}
        /\ pass'.checked = [alert |-> b, fired |-> Fires(b, met)]
        /\ sent' = IF Fires(b, met) THEN [sent EXCEPT ![b] = 0] ELSE sent
    BY <1>5, EvaluateType DEF stores
  <2>2. pass'.checked.alert = b /\ pass'.checked.fired = Fires(b, met)
    BY <2>1
  <2>3. [alert |-> b, fired |-> Fires(b, met)] # None
    <3>1. Fires(b, met) \in BOOLEAN
      BY DEF Fires
    <3>2. QED
      BY <3>1, Numbers
  <2>4. CASE b = a /\ Fires(b, met)
    <3>1. sent'[a] = 0 /\ a \notin pass'.todo /\ Due(a)'
      BY <2>1, <2>2, <2>3, <2>4 DEF TypeInv, Due
    <3>2. QED
      BY <3>1 DEF Stamped
  <2>5. CASE b # a \/ ~Fires(b, met)
    <3>1. sent'[a] = sent[a] /\ ~Due(a)'
      BY <2>1, <2>2, <2>5 DEF TypeInv, Due
    <3>2. ~Due(a)
      BY <2>1 DEF Due
    <3>3. QED
      BY <2>1, <3>1, <3>2 DEF Stamped
  <2>6. QED
    BY <2>4, <2>5
<1>6. CASE Restart
  <2>1. /\ alerts' = alertFile /\ pass'.checked = None
        /\ sent'[a] = None \/ sent'[a] = alertFile[a].fired
    BY <1>6, RestartType, IdleType
  <2>2. QED
    BY <2>1 DEF Stamped, Due
<1>7. ASSUME NEW b \in Alerts, NEW from \in Statuses, NEW to \in Statuses,
             ChangeAlert(b, from, to)
      PROVE  Stamped(a)'
  <2>1. alerts' = alerts \/ alerts' = [alerts EXCEPT ![b].status = to]
    BY <1>7, ChangeAlertType
  <2>2. alerts'[a].fired = alerts[a].fired
    BY <2>1 DEF TypeInv, AlertType
  <2>3. QED
    BY <1>1, <1>7, <2>2, ChangeAlertType
<1>8. CASE UNCHANGED <<sent, alerts, pass>>
  BY <1>1, <1>8
<1>9. CASE Operate
  <2>1. ASSUME NEW e \in Endpoints, NEW from \in Statuses, NEW to \in Statuses,
               ChangeEndpoint(e, from, to)
        PROVE  UNCHANGED <<sent, alerts, pass>>
    BY <2>1, ChangeEndpointType
  <2>2. ASSUME NEW e \in Endpoints, NEW on \in BOOLEAN, SetEnabled(e, on)
        PROVE  UNCHANGED <<sent, alerts, pass>>
    BY <2>2, SetEnabledType
  <2>3. QED
    BY <1>7, <1>8, <1>9, <2>1, <2>2, OperateCases DEF Statuses
<1>10. CASE (\E t \in Titles : EvaluateAnomaly(t)) \/ (\E j \in Jobs : DeliveryStep(j))
            \/ UNCHANGED vars
  <2>1. UNCHANGED <<sent, alerts, pass>>
    BY <1>10 DEF EvaluateAnomaly, DeliveryStep, Deliver, vars, stores, hooks
  <2>2. QED
    BY <1>8, <2>1
<1>11. QED
  BY <1>2, <1>3, <1>4, <1>5, <1>6, <1>9, <1>10 DEF Next, PassStep

\* Nothing has been added, sent or noted at the start.
LEMMA InitIInv == Init => IInv
<1> SUFFICES ASSUME Init PROVE IInv
  OBVIOUS
<1>1. /\ alerts = [a \in Alerts |-> [status |-> "none", fired |-> None]] /\ alertFile = alerts
      /\ eps = [e \in Endpoints |-> [status |-> "none", on |-> TRUE, failures |-> 0]]
      /\ epFile = eps /\ sent = [a \in Alerts |-> None] /\ pass = PassIdle
      /\ jobs = [j \in Jobs |-> None] /\ anomalies = [t \in Titles |-> None]
      /\ unsaved = {} /\ changes = 0 /\ crashes = 0
  BY DEF Init
<1>2. [status |-> "none", fired |-> None] \in [status : Statuses, fired : 0 .. Window \cup {None}]
  BY DEF Statuses
<1>3. [status |-> "none", on |-> TRUE, failures |-> 0]
          \in [status : Statuses, on : BOOLEAN, failures : 0 .. MaxFailures + 1]
  BY Numbers DEF Statuses
<1>4. alerts \in AlertType /\ eps \in EndpointType
  BY <1>1, <1>2, <1>3 DEF AlertType, EndpointType
<1>5. TypeInv
  BY <1>1, <1>4, IdleType DEF TypeInv
<1>6. SameStatus /\ FileFollows /\ PassInv
  BY <1>1, IdleType DEF SameStatus, FileFollows, PassInv
<1>7. StampInv
  BY <1>1, IdleType DEF StampInv, Stamped, Unborn, Due
<1>8. QED
  BY <1>5, <1>6, <1>7 DEF IInv

\* Every step preserves the invariant.
LEMMA NextIInv == ASSUME IInv, [Next]_vars PROVE IInv'
<1>1. TypeInv /\ SameStatus /\ FileFollows /\ PassInv
  BY DEF IInv
<1>2. TypeInv' /\ FileFollows' /\ PassInv'
  BY <1>1, NextType, NextFollows, NextPass
<1>3. SameStatus'
  BY <1>1, AlertSteps, EndpointSteps DEF SameStatus
<1>4. \A a \in Alerts : Stamped(a)' /\ Unborn(a)'
  BY <1>1, NextStamped, NextUnborn DEF IInv, StampInv
<1>5. QED
  BY <1>2, <1>3, <1>4 DEF IInv, StampInv

-----------------------------------------------------------------------------
\* The theorems.

\* The stores, the pass and the deliveries in flight are well formed.
THEOREM TypeCorrect == Spec => []TypeOK
<1>1. IInv => TypeOK
  BY DEF IInv, TypeInv, TypeOK, AlertType, EndpointType, JobType, Statuses
<1>2. QED
  BY <1>1, InitIInv, NextIInv, PTL DEF Spec

\* An alert is sent again only when its window is over, however passes, deletions, failed
\* writes and restarts interleave: or when a restart has lost the stamp of the last firing.
THEOREM AlertsCoolDown == Spec => CoolsDown
<1>1. ASSUME IInv, [Next]_vars, NEW a \in Alerts, sent'[a] = 0, sent[a] # 0
      PROVE  sent[a] \in {None, Window}
  <2>1. TypeInv /\ Stamped(a) /\ sent[a] \in 0 .. Window \cup {None}
    BY <1>1 DEF IInv, StampInv, TypeInv
  <2>2. ~StartPass
    BY <1>1, <2>1, StartPassType, OlderType, Numbers
  <2>3. CASE UNCHANGED sent
    BY <1>1, <2>3
  <2>4. ~Restart
    BY <1>1, <2>1, RestartType, Numbers
  <2>5. ASSUME NEW b \in Alerts, NEW met \in BOOLEAN, Evaluate(b, met)
        PROVE  sent[a] \in {None, Window}
    <3>1. b = a /\ Fires(b, met) /\ a \in pass.todo /\ pass.checked = None
      <4>1. /\ sent' = IF Fires(b, met) THEN [sent EXCEPT ![b] = 0] ELSE sent
            /\ b \in pass.todo /\ pass.checked = None
        BY <2>1, <2>5, EvaluateType
      <4>2. sent[b] # sent'[b] => Fires(b, met)
        BY <4>1
      <4>3. b # a => sent'[a] = sent[a]
        BY <2>1, <4>1 DEF TypeInv
      <4>4. QED
        BY <1>1, <4>1, <4>2, <4>3
    <3>2. sent[a] = None \/ sent[a] = alerts[a].fired
      BY <2>1, <3>1 DEF Stamped, Due
    <3>3. alerts[a].fired = None \/ alerts[a].fired >= Window
      BY <3>1 DEF Fires
    <3>4. QED
      BY <2>1, <3>2, <3>3, Numbers
  <2>6. CASE ListAlerts \/ SetChecked \/ (\E t \in Titles : EvaluateAnomaly(t)) \/ Operate
             \/ (\E j \in Jobs : DeliveryStep(j)) \/ UNCHANGED vars
    <3>1. UNCHANGED sent
      BY <2>6
         DEF ListAlerts, SetChecked, EvaluateAnomaly, Operate, AddAlert, DeleteAlert, AddEndpoint,
             DeleteEndpoint, SetEnabled, ChangeAlert, ChangeEndpoint, DeliveryStep, Deliver, vars
    <3>2. QED
      BY <2>3, <3>1
  <2>7. QED
    BY <1>1, <2>2, <2>4, <2>5, <2>6 DEF Next, PassStep
<1>2. IInv /\ [Next]_vars =>
          [\A a \in Alerts : sent'[a] = 0 /\ sent[a] # 0 => sent[a] \in {None, Window}]_vars
  BY <1>1
<1>3. QED
  BY <1>2, InitIInv, NextIInv, PTL DEF Spec, CoolsDown

\* What was deleted stays deleted, and what was turned off stays off until the operator turns
\* it on, whatever outcome of an old delivery or check of a pass in flight comes late, and
\* across restarts: only an endpoint whose last change a failed write left out of the file,
\* with no write after it, may come back on.
THEOREM OperatorHasLastWord == Spec => OperatorDecides
<1> DEFINE A == /\ \A a \in Alerts : alerts[a].status = "gone" => alerts'[a].status = "gone"
                /\ \A e \in Endpoints :
                       /\ eps[e].status = "gone" => eps'[e].status = "gone"
                       /\ ~eps[e].on /\ eps'[e].on =>
                              changes' > changes \/ (crashes' > crashes /\ e \in unsaved)
<1>1. IInv /\ [Next]_vars => [A]_vars
  BY AlertSteps, EndpointSteps DEF IInv
<1>2. QED
  BY <1>1, InitIInv, NextIInv, PTL DEF Spec, OperatorDecides
=============================================================================

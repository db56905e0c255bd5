----------------------------- MODULE Incidents -----------------------------
(***************************************************************************)
(* Incidents over the alerts of one class.  A tick of the incident worker  *)
(* takes the enabled rules one after the other.  For each it lists the     *)
(* open alerts that no open incident holds, gives each of them the open    *)
(* incident of its printer, made if there is none, and then closes the     *)
(* incidents whose alerts are all resolved.  Each of these is several      *)
(* statements, while alerts open, resolve and come back and operators      *)
(* close and reopen incidents and unlink alerts.                           *)
(***************************************************************************)
EXTENDS Naturals, Sequences, FiniteSets

CONSTANTS
    Devices, Clients,
    ClientOf,       \* devices.client_id
    Types,          \* alert types of the class
    Rules, NoRule,  \* incident_rules of the class
    RuleClient,     \* client_id of each rule, AnyClient for the global one
    AnyClient,
    Enabled,        \* rules with enabled = true
    AutoCloses,     \* rules with auto_close_on_alerts_resolved
    MaxAlerts,      \* bound: alerts ever opened
    MaxEdits,       \* bound: operations of the portal
    MaxFaults       \* bound: errors and restarts

ASSUME IncidentsAssumption ==
    /\ ClientOf \in [Devices -> Clients]
    /\ AnyClient \notin Clients /\ NoRule \notin Rules
    /\ RuleClient \in [Rules -> Clients \cup {AnyClient}]
    /\ \A r, s \in Rules : RuleClient[r] = RuleClient[s] => r = s
    /\ Enabled \subseteq Rules /\ AutoCloses \subseteq Rules
    /\ MaxAlerts \in Nat /\ MaxEdits \in Nat /\ MaxFaults \in Nat

None == 0
Alerts == 1 .. MaxAlerts

VARIABLES
    alerts,     \* alerts of the class: [of, type, open]
    incidents,  \* automatic incidents: [of, rule, open, links: positions in alerts]
    worker,     \* the tick: where it is, its rule and list, and what it holds
    rules,      \* rules the tick has still to take
    edits, faults

vars == <<alerts, incidents, worker, rules, edits, faults>>

Works(place) == worker.at = place
Gone(place) == Works(place) /\ worker.list = {}     \* the list has been gone through
Turns(place, list) ==
    worker' = [worker EXCEPT !.at = place, !.list = list, !.alert = None, !.incident = None]

Init ==
    /\ alerts = <<>> /\ incidents = <<>>
    /\ worker = [at |-> "idle", rule |-> NoRule, list |-> {}, alert |-> None, incident |-> None]
    /\ rules = {}
    /\ edits = 0 /\ faults = 0

fault == faults < MaxFaults /\ faults' = faults + 1 /\ UNCHANGED edits
edit == edits < MaxEdits /\ edits' = edits + 1 /\ UNCHANGED faults
free == UNCHANGED <<edits, faults>>

OpenIncidents(d) == {n \in DOMAIN incidents : incidents[n].of = d /\ incidents[n].open}
Holds(n, i) == incidents[n].open /\ i \in incidents[n].links
Held(i) == \E n \in DOMAIN incidents : Holds(n, i)

------------------------------------------------------------------------------
(* Alerts, as the other parts of the cloud write them.                     *)

IsOpen(d, t) == \E i \in DOMAIN alerts : alerts[i] = [of |-> d, type |-> t, open |-> TRUE]

openAlert(d, t) ==
    /\ ~IsOpen(d, t) /\ Len(alerts) < MaxAlerts
    /\ alerts' = Append(alerts, [of |-> d, type |-> t, open |-> TRUE])
    /\ free /\ UNCHANGED <<incidents, worker, rules>>

resolveAlert(i) ==
    /\ alerts[i].open
    /\ alerts' = [alerts EXCEPT ![i].open = FALSE]
    /\ free /\ UNCHANGED <<incidents, worker, rules>>

\* An operator clears `resolved`; the index lets one open alert per type in.
UpdateAlert(i) ==
    /\ ~alerts[i].open /\ ~IsOpen(alerts[i].of, alerts[i].type) /\ edit
    /\ alerts' = [alerts EXCEPT ![i].open = TRUE]
    /\ UNCHANGED <<incidents, worker, rules>>

------------------------------------------------------------------------------
(* processRule.                                                            *)

tick ==
    /\ Works("idle")
    /\ rules' = Enabled
    /\ Turns("rules", {})
    /\ free /\ UNCHANGED <<alerts, incidents>>

\* The global rule is not for clients that have a rule of their own, enabled or not.
ruleApplies(r, d) ==
    \/ RuleClient[r] = ClientOf[d]
    \/ RuleClient[r] = AnyClient /\ \A s \in Rules : RuleClient[s] # ClientOf[d]

\* Mutant: the global rule is for every client.
eligibleOfAll(r) ==
    {i \in DOMAIN alerts : /\ alerts[i].open /\ ~Held(i)
                           /\ RuleClient[r] \in {ClientOf[alerts[i].of], AnyClient}}

\* Mutant: an alert that was ever linked is not taken again.
neverLinked(r) ==
    {i \in DOMAIN alerts : /\ alerts[i].open /\ ruleApplies(r, alerts[i].of)
                           /\ \A n \in DOMAIN incidents : i \notin incidents[n].links}

eligibleAlertsForRule(r) ==
    {i \in DOMAIN alerts : alerts[i].open /\ ruleApplies(r, alerts[i].of) /\ ~Held(i)}

processRule(r) ==
    /\ Works("rules") /\ r \in rules
    /\ rules' = rules \ {r}
    /\ worker' = [worker EXCEPT !.at = "linking", !.rule = r, !.list = eligibleAlertsForRule(r)]
    /\ free /\ UNCHANGED <<alerts, incidents>>

\* INSERT ... ON CONFLICT DO NOTHING on the open incident of the printer.
openIncident(i) ==
    LET d == alerts[i].of
        Takes(place, n) == worker' = [worker EXCEPT !.at = place, !.list = @ \ {i},
                                                    !.alert = i, !.incident = n]
    IN
    /\ Works("linking") /\ i \in worker.list
    /\ \/ /\ OpenIncidents(d) = {}
          /\ incidents' = Append(incidents, [of |-> d, rule |-> worker.rule,
                                             open |-> TRUE, links |-> {}])
          /\ Takes("link", Len(incidents) + 1)
       \/ /\ OpenIncidents(d) # {}
          /\ Takes("find", None)
          /\ UNCHANGED incidents
    /\ free /\ UNCHANGED <<alerts, rules>>

\* None is found if it was closed since: the alert waits for the next tick.
findIncident ==
    LET found == OpenIncidents(alerts[worker.alert].of) IN
    /\ Works("find")
    /\ \/ \E n \in found : worker' = [worker EXCEPT !.at = "link", !.incident = n]
       \/ found = {} /\ Turns("linking", worker.list)
    /\ free /\ UNCHANGED <<alerts, incidents, rules>>

linkAlert ==
    /\ Works("link")
    /\ incidents' = [incidents EXCEPT ![worker.incident].links = @ \cup {worker.alert}]
    /\ Turns("linking", worker.list)
    /\ free /\ UNCHANGED <<alerts, rules>>

\* An error is caught alert by alert; an incident just made is left without alerts.
linkFails ==
    /\ Works("link") /\ fault
    /\ Turns("linking", worker.list)
    /\ UNCHANGED <<alerts, incidents, rules>>

------------------------------------------------------------------------------
(* autoCloseResolved.                                                      *)

\* The global rule selects the incidents of every client.
openIncidentsOf(r) ==
    {n \in DOMAIN incidents : /\ incidents[n].open
                              /\ RuleClient[r] \in {ClientOf[incidents[n].of], AnyClient}}

autoCloseResolved ==
    /\ Gone("linking")
    /\ IF worker.rule \in AutoCloses
       THEN Turns("closing", openIncidentsOf(worker.rule)) ELSE Turns("rules", {})
    /\ free /\ UNCHANGED <<alerts, incidents, rules>>

\* No alert at all counts as every alert resolved.
allResolved(n) == \A i \in incidents[n].links : ~alerts[i].open

checkIncident(n) ==
    /\ Works("closing") /\ n \in worker.list
    /\ worker' = IF allResolved(n)
                 THEN [worker EXCEPT !.at = "close", !.list = @ \ {n}, !.incident = n]
                 ELSE [worker EXCEPT !.list = @ \ {n}]
    /\ free /\ UNCHANGED <<alerts, incidents, rules>>

closeResolved ==
    /\ Works("close")
    /\ incidents' = [incidents EXCEPT ![worker.incident].open = FALSE]
    /\ Turns("closing", worker.list)
    /\ free /\ UNCHANGED <<alerts, rules>>

ruleDone ==
    /\ Gone("closing")
    /\ Turns("rules", {})
    /\ free /\ UNCHANGED <<alerts, incidents, rules>>

tickEnds ==
    /\ Works("rules") /\ rules = {}
    /\ worker' = [worker EXCEPT !.at = "idle", !.rule = NoRule]
    /\ free /\ UNCHANGED <<alerts, incidents, rules>>

\* An error outside the linking of one alert, or a restart, ends the tick.
tickFails ==
    /\ ~Works("idle") /\ fault
    /\ worker' = [at |-> "idle", rule |-> NoRule, list |-> {}, alert |-> None, incident |-> None]
    /\ rules' = {}
    /\ UNCHANGED <<alerts, incidents>>

------------------------------------------------------------------------------
(* Operators.                                                              *)

closeIncident(n) ==
    /\ incidents[n].open /\ edit
    /\ incidents' = [incidents EXCEPT ![n].open = FALSE]
    /\ UNCHANGED <<alerts, worker, rules>>

\* Refused, by the check or by the index, while another one of the printer is open.
reopenIncident(n) ==
    /\ ~incidents[n].open /\ OpenIncidents(incidents[n].of) = {} /\ edit
    /\ incidents' = [incidents EXCEPT ![n].open = TRUE]
    /\ UNCHANGED <<alerts, worker, rules>>

unlinkAlert(n, i) ==
    /\ i \in incidents[n].links /\ edit
    /\ incidents' = [incidents EXCEPT ![n].links = @ \ {i}]
    /\ UNCHANGED <<alerts, worker, rules>>

------------------------------------------------------------------------------

Cloud ==
    \/ \E d \in Devices, t \in Types : openAlert(d, t)
    \/ \E i \in DOMAIN alerts : resolveAlert(i)
Worker ==
    \/ tick \/ findIncident \/ linkAlert \/ autoCloseResolved \/ closeResolved
    \/ ruleDone \/ tickEnds
    \/ \E r \in Rules : processRule(r)
    \/ \E i \in DOMAIN alerts : openIncident(i)
    \/ \E n \in DOMAIN incidents : checkIncident(n)
Operator ==
    \/ \E i \in DOMAIN alerts : UpdateAlert(i)
    \/ \E n \in DOMAIN incidents : closeIncident(n) \/ reopenIncident(n)
    \/ \E n \in DOMAIN incidents, i \in DOMAIN alerts : unlinkAlert(n, i)
Failure == linkFails \/ tickFails

Next == Cloud \/ Worker \/ Operator \/ Failure
Spec == Init /\ [][Next]_vars

\* The worker has a timer, and statements under way end.
FairSpec == Spec /\ WF_vars(Worker)

------------------------------------------------------------------------------

\* Every variable keeps its type; a printer has at most one open incident, whose
\* alerts are its own, opened under the rule that stands for its client.
IncidentsTypeOK ==
    /\ alerts \in Seq([of : Devices, type : Types, open : BOOLEAN])
    /\ Len(alerts) <= MaxAlerts
    /\ incidents \in Seq([of : Devices, rule : Rules, open : BOOLEAN, links : SUBSET Alerts])
    /\ worker.at \in {"idle", "rules", "linking", "find", "link", "closing", "close"}
    /\ worker.rule \in Rules \cup {NoRule}
    /\ worker.alert \in DOMAIN alerts \cup {None}
    /\ worker.incident \in DOMAIN incidents \cup {None}
    /\ worker.list \subseteq DOMAIN alerts \cup DOMAIN incidents
    /\ rules \subseteq Enabled
    /\ edits \in 0 .. MaxEdits /\ faults \in 0 .. MaxFaults
    /\ \A d \in Devices : Cardinality(OpenIncidents(d)) <= 1
    /\ \A n \in DOMAIN incidents :
        /\ ruleApplies(incidents[n].rule, incidents[n].of)
        /\ \A i \in incidents[n].links : i \in DOMAIN alerts /\ alerts[i].of = incidents[n].of

\* An alert that stays open, of a client some enabled rule stands for, is held by an
\* open incident in the end, though the worker may close an incident whose alert came
\* back since it looked, close one it failed to link, or link to one that an operator
\* has just closed (processRule, autoCloseResolved).
Covered(d) == \E r \in Enabled : ruleApplies(r, d)
StaysOpen(i) == i \in DOMAIN alerts /\ alerts[i].open /\ Covered(alerts[i].of)
OpenAlertHasIncident == \A i \in Alerts : <>[]StaysOpen(i) => <>[]Held(i)

=============================================================================

--------------------------- MODULE IncidentsProofs --------------------------
(***************************************************************************)
(* What holds of the incidents for any number of printers, rules, alerts   *)
(* and operations.  A printer has at most one open incident, whose alerts  *)
(* are its own, although the worker looks, inserts and links in separate   *)
(* statements: what it holds between two of them must still be true of     *)
(* tables that the rest of the cloud writes meanwhile.                     *)
(***************************************************************************)
EXTENDS Incidents, SequenceTheorems, FiniteSetTheorems, TLAPS

Alert == [of : Devices, type : Types, open : BOOLEAN]
Incident == [of : Devices, rule : Rules, open : BOOLEAN, links : SUBSET Alerts]
Places == {"idle", "rules", "linking", "find", "link", "closing", "close"}
Hands == [at : Places, rule : Rules \cup {NoRule}, list : SUBSET Nat, alert : Nat, incident : Nat]

Tables ==
    /\ alerts \in Seq(Alert) /\ Len(alerts) <= MaxAlerts
    /\ incidents \in Seq(Incident)
Bounds == rules \subseteq Enabled /\ edits \in 0 .. MaxEdits /\ faults \in 0 .. MaxFaults
OneOpen ==
    \A m, n \in DOMAIN incidents :
        incidents[m].open /\ incidents[n].open /\ incidents[m].of = incidents[n].of => m = n
RuleStands == \A n \in DOMAIN incidents : ruleApplies(incidents[n].rule, incidents[n].of)
LinksAreOwn ==
    \A n \in DOMAIN incidents : \A i \in incidents[n].links :
        i \in DOMAIN alerts /\ alerts[i].of = incidents[n].of
\* What the worker holds: alerts its rule stands for, an incident of the
\* printer whose alert it is about to link.
InHand ==
    /\ worker \in Hands
    /\ worker.alert \in DOMAIN alerts \cup {None}
    /\ worker.incident \in DOMAIN incidents \cup {None}
    /\ worker.at \in {"idle", "rules"} => worker.list = {}
    /\ worker.at \in {"linking", "find", "link"} =>
          /\ worker.rule \in Rules
          /\ \A i \in worker.list : i \in DOMAIN alerts /\ ruleApplies(worker.rule, alerts[i].of)
    /\ worker.at \in {"find", "link"} => worker.alert \in DOMAIN alerts
    /\ worker.at = "link" =>
          /\ worker.incident \in DOMAIN incidents
          /\ incidents[worker.incident].of = alerts[worker.alert].of
    /\ worker.at \in {"closing", "close"} => worker.list \subseteq DOMAIN incidents
    /\ worker.at = "close" => worker.incident \in DOMAIN incidents
IncidentInv == Tables /\ Bounds /\ OneOpen /\ RuleStands /\ LinksAreOwn /\ InHand

\* The tables only grow, and a row keeps its printer and its rule.
AlertsKept ==
    /\ DOMAIN alerts \subseteq DOMAIN alerts'
    /\ \A i \in DOMAIN alerts : alerts'[i].of = alerts[i].of
IncidentsKept ==
    /\ DOMAIN incidents \subseteq DOMAIN incidents'
    /\ \A n \in DOMAIN incidents :
           incidents'[n].of = incidents[n].of /\ incidents'[n].rule = incidents[n].rule

----------------------------------------------------------------------------
(* The rows of the tables *)

\* The positions of a row are numbers, and a row has its fields.
LEMMA Rows ==
    ASSUME Tables
    PROVE  /\ \A i \in DOMAIN alerts :
                  /\ i \in Nat /\ i \in Alerts /\ i # None
                  /\ alerts[i] \in Alert /\ alerts[i].of \in Devices
           /\ \A n \in DOMAIN incidents :
                  /\ n \in Nat /\ n # None
                  /\ incidents[n] \in Incident
                  /\ incidents[n].of \in Devices /\ incidents[n].rule \in Rules
                  /\ incidents[n].links \subseteq Alerts
           /\ DOMAIN alerts = 1 .. Len(alerts) /\ Len(alerts) \in Nat
           /\ DOMAIN incidents = 1 .. Len(incidents) /\ Len(incidents) \in Nat
<1>1. /\ DOMAIN alerts = 1 .. Len(alerts) /\ Len(alerts) \in Nat
      /\ DOMAIN incidents = 1 .. Len(incidents) /\ Len(incidents) \in Nat
    BY LenProperties DEF Tables
<1>2. \A i \in DOMAIN alerts : alerts[i] \in Alert
    BY <1>1, ElementOfSeq DEF Tables
<1>3. \A n \in DOMAIN incidents : incidents[n] \in Incident
    BY <1>1, ElementOfSeq DEF Tables
<1>4. \A i \in DOMAIN alerts : i \in Nat /\ i \in Alerts /\ i # None
    BY <1>1, IncidentsAssumption DEF Tables, Alerts, None
<1> QED BY <1>1, <1>2, <1>3, <1>4 DEF Alert, Incident, None

\* An alert that is resolved or opened again is otherwise the same.
LEMMA AlertSet ==
    ASSUME Tables, NEW i \in DOMAIN alerts, NEW v \in BOOLEAN,
           alerts' = [alerts EXCEPT ![i].open = v], UNCHANGED incidents
    PROVE  Tables' /\ AlertsKept /\ IncidentsKept
<1> PICK x : x = [alerts[i] EXCEPT !.open = v]
    OBVIOUS
<1>1. x \in Alert /\ x.of = alerts[i].of
    BY Rows DEF Alert
<1>2. alerts' = [alerts EXCEPT ![i] = x]
    OBVIOUS
<1>3. alerts' \in Seq(Alert) /\ Len(alerts') = Len(alerts)
    BY <1>1, <1>2, Rows, ExceptSeq DEF Tables
<1>4. AlertsKept
    BY <1>1, <1>2 DEF AlertsKept
<1> QED BY <1>3, <1>4 DEF Tables, IncidentsKept

\* A new alert is the last one.
LEMMA AlertAdded ==
    ASSUME Tables, Len(alerts) < MaxAlerts, NEW x \in Alert,
           alerts' = Append(alerts, x), UNCHANGED incidents
    PROVE  Tables' /\ AlertsKept /\ IncidentsKept
<1>1. /\ alerts' \in Seq(Alert) /\ Len(alerts') = Len(alerts) + 1
      /\ \A i \in 1 .. Len(alerts) : alerts'[i] = alerts[i]
    BY AppendProperties DEF Tables
<1>2. DOMAIN alerts' = 1 .. Len(alerts')
    BY <1>1, LenProperties
<1> QED BY <1>1, <1>2, Rows, IncidentsAssumption DEF Tables, AlertsKept, IncidentsKept

\* An incident whose fields other than its printer and rule change is otherwise
\* the same, and the others are untouched.
LEMMA IncidentSet ==
    ASSUME Tables, NEW n \in DOMAIN incidents, NEW x \in Incident,
           x.of = incidents[n].of, x.rule = incidents[n].rule,
           incidents' = [incidents EXCEPT ![n] = x], UNCHANGED alerts
    PROVE  /\ Tables' /\ AlertsKept /\ IncidentsKept
           /\ DOMAIN incidents' = DOMAIN incidents /\ incidents'[n] = x
           /\ \A m \in DOMAIN incidents : m # n => incidents'[m] = incidents[m]
<1>1. incidents' \in Seq(Incident) /\ Len(incidents') = Len(incidents)
    BY Rows, ExceptSeq DEF Tables
<1>2. DOMAIN incidents' = DOMAIN incidents
    OBVIOUS
<1> QED BY <1>1, <1>2 DEF Tables, AlertsKept, IncidentsKept

\* A new incident is the last one.
LEMMA IncidentAdded ==
    ASSUME Tables, NEW x \in Incident, incidents' = Append(incidents, x), UNCHANGED alerts
    PROVE  /\ Tables' /\ AlertsKept /\ IncidentsKept
           /\ DOMAIN incidents' = DOMAIN incidents \cup {Len(incidents) + 1}
           /\ incidents'[Len(incidents) + 1] = x
           /\ \A m \in DOMAIN incidents : incidents'[m] = incidents[m]
<1>1. /\ incidents' \in Seq(Incident) /\ Len(incidents') = Len(incidents) + 1
      /\ \A i \in 1 .. Len(incidents) : incidents'[i] = incidents[i]
      /\ incidents'[Len(incidents) + 1] = x
    BY AppendProperties DEF Tables
<1>2. DOMAIN incidents' = 1 .. Len(incidents')
    BY <1>1, LenProperties
<1> QED BY <1>1, <1>2, Rows DEF Tables, AlertsKept, IncidentsKept

----------------------------------------------------------------------------
(* Who a step disturbs *)

\* The worker's hands hold what they held while the tables only grow.
LEMMA HandsStay ==
    ASSUME IncidentInv, UNCHANGED worker, AlertsKept, IncidentsKept
    PROVE  InHand'
BY DEF IncidentInv, InHand, AlertsKept, IncidentsKept, ruleApplies

\* A step that leaves the incidents alone leaves their rules and links right.
LEMMA IncidentsStay ==
    ASSUME IncidentInv, UNCHANGED incidents, AlertsKept
    PROVE  OneOpen' /\ RuleStands' /\ LinksAreOwn'
BY DEF IncidentInv, OneOpen, RuleStands, LinksAreOwn, AlertsKept, ruleApplies

\* A step of the tables' other writers on the alerts.
LEMMA AlertStep ==
    ASSUME IncidentInv, UNCHANGED <<incidents, worker>>, Tables', Bounds', AlertsKept, IncidentsKept
    PROVE  IncidentInv'
BY HandsStay, IncidentsStay DEF IncidentInv

\* A step of the worker that only reads.
LEMMA WorkerReads ==
    ASSUME IncidentInv, UNCHANGED <<alerts, incidents>>, Bounds', InHand'
    PROVE  IncidentInv'
BY DEF IncidentInv, Tables, OneOpen, RuleStands, LinksAreOwn, ruleApplies

\* An incident that does not open, and is linked to alerts of its printer only,
\* leaves the incidents right.
LEMMA IncidentStep ==
    ASSUME IncidentInv, NEW n \in DOMAIN incidents, NEW x \in Incident,
           x.of = incidents[n].of, x.rule = incidents[n].rule,
           x.open => incidents[n].open \/ OpenIncidents(x.of) = {},
           \A i \in x.links : i \in DOMAIN alerts /\ alerts[i].of = x.of,
           incidents' = [incidents EXCEPT ![n] = x], UNCHANGED alerts
    PROVE  Tables' /\ AlertsKept /\ IncidentsKept /\ OneOpen' /\ RuleStands' /\ LinksAreOwn'
<1> USE DEF IncidentInv
<1>1. /\ Tables' /\ AlertsKept /\ IncidentsKept
      /\ DOMAIN incidents' = DOMAIN incidents /\ incidents'[n] = x
      /\ \A m \in DOMAIN incidents : m # n => incidents'[m] = incidents[m]
    BY IncidentSet
<1>2. OneOpen'
    BY <1>1 DEF OneOpen, OpenIncidents
<1>3. RuleStands'
    BY <1>1 DEF RuleStands, ruleApplies
<1>4. LinksAreOwn'
    BY <1>1 DEF LinksAreOwn
<1> QED BY <1>1, <1>2, <1>3, <1>4

\* Counting an operation, an error or neither keeps the bounds.
LEMMA Counting ==
    ASSUME IncidentInv, fault \/ edit \/ free, rules' \subseteq Enabled
    PROVE  Bounds'
BY IncidentsAssumption DEF IncidentInv, Bounds, fault, edit, free

----------------------------------------------------------------------------
(* The steps *)

\* The cloud's and the operators' steps on alerts.
LEMMA AlertSteps ==
    ASSUME IncidentInv,
           \/ \E d \in Devices, t \in Types : openAlert(d, t)
           \/ \E i \in DOMAIN alerts : resolveAlert(i) \/ UpdateAlert(i)
    PROVE  IncidentInv'
<1> USE DEF IncidentInv
<1>0. Bounds'
    BY Counting DEF openAlert, resolveAlert, UpdateAlert, Bounds
<1>1. ASSUME NEW d \in Devices, NEW t \in Types, openAlert(d, t) PROVE IncidentInv'
    <2>1. [of |-> d, type |-> t, open |-> TRUE] \in Alert
        BY DEF Alert
    <2>2. Tables' /\ AlertsKept /\ IncidentsKept
        BY <1>1, <2>1, AlertAdded DEF openAlert
    <2> QED BY <1>0, <1>1, <2>2, AlertStep DEF openAlert
<1>2. ASSUME NEW i \in DOMAIN alerts, resolveAlert(i) PROVE IncidentInv'
    <2>1. Tables' /\ AlertsKept /\ IncidentsKept
        BY <1>2, AlertSet DEF resolveAlert
    <2> QED BY <1>0, <1>2, <2>1, AlertStep DEF resolveAlert
<1>3. ASSUME NEW i \in DOMAIN alerts, UpdateAlert(i) PROVE IncidentInv'
    <2>1. Tables' /\ AlertsKept /\ IncidentsKept
        BY <1>3, AlertSet DEF UpdateAlert
    <2> QED BY <1>0, <1>3, <2>1, AlertStep DEF UpdateAlert
<1> QED BY <1>1, <1>2, <1>3

\* The operators' steps on incidents.
LEMMA OperatorSteps ==
    ASSUME IncidentInv, NEW n \in DOMAIN incidents,
           \/ closeIncident(n) \/ reopenIncident(n)
           \/ \E i \in DOMAIN alerts : unlinkAlert(n, i)
    PROVE  IncidentInv'
<1> USE DEF IncidentInv
<1>0. Bounds'
    BY Counting DEF closeIncident, reopenIncident, unlinkAlert, Bounds
<1>1. ASSUME NEW x \in Incident, x.of = incidents[n].of, x.rule = incidents[n].rule,
             x.open => incidents[n].open \/ OpenIncidents(x.of) = {},
             x.links \subseteq incidents[n].links,
             incidents' = [incidents EXCEPT ![n] = x], UNCHANGED <<alerts, worker>>
      PROVE  IncidentInv'
    <2>1. Tables' /\ AlertsKept /\ IncidentsKept /\ OneOpen' /\ RuleStands' /\ LinksAreOwn'
        <3>1. \A i \in x.links : i \in DOMAIN alerts /\ alerts[i].of = x.of
            BY <1>1 DEF LinksAreOwn
        <3> QED BY <1>1, <3>1, IncidentStep
    <2> QED BY <1>0, <1>1, <2>1, HandsStay
<1>2. incidents[n] \in Incident
    BY Rows
<1>3. CASE closeIncident(n)
    <2> PICK x : x = [incidents[n] EXCEPT !.open = FALSE]
        OBVIOUS
    <2>1. /\ x \in Incident /\ x.of = incidents[n].of /\ x.rule = incidents[n].rule
          /\ x.open = FALSE /\ x.links = incidents[n].links
        BY <1>2 DEF Incident
    <2>2. incidents' = [incidents EXCEPT ![n] = x] /\ UNCHANGED <<alerts, worker>>
        BY <1>3 DEF closeIncident
    <2> QED BY <1>1, <2>1, <2>2
<1>4. CASE reopenIncident(n)
    <2> PICK x : x = [incidents[n] EXCEPT !.open = TRUE]
        OBVIOUS
    <2>1. /\ x \in Incident /\ x.of = incidents[n].of /\ x.rule = incidents[n].rule
          /\ x.links = incidents[n].links
        BY <1>2 DEF Incident
    <2>2. incidents' = [incidents EXCEPT ![n] = x] /\ UNCHANGED <<alerts, worker>>
        BY <1>4 DEF reopenIncident
    <2>3. OpenIncidents(x.of) = {}
        BY <1>4, <2>1 DEF reopenIncident
    <2> QED BY <1>1, <2>1, <2>2, <2>3
<1>5. ASSUME NEW i \in DOMAIN alerts, unlinkAlert(n, i) PROVE IncidentInv'
    <2> PICK x : x = [incidents[n] EXCEPT !.links = @ \ {i}]
        OBVIOUS
    <2>1. /\ x \in Incident /\ x.of = incidents[n].of /\ x.rule = incidents[n].rule
          /\ x.open = incidents[n].open /\ x.links = incidents[n].links \ {i}
        BY <1>2 DEF Incident
    <2>2. incidents' = [incidents EXCEPT ![n] = x] /\ UNCHANGED <<alerts, worker>>
        BY <1>5 DEF unlinkAlert
    <2> QED BY <1>1, <2>1, <2>2
<1> QED BY <1>3, <1>4, <1>5

\* Turning to a place with a list leaves the hands with that list alone.
LEMMA Turning ==
    ASSUME IncidentInv, NEW place \in Places, NEW list \in SUBSET Nat, Turns(place, list)
    PROVE  /\ worker' \in Hands /\ worker'.at = place /\ worker'.list = list
           /\ worker'.rule = worker.rule /\ worker'.alert = None /\ worker'.incident = None
BY DEF IncidentInv, InHand, Turns, Hands, None

\* The worker's steps that write nothing.
LEMMA ReadingSteps ==
    ASSUME IncidentInv,
           \/ tick \/ findIncident \/ linkFails \/ autoCloseResolved \/ ruleDone \/ tickEnds
           \/ tickFails
           \/ \E r \in Rules : processRule(r)
           \/ \E n \in DOMAIN incidents : checkIncident(n)
           \/ \E i \in DOMAIN alerts : openIncident(i) /\ UNCHANGED incidents
    PROVE  IncidentInv'
<1> USE DEF IncidentInv
<1>0. UNCHANGED <<alerts, incidents>>
    BY DEF tick, findIncident, linkFails, autoCloseResolved, ruleDone, tickEnds, tickFails,
           processRule, checkIncident, openIncident
<1>1. Bounds'
    BY Counting DEF tick, findIncident, linkFails, autoCloseResolved, ruleDone, tickEnds, tickFails,
           processRule, checkIncident, openIncident, Bounds
<1> SUFFICES InHand'
    BY <1>0, <1>1, WorkerReads
<1>2. worker \in Hands /\ worker.list \subseteq Nat
    BY DEF InHand, Hands
<1>3. CASE tick \/ ruleDone
    <2>1. Turns("rules", {})
        BY <1>3 DEF tick, ruleDone
    <2> QED BY <1>0, <2>1, Turning DEF InHand, Places
<1>4. CASE findIncident
    <2>0. Works("find")
        BY <1>4 DEF findIncident
    <2>1. ASSUME NEW n \in OpenIncidents(alerts[worker.alert].of),
                 worker' = [worker EXCEPT !.at = "link", !.incident = n]
          PROVE  InHand'
        <3>1. n \in DOMAIN incidents /\ incidents[n].of = alerts[worker.alert].of /\ n \in Nat
            BY Rows DEF OpenIncidents
        <3>2. /\ worker' \in Hands /\ worker'.at = "link" /\ worker'.incident = n
              /\ worker'.rule = worker.rule /\ worker'.list = worker.list
              /\ worker'.alert = worker.alert
            BY <1>2, <2>1, <3>1 DEF Hands, Places
        <3> QED BY <1>0, <2>0, <3>1, <3>2 DEF InHand, Works
    <2>2. CASE Turns("linking", worker.list)
        BY <1>0, <1>2, <2>0, <2>2, Turning DEF InHand, Works, Places
    <2> QED BY <1>4, <2>1, <2>2 DEF findIncident
<1>5. CASE linkFails
    BY <1>0, <1>2, <1>5, Turning DEF InHand, Works, Places, linkFails
<1>6. CASE autoCloseResolved
    <2>1. CASE Turns("rules", {})
        BY <1>0, <2>1, Turning DEF InHand, Places
    <2>2. CASE Turns("closing", openIncidentsOf(worker.rule))
        <3>1. openIncidentsOf(worker.rule) \subseteq DOMAIN incidents /\ DOMAIN incidents \subseteq Nat
            BY Rows DEF openIncidentsOf
        <3> HIDE DEF IncidentInv
        <3>2. /\ worker' \in Hands /\ worker'.at = "closing"
              /\ worker'.list = openIncidentsOf(worker.rule)
              /\ worker'.alert = None /\ worker'.incident = None
            BY <2>2, <3>1, Turning DEF Places
        <3> QED BY <1>0, <3>1, <3>2 DEF InHand
    <2> QED BY <1>6, <2>1, <2>2 DEF autoCloseResolved
<1>7. CASE tickEnds
    <2>1. /\ worker' \in Hands /\ worker'.at = "idle" /\ worker'.list = worker.list
          /\ worker'.alert = worker.alert /\ worker'.incident = worker.incident
        BY <1>2, <1>7 DEF tickEnds, Hands, Places
    <2> QED BY <1>0, <1>7, <2>1 DEF InHand, tickEnds, Works
<1>8. CASE tickFails
    BY <1>0, <1>8 DEF tickFails, InHand, Hands, Places, None
<1>9. ASSUME NEW r \in Rules, processRule(r) PROVE InHand'
    <2>1. /\ eligibleAlertsForRule(r) \subseteq DOMAIN alerts /\ DOMAIN alerts \subseteq Nat
          /\ \A i \in eligibleAlertsForRule(r) : ruleApplies(r, alerts[i].of)
        BY Rows DEF eligibleAlertsForRule
    <2>2. /\ worker' \in Hands /\ worker'.at = "linking" /\ worker'.rule = r
          /\ worker'.list = eligibleAlertsForRule(r)
          /\ worker'.alert = worker.alert /\ worker'.incident = worker.incident
        BY <1>2, <1>9, <2>1 DEF processRule, Hands, Places
    <2> QED BY <1>0, <2>1, <2>2 DEF InHand, ruleApplies
<1>10. ASSUME NEW n \in DOMAIN incidents, checkIncident(n) PROVE InHand'
    <2>1. Works("closing")
        BY <1>10 DEF checkIncident
    <2>2. n \in Nat
        BY Rows
    <2>3. /\ worker' \in Hands /\ worker'.at \in {"closing", "close"}
          /\ worker'.list \subseteq worker.list
          /\ worker'.alert = worker.alert
          /\ worker'.incident \in {worker.incident, n}
          /\ worker'.at = "close" => worker'.incident = n
        BY <1>2, <1>10, <2>1, <2>2 DEF checkIncident, Works, Hands, Places
    <2> QED BY <1>0, <2>1, <2>3 DEF InHand, Works
<1>11. ASSUME NEW i \in DOMAIN alerts, openIncident(i), UNCHANGED incidents PROVE InHand'
    <2>1. Works("linking")
        BY <1>11 DEF openIncident
    <2>2. i \in Nat /\ Len(incidents) \in Nat
        BY Rows
    <2>3. worker' = [worker EXCEPT !.at = "find", !.list = @ \ {i}, !.alert = i, !.incident = None]
        <3>1. incidents # Append(incidents, [of |-> alerts[i].of, rule |-> worker.rule,
                                             open |-> TRUE, links |-> {}])
            <4>1. Len(Append(incidents, [of |-> alerts[i].of, rule |-> worker.rule,
                                         open |-> TRUE, links |-> {}])) = Len(incidents) + 1
                <5>1. [of |-> alerts[i].of, rule |-> worker.rule, open |-> TRUE, links |-> {}]
                          \in Incident
                    BY <2>1, Rows DEF Incident, InHand, Works
                <5> QED BY <5>1, AppendProperties DEF Tables
            <4> QED BY <2>2, <4>1
        <3> QED BY <1>11, <3>1 DEF openIncident
    <2>4. /\ worker' \in Hands /\ worker'.at = "find" /\ worker'.list \subseteq worker.list
          /\ worker'.alert = i /\ worker'.incident = None /\ worker'.rule = worker.rule
        BY <1>2, <2>2, <2>3 DEF Hands, Places, None
    <2> QED BY <1>0, <2>1, <2>4 DEF InHand, Works
<1> QED BY <1>3, <1>4, <1>5, <1>6, <1>7, <1>8, <1>9, <1>10, <1>11

\* The INSERT makes an incident for a printer that has none open.
LEMMA OpenStep ==
    ASSUME IncidentInv, NEW i \in DOMAIN alerts, openIncident(i), incidents' # incidents
    PROVE  IncidentInv'
<1> USE DEF IncidentInv
<1> PICK x : x = [of |-> alerts[i].of, rule |-> worker.rule, open |-> TRUE, links |-> {}]
    OBVIOUS
<1>0. /\ Works("linking") /\ i \in worker.list /\ OpenIncidents(alerts[i].of) = {}
      /\ incidents' = Append(incidents, x) /\ UNCHANGED <<alerts, rules>> /\ free
      /\ worker' = [worker EXCEPT !.at = "link", !.list = @ \ {i}, !.alert = i,
                                  !.incident = Len(incidents) + 1]
    BY DEF openIncident
<1>1. /\ x \in Incident /\ x.of = alerts[i].of /\ x.rule = worker.rule /\ x.links = {}
      /\ ruleApplies(worker.rule, alerts[i].of)
    BY <1>0, Rows DEF Incident, InHand, Works
<1>2. /\ Tables' /\ AlertsKept /\ IncidentsKept
      /\ DOMAIN incidents' = DOMAIN incidents \cup {Len(incidents) + 1}
      /\ incidents'[Len(incidents) + 1] = x
      /\ \A m \in DOMAIN incidents : incidents'[m] = incidents[m]
    BY <1>0, <1>1, IncidentAdded
<1>3. OneOpen'
    BY <1>0, <1>1, <1>2 DEF OneOpen, OpenIncidents
<1>4. RuleStands'
    BY <1>1, <1>2 DEF RuleStands, ruleApplies
<1>5. LinksAreOwn'
    BY <1>0, <1>1, <1>2 DEF LinksAreOwn
<1>6. InHand'
    <2>1. i \in Nat /\ Len(incidents) + 1 \in Nat /\ worker \in Hands
        BY Rows DEF InHand
    <2>2. /\ worker' \in Hands /\ worker'.at = "link" /\ worker'.list \subseteq worker.list
          /\ worker'.alert = i /\ worker'.incident = Len(incidents) + 1
          /\ worker'.rule = worker.rule
        BY <1>0, <2>1 DEF Hands, Places
    <2>3. /\ i \in DOMAIN alerts' /\ Len(incidents) + 1 \in DOMAIN incidents'
          /\ incidents'[Len(incidents) + 1].of = alerts'[i].of
        BY <1>0, <1>1, <1>2
    <2> QED BY <1>0, <1>2, <2>2, <2>3 DEF InHand, Works, ruleApplies
<1> QED BY <1>0, <1>2, <1>3, <1>4, <1>5, <1>6, Counting DEF Bounds

\* The worker's UPDATEs of an incident: an alert of its printer is linked, or
\* the incident is closed.
LEMMA WritingSteps ==
    ASSUME IncidentInv, linkAlert \/ closeResolved
    PROVE  IncidentInv'
<1> USE DEF IncidentInv
<1> DEFINE n == worker.incident
<1>0. Bounds' /\ UNCHANGED alerts
    BY Counting DEF linkAlert, closeResolved, Bounds
<1>1. CASE linkAlert
    <2> PICK x : x = [incidents[n] EXCEPT !.links = @ \cup {worker.alert}]
        OBVIOUS
    <2>1. /\ n \in DOMAIN incidents /\ worker.alert \in DOMAIN alerts /\ worker.alert \in Alerts
          /\ incidents[n].of = alerts[worker.alert].of /\ incidents[n] \in Incident
        BY <1>1, Rows DEF linkAlert, InHand, Works
    <2>2. /\ x \in Incident /\ x.of = incidents[n].of /\ x.rule = incidents[n].rule
          /\ x.open = incidents[n].open /\ x.links = incidents[n].links \cup {worker.alert}
        BY <2>1 DEF Incident
    <2>3. incidents' = [incidents EXCEPT ![n] = x] /\ Turns("linking", worker.list)
        BY <1>1 DEF linkAlert
    <2>4. \A i \in x.links : i \in DOMAIN alerts /\ alerts[i].of = x.of
        BY <2>1, <2>2 DEF LinksAreOwn
    <2>5. Tables' /\ AlertsKept /\ IncidentsKept /\ OneOpen' /\ RuleStands' /\ LinksAreOwn'
        <3>1. n \in DOMAIN incidents /\ x \in Incident /\ x.of = incidents[n].of /\ x.rule = incidents[n].rule
            BY <2>1, <2>2
        <3>2. x.open => incidents[n].open \/ OpenIncidents(x.of) = {}
            BY <2>2
        <3> QED BY ONLY IncidentInv, <1>0, <2>3, <2>4, <3>1, <3>2, IncidentStep
    <2>6. worker.list \in SUBSET Nat
        BY DEF InHand, Hands
    <2>7. InHand'
        BY <1>0, <1>1, <2>3, <2>6, Turning DEF linkAlert, InHand, Works, Places
    <2> QED BY <1>0, <2>5, <2>7
<1>2. CASE closeResolved
    <2> PICK x : x = [incidents[n] EXCEPT !.open = FALSE]
        OBVIOUS
    <2>1. n \in DOMAIN incidents /\ incidents[n] \in Incident
        BY <1>2, Rows DEF closeResolved, InHand, Works
    <2>2. /\ x \in Incident /\ x.of = incidents[n].of /\ x.rule = incidents[n].rule
          /\ x.open = FALSE /\ x.links = incidents[n].links
        BY <2>1 DEF Incident
    <2>3. incidents' = [incidents EXCEPT ![n] = x] /\ Turns("closing", worker.list)
        BY <1>2 DEF closeResolved
    <2>4. \A i \in x.links : i \in DOMAIN alerts /\ alerts[i].of = x.of
        BY <2>1, <2>2 DEF LinksAreOwn
    <2>5. Tables' /\ AlertsKept /\ IncidentsKept /\ OneOpen' /\ RuleStands' /\ LinksAreOwn'
        BY <1>0, <2>1, <2>2, <2>3, <2>4, IncidentStep
    <2>6. worker.list \in SUBSET Nat
        BY DEF InHand, Hands
    <2>7. /\ worker' \in Hands /\ worker'.at = "closing" /\ worker'.list = worker.list
          /\ worker'.alert = None /\ worker'.incident = None
        BY <2>3, <2>6, Turning DEF Places
    <2>8. worker.list \subseteq DOMAIN incidents'
        BY <1>2, <2>5 DEF closeResolved, InHand, Works, IncidentsKept
    <2>9. InHand'
        BY <2>7, <2>8 DEF InHand
    <2> QED BY <1>0, <2>5, <2>9
<1> QED BY <1>1, <1>2

\* The invariant is inductive.
LEMMA IncidentInvStep == IncidentInv /\ [Next]_vars => IncidentInv'
<1> SUFFICES ASSUME IncidentInv, [Next]_vars PROVE IncidentInv'
    OBVIOUS
<1>1. CASE UNCHANGED vars
    BY <1>1 DEF vars, IncidentInv, Tables, Bounds, OneOpen, RuleStands, LinksAreOwn, InHand,
                ruleApplies
<1>2. CASE Cloud
    BY <1>2, AlertSteps DEF Cloud
<1>3. CASE Worker
    BY <1>3, ReadingSteps, OpenStep, WritingSteps DEF Worker
<1>4. CASE Operator
    BY <1>4, AlertSteps, OperatorSteps DEF Operator
<1>5. CASE Failure
    BY <1>5, ReadingSteps DEF Failure
<1> QED BY <1>1, <1>2, <1>3, <1>4, <1>5 DEF Next

\* At first there is neither alert nor incident.
LEMMA IncidentInvInit == Init => IncidentInv
<1> SUFFICES ASSUME Init PROVE IncidentInv
    OBVIOUS
<1>1. /\ alerts \in Seq(Alert) /\ incidents \in Seq(Incident)
      /\ Len(alerts) = 0 /\ DOMAIN alerts = {} /\ DOMAIN incidents = {}
    BY EmptySeq DEF Init
<1> QED
    BY <1>1, IncidentsAssumption
       DEF Init, IncidentInv, Tables, Bounds, OneOpen, RuleStands, LinksAreOwn, InHand, Hands,
           Places, None

\* Every variable keeps its type, a printer has at most one open incident, and
\* the alerts of an incident are its printer's, under a rule that stands for
\* its client (openIncident's ON CONFLICT, reopenIncident, linkAlert).
THEOREM IncidentsTypeCorrect == Spec => []IncidentsTypeOK
<1>1. IncidentInv => IncidentsTypeOK
    <2> SUFFICES ASSUME IncidentInv PROVE IncidentsTypeOK
        OBVIOUS
    <2> USE DEF IncidentInv
    <2>1. ASSUME NEW d \in Devices PROVE Cardinality(OpenIncidents(d)) <= 1
        <3>1. CASE OpenIncidents(d) = {}
            BY <3>1, FS_EmptySet
        <3>2. ASSUME NEW n \in OpenIncidents(d) PROVE Cardinality(OpenIncidents(d)) = 1
            <4>1. OpenIncidents(d) = {n}
                BY <3>2 DEF OneOpen, OpenIncidents
            <4> QED BY <4>1, FS_Singleton
        <3> QED BY <3>1, <3>2
    <2>2. worker.list \subseteq DOMAIN alerts \cup DOMAIN incidents
        BY DEF InHand, Hands, Places
    <2> QED
        BY <2>1, <2>2
           DEF IncidentsTypeOK, Tables, Bounds, RuleStands, LinksAreOwn, InHand, Hands, Places,
               Alert, Incident
<1> QED BY <1>1, IncidentInvInit, IncidentInvStep, PTL DEF Spec

=============================================================================

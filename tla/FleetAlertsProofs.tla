------------------------- MODULE FleetAlertsProofs -------------------------
(***************************************************************************)
(* What holds of the alerts about silence for any agents and devices and   *)
(* any number of silences, operations and failures: types, one open alert  *)
(* of a type per target, and that a retired device stays quiet.            *)
(***************************************************************************)
EXTENDS FleetAlerts, FiniteSetTheorems, TLAPS

----------------------------------------------------------------------------
(* Types.  The count of open alerts is not inductive as it stands: what is   *)
(* kept is that two open alerts of one target are the same one.             *)

Alert == [of : Targets, open : BOOLEAN]
Places == {"idle", "open agent", "resolve agent", "open device", "resolve device"}

PeopleOK ==
    /\ heard \subseteq Targets /\ offline \subseteq Agents /\ beating \subseteq Agents
    /\ active \subseteq Devices /\ retired \subseteq Devices /\ muted \subseteq Devices
    /\ syncing \subseteq Devices /\ jobs \subseteq Devices /\ judged \subseteq Devices
    /\ quiet \subseteq Devices
MonitorOK == monitor \in [at : Places, list : SUBSET Targets]
AlertsOK == alerts \in Seq(Alert)
OneOpen == \A i, j \in DOMAIN alerts :
               alerts[i].open /\ alerts[j].open /\ alerts[i].of = alerts[j].of => i = j
BoundsOK == silences \in 0 .. MaxSilences /\ edits \in 0 .. MaxEdits /\ faults \in 0 .. MaxFaults
FleetInv == PeopleOK /\ MonitorOK /\ AlertsOK /\ OneOpen /\ BoundsOK

LEMMA FleetInvTypes == FleetInv => FleetTypeOK
<1> SUFFICES ASSUME FleetInv PROVE FleetTypeOK
    OBVIOUS
<1>1. ASSUME NEW x \in Targets PROVE Cardinality(OpenAlerts(x)) <= 1
    <2>1. CASE OpenAlerts(x) = {}
        BY <2>1, FS_EmptySet
    <2>2. CASE OpenAlerts(x) # {}
        <3>1. PICK i : i \in OpenAlerts(x)
            BY <2>2
        <3>2. OpenAlerts(x) = {i}
            BY <3>1 DEF FleetInv, OneOpen, OpenAlerts
        <3> QED BY <3>2, FS_Singleton
    <2> QED BY <2>1, <2>2
<1> QED BY <1>1 DEF FleetInv, PeopleOK, MonitorOK, AlertsOK, BoundsOK, FleetTypeOK, Alert, Places

LEMMA FleetInit == Init => FleetInv
<1> SUFFICES ASSUME Init PROVE FleetInv
    OBVIOUS
<1>1. PeopleOK
    BY DEF Init, PeopleOK, Targets
<1>2. MonitorOK
    BY DEF Init, MonitorOK, Places
<1>3. AlertsOK /\ OneOpen
    BY DEF Init, AlertsOK, OneOpen
<1>4. BoundsOK
    BY FleetAssumption DEF Init, BoundsOK
<1> QED BY <1>1, <1>2, <1>3, <1>4 DEF FleetInv

\* What opens, resolves or takes back an alert keeps the alerts what they are.
LEMMA OpeningKeeps ==
    ASSUME AlertsOK, OneOpen, NEW x \in Targets, openAlert(x)
    PROVE  AlertsOK' /\ OneOpen'
<1>1. CASE alerts' = alerts
    BY <1>1 DEF AlertsOK, OneOpen
<1>2. CASE alerts' = Append(alerts, [of |-> x, open |-> TRUE]) /\ ~IsOpen(x)
    <2>1. [of |-> x, open |-> TRUE] \in Alert
        BY DEF Alert
    <2>2. AlertsOK'
        BY <1>2, <2>1 DEF AlertsOK
    <2>3. /\ DOMAIN alerts = 1 .. Len(alerts) /\ DOMAIN alerts' = 1 .. Len(alerts) + 1
          /\ Len(alerts) \in Nat
          /\ \A i \in DOMAIN alerts : alerts'[i] = alerts[i]
          /\ alerts'[Len(alerts) + 1] = [of |-> x, open |-> TRUE]
        BY <1>2, <2>1 DEF AlertsOK
    <2>4. \A i \in DOMAIN alerts : ~(alerts[i].open /\ alerts[i].of = x)
        BY <1>2 DEF IsOpen, OpenAlerts
    <2>5. OneOpen'
        BY <2>3, <2>4 DEF OneOpen
    <2> QED BY <2>2, <2>5
<1> QED BY <1>1, <1>2 DEF openAlert

LEMMA ResolvingKeeps ==
    ASSUME AlertsOK, OneOpen, NEW S, resolveOpen(S)
    PROVE  /\ AlertsOK' /\ OneOpen'
           /\ DOMAIN alerts' = DOMAIN alerts
           /\ \A i \in DOMAIN alerts : /\ alerts'[i].of = alerts[i].of
                                       /\ alerts'[i].open = (alerts[i].open /\ alerts[i].of \notin S)
<1> DEFINE after(i) == [alerts[i] EXCEPT !.open = alerts[i].open /\ alerts[i].of \notin S]
<1>1. \A i \in DOMAIN alerts : alerts[i] \in Alert
    BY DEF AlertsOK
<1>2. ASSUME NEW i \in DOMAIN alerts
      PROVE  /\ after(i) \in Alert /\ after(i).of = alerts[i].of
             /\ after(i).open = (alerts[i].open /\ alerts[i].of \notin S)
    BY <1>1 DEF Alert
<1>3. alerts' = [i \in DOMAIN alerts |-> after(i)]
    BY DEF resolveOpen
<1> HIDE DEF after
<1>4. AlertsOK'
    BY <1>2, <1>3 DEF AlertsOK
<1>5. DOMAIN alerts' = DOMAIN alerts /\ \A i \in DOMAIN alerts : alerts'[i] = after(i)
    BY <1>3
<1>6. OneOpen'
    BY <1>2, <1>5, ZenonT(60) DEF OneOpen
<1> QED BY <1>2, <1>4, <1>5, <1>6

LEMMA UpdatingKeeps ==
    ASSUME AlertsOK, OneOpen, NEW i \in DOMAIN alerts, UpdateAlert(i)
    PROVE  AlertsOK' /\ OneOpen'
<1>1. alerts[i] \in Alert /\ [alerts[i] EXCEPT !.open = ~alerts[i].open] \in Alert
    <2>1. alerts[i] \in Alert
        BY DEF AlertsOK
    <2>2. \A b \in BOOLEAN : [alerts[i] EXCEPT !.open = b] \in Alert
        BY <2>1 DEF Alert
    <2>3. (~alerts[i].open) \in BOOLEAN
        OBVIOUS
    <2> QED BY <2>1, <2>2, <2>3
<1>2. alerts' = [alerts EXCEPT ![i] = [alerts[i] EXCEPT !.open = ~alerts[i].open]]
    BY DEF UpdateAlert
<1>3. AlertsOK'
    BY <1>1, <1>2 DEF AlertsOK
<1>4. /\ DOMAIN alerts' = DOMAIN alerts
      /\ \A j \in DOMAIN alerts \ {i} : alerts'[j] = alerts[j]
      /\ alerts'[i].of = alerts[i].of
      /\ alerts'[i].open = ~alerts[i].open
    BY <1>1, <1>2 DEF AlertsOK, Alert
<1>5. alerts[i].open \/ \A j \in DOMAIN alerts : ~(alerts[j].open /\ alerts[j].of = alerts[i].of)
    BY DEF UpdateAlert, IsOpen, OpenAlerts
<1>6. OneOpen'
    BY <1>4, <1>5 DEF OneOpen
<1> QED BY <1>3, <1>6

\* Every step but those three leaves the alerts alone.
LEMMA FleetAlertsStep == FleetInv /\ FleetNext => AlertsOK' /\ OneOpen'
<1> SUFFICES ASSUME FleetInv, FleetNext PROVE AlertsOK' /\ OneOpen'
    OBVIOUS
<1>0. AlertsOK /\ OneOpen /\ PeopleOK
    BY DEF FleetInv
<1> USE <1>0
<1>1. ASSUME alerts' = alerts PROVE AlertsOK' /\ OneOpen'
    BY <1>1 DEF AlertsOK, OneOpen
<1>2. ASSUME NEW x \in Targets, openListed(x) \/ resolveListed(x) PROVE AlertsOK' /\ OneOpen'
    BY <1>2, OpeningKeeps, ResolvingKeeps DEF openListed, resolveListed
<1>3. CASE Monitor
    BY <1>1, <1>2, <1>3 DEF Monitor, markOffline, reactivate, listStale, listRecovered, tickEnds
<1>4. CASE Agent
    BY <1>1, <1>4 DEF Agent, heartbeat, heartbeatEnds, touchOnSync, upsertExisting
<1>5. CASE Evaluation
    BY <1>1, <1>5, ResolvingKeeps DEF Evaluation, evaluateReading, evaluationEnds
<1>6. CASE Operator
    BY <1>1, <1>6, ResolvingKeeps, UpdatingKeeps
    DEF Operator, Decommission, Recommission, SetMonitorState
<1>7. CASE Failure
    BY <1>1, <1>7 DEF Failure, halfFails, processRestarts, evaluationFails, Silence
<1> QED BY <1>3, <1>4, <1>5, <1>6, <1>7 DEF FleetNext

LEMMA FleetBoundsStep == FleetInv /\ FleetNext => BoundsOK'
<1> SUFFICES ASSUME FleetInv, FleetNext PROVE BoundsOK'
    OBVIOUS
<1>0. BoundsOK
    BY DEF FleetInv
<1>1. fault => edits' = edits /\ faults' \in 0 .. MaxFaults
    BY <1>0, FleetAssumption DEF BoundsOK, fault
<1>2. edit => faults' = faults /\ edits' \in 0 .. MaxEdits
    BY <1>0, FleetAssumption DEF BoundsOK, edit
<1>3. free => faults' = faults /\ edits' = edits
    BY DEF free
<1>4. CASE \E x \in Targets : Silence(x)
    <2>1. silences' \in 0 .. MaxSilences /\ UNCHANGED <<edits, faults>>
        BY <1>0, <1>4, FleetAssumption DEF Silence, BoundsOK
    <2> QED BY <1>0, <2>1 DEF BoundsOK
<1>5. CASE Monitor
    BY <1>0, <1>3, <1>5
    DEF Monitor, markOffline, reactivate, listStale, listRecovered, tickEnds, openListed,
        resolveListed, untouched, BoundsOK
<1>6. CASE Agent \/ Evaluation
    BY <1>0, <1>3, <1>6
    DEF Agent, heartbeat, heartbeatEnds, touchOnSync, upsertExisting, Evaluation,
        evaluateReading, evaluationEnds, BoundsOK
<1>7. CASE Operator
    BY <1>0, <1>2, <1>7
    DEF Operator, Decommission, Recommission, SetMonitorState, UpdateAlert, rowOnly, BoundsOK
<1>8. CASE halfFails \/ processRestarts \/ \E d \in Devices : evaluationFails(d)
    BY <1>0, <1>1, <1>8 DEF halfFails, processRestarts, evaluationFails, untouched, BoundsOK
<1> QED BY <1>4, <1>5, <1>6, <1>7, <1>8 DEF FleetNext, Failure

LEMMA FleetMonitorStep == FleetInv /\ FleetNext => MonitorOK'
<1> SUFFICES ASSUME FleetInv, FleetNext PROVE MonitorOK'
    OBVIOUS
<1>0. MonitorOK /\ PeopleOK
    BY DEF FleetInv
<1>1. ASSUME monitor' = monitor PROVE MonitorOK'
    BY <1>0, <1>1 DEF MonitorOK
<1>2. ASSUME NEW at \in Places, NEW list \in SUBSET Targets, Goes(at, list) PROVE MonitorOK'
    BY <1>2 DEF MonitorOK, Goes
<1>3. ASSUME NEW x, Next1(x) PROVE MonitorOK'
    <2>1. monitor.list \ {x} \in SUBSET Targets
        BY <1>0 DEF MonitorOK
    <2> QED BY <1>0, <1>3, <2>1 DEF MonitorOK, Next1
<1>4. /\ {"idle", "open agent", "resolve agent", "open device", "resolve device"} = Places
      /\ {} \in SUBSET Targets /\ Agents \in SUBSET Targets /\ Devices \in SUBSET Targets
    BY DEF Places, Targets
<1>5. CASE markOffline \/ reactivate
    <2>1. Agents \ (heard \cup offline) \in SUBSET Targets /\ offline \cap heard \in SUBSET Targets
        BY <1>0, <1>4 DEF PeopleOK
    <2> QED BY <1>2, <1>4, <1>5, <2>1 DEF markOffline, reactivate
<1>6. CASE listStale \/ listRecovered
    <2>1. staleDevices \in SUBSET Targets /\ toResolve \in SUBSET Targets
        BY <1>0, <1>4 DEF PeopleOK, staleDevices, toResolve
    <2> QED BY <1>2, <1>4, <1>6, <2>1 DEF listStale, listRecovered
<1>7. CASE tickEnds \/ halfFails \/ processRestarts
    BY <1>2, <1>4, <1>7 DEF tickEnds, halfFails, processRestarts
<1>8. CASE \E x \in Targets : openListed(x) \/ resolveListed(x)
    BY <1>3, <1>8 DEF openListed, resolveListed
<1>9. CASE \/ Agent \/ Evaluation \/ Operator \/ (\E d \in Devices : evaluationFails(d))
           \/ \E x \in Targets : Silence(x)
    BY <1>1, <1>9
    DEF Agent, heartbeat, heartbeatEnds, touchOnSync, upsertExisting, Evaluation,
        evaluateReading, evaluationEnds, Operator, Decommission, Recommission, SetMonitorState,
        UpdateAlert, rowOnly, evaluationFails, Silence
<1> QED BY <1>5, <1>6, <1>7, <1>8, <1>9 DEF FleetNext, Monitor, Failure

LEMMA FleetPeopleStep == FleetInv /\ FleetNext => PeopleOK'
<1> SUFFICES ASSUME FleetInv, FleetNext PROVE PeopleOK'
    OBVIOUS
<1>0. PeopleOK /\ Agents \subseteq Targets /\ Devices \subseteq Targets
    BY DEF FleetInv, Targets
<1> USE <1>0 DEF PeopleOK
<1>1. CASE Monitor
    BY <1>1
    DEF Monitor, markOffline, reactivate, listStale, listRecovered, tickEnds, openListed,
        resolveListed, untouched, deviceVars, reportVars
<1>2. CASE \E a \in Agents : heartbeat(a) \/ heartbeatEnds(a)
    BY <1>2 DEF heartbeat, heartbeatEnds, deviceVars, reportVars
<1>3. ASSUME NEW d \in Devices, touchOnSync(d) \/ upsertExisting(d) PROVE PeopleOK'
    <2>1. AgentOf[d] \in Targets
        BY FleetAssumption DEF Targets
    <2> QED BY <1>3, <2>1 DEF touchOnSync, upsertExisting, deviceVars, agentVars
<1>4. CASE Evaluation \/ \E d \in Devices : evaluationFails(d)
    BY <1>4 DEF Evaluation, evaluateReading, evaluationEnds, evaluationFails, agentVars, deviceVars
<1>5. CASE \E d \in Devices : Decommission(d) \/ Recommission(d) \/ SetMonitorState(d)
    BY <1>5 DEF Decommission, Recommission, SetMonitorState, rowOnly, agentVars, reportVars
<1>6. CASE \E i \in DOMAIN alerts : UpdateAlert(i)
    BY <1>6 DEF UpdateAlert, rowOnly, agentVars, deviceVars, reportVars
<1>7. CASE halfFails \/ processRestarts \/ \E x \in Targets : Silence(x)
    BY <1>7 DEF halfFails, processRestarts, Silence, untouched, agentVars, deviceVars, reportVars
<1> QED BY <1>1, <1>2, <1>3, <1>4, <1>5, <1>6, <1>7
        DEF FleetNext, Agent, Operator, Failure

LEMMA FleetStep == FleetInv /\ [FleetNext]_fleetVars => FleetInv'
<1>1. ASSUME FleetInv, UNCHANGED fleetVars PROVE FleetInv'
    BY <1>1 DEF FleetInv, PeopleOK, MonitorOK, AlertsOK, OneOpen, BoundsOK, fleetVars, agentVars,
                deviceVars, reportVars
<1> QED BY <1>1, FleetAlertsStep, FleetBoundsStep, FleetMonitorStep, FleetPeopleStep
        DEF FleetInv

\* Every variable keeps its type, and nobody ever has two open alerts of one type,
\* however many writers open, resolve and reopen them.
THEOREM FleetTypeCorrect == FleetSpec => []FleetTypeOK
<1> QED BY FleetInvTypes, FleetInit, FleetStep, PTL DEF FleetSpec

----------------------------------------------------------------------------
(* Retirement.  A device that was retired while no tick had listed it has    *)
(* no open alert, and the monitor will not open one: it is on no list of     *)
(* devices to alert, because the list leaves retired devices out.  Devices   *)
(* are not agents, so the list of agents does not name it either.            *)

Hushed(d) == d \in retired /\ ~IsOpen(d) /\ ~AboutToOpen(d)
ListsItsKind == At("open agent") => monitor.list \subseteq Agents
QuietInv == ListsItsKind /\ \A d \in quiet : Hushed(d)

LEMMA QuietInit == Init => QuietInv
BY DEF Init, QuietInv, ListsItsKind, Hushed, IsOpen, OpenAlerts, AboutToOpen, At

LEMMA ListsItsKindStep == FleetInv /\ ListsItsKind /\ FleetNext => ListsItsKind'
<1> SUFFICES ASSUME FleetInv, ListsItsKind, FleetNext PROVE ListsItsKind'
    OBVIOUS
<1>0. MonitorOK
    BY DEF FleetInv
<1>1. ASSUME monitor' = monitor PROVE ListsItsKind'
    BY <1>1 DEF ListsItsKind, At
<1>2. ASSUME NEW at, NEW list, Goes(at, list), at = "open agent" => list \subseteq Agents
      PROVE  ListsItsKind'
    BY <1>2 DEF ListsItsKind, At, Goes
<1>3. CASE \E x \in Targets : openListed(x) \/ resolveListed(x)
    <2>1. PICK x \in Targets : Next1(x)
        BY <1>3 DEF openListed, resolveListed
    <2>2. monitor'.at = monitor.at /\ monitor'.list = monitor.list \ {x}
        BY <1>0, <2>1 DEF MonitorOK, Next1
    <2> QED BY <2>2 DEF ListsItsKind, At
<1>4. CASE markOffline
    BY <1>2, <1>4 DEF markOffline
<1>5. CASE reactivate \/ listStale \/ listRecovered \/ tickEnds \/ halfFails \/ processRestarts
    BY <1>2, <1>5 DEF reactivate, listStale, listRecovered, tickEnds, halfFails, processRestarts
<1>6. CASE \/ Agent \/ Evaluation \/ Operator \/ (\E d \in Devices : evaluationFails(d))
           \/ \E x \in Targets : Silence(x)
    BY <1>1, <1>6
    DEF Agent, heartbeat, heartbeatEnds, touchOnSync, upsertExisting, Evaluation,
        evaluateReading, evaluationEnds, Operator, Decommission, Recommission, SetMonitorState,
        UpdateAlert, rowOnly, evaluationFails, Silence
<1> QED BY <1>3, <1>4, <1>5, <1>6 DEF FleetNext, Monitor, Failure

\* Resolving alerts opens none.
LEMMA ResolvingOpensNone ==
    ASSUME AlertsOK, OneOpen, NEW S, resolveOpen(S), NEW d
    PROVE  /\ IsOpen(d)' => IsOpen(d)
           /\ d \in S => ~IsOpen(d)'
<1>1. /\ DOMAIN alerts' = DOMAIN alerts
      /\ \A i \in DOMAIN alerts :
            /\ alerts'[i].of = alerts[i].of
            /\ alerts'[i].open => alerts[i].open /\ alerts[i].of \notin S
    BY ResolvingKeeps
<1> QED BY <1>1 DEF IsOpen, OpenAlerts

\* Opening the alert of one target opens no other.
LEMMA OpeningOpensOne ==
    ASSUME AlertsOK, NEW x \in Targets, openAlert(x), NEW d, d # x, ~IsOpen(d)
    PROVE  ~IsOpen(d)'
<1>1. CASE alerts' = alerts
    BY <1>1 DEF IsOpen, OpenAlerts
<1>2. CASE alerts' = Append(alerts, [of |-> x, open |-> TRUE])
    <2>1. [of |-> x, open |-> TRUE] \in Alert
        BY DEF Alert
    <2>2. /\ DOMAIN alerts = 1 .. Len(alerts) /\ DOMAIN alerts' = 1 .. Len(alerts) + 1
          /\ Len(alerts) \in Nat
          /\ \A i \in DOMAIN alerts : alerts'[i] = alerts[i]
          /\ alerts'[Len(alerts) + 1].of = x
        BY <1>2, <2>1 DEF AlertsOK
    <2> QED BY <2>2 DEF IsOpen, OpenAlerts
<1> QED BY <1>1, <1>2 DEF openAlert

LEMMA QuietStep == FleetInv /\ QuietInv /\ [FleetNext]_fleetVars => QuietInv'
<1> SUFFICES ASSUME FleetInv, QuietInv, [FleetNext]_fleetVars PROVE QuietInv'
    OBVIOUS
<1>0. /\ AlertsOK /\ OneOpen /\ PeopleOK /\ MonitorOK /\ ListsItsKind
      /\ \A d \in quiet : Hushed(d) /\ d \in Devices
    BY DEF FleetInv, QuietInv, PeopleOK
<1> USE <1>0
<1>1. CASE UNCHANGED fleetVars
    BY <1>1 DEF fleetVars, deviceVars, QuietInv, ListsItsKind, Hushed, IsOpen, OpenAlerts, AboutToOpen, At
<1>2. CASE FleetNext
    <2>0. ListsItsKind'
        BY <1>2, ListsItsKindStep
    <2> SUFFICES ASSUME NEW d \in quiet' PROVE Hushed(d)'
        BY <2>0 DEF QuietInv
    <2>1. ASSUME d \in quiet, retired' = retired, alerts' = alerts, ~AboutToOpen(d)' PROVE Hushed(d)'
        BY <2>1 DEF Hushed, IsOpen, OpenAlerts
    <2>2. ASSUME d \in quiet, monitor' = monitor PROVE ~AboutToOpen(d)'
        BY <2>2 DEF Hushed, AboutToOpen, At
    <2>3. ASSUME NEW at, NEW list, Goes(at, list), at = "open device" => d \notin list
          PROVE  ~AboutToOpen(d)'
        BY <2>3 DEF AboutToOpen, At, Goes
    <2>4. ASSUME d \in quiet, NEW x, Next1(x) PROVE ~AboutToOpen(d)'
        <3>1. monitor'.at = monitor.at /\ monitor'.list = monitor.list \ {x}
            BY <2>4 DEF MonitorOK, Next1
        <3> QED BY <2>4, <3>1 DEF Hushed, AboutToOpen, At
    <2>5. CASE markOffline \/ reactivate \/ listRecovered \/ tickEnds \/ halfFails \/ processRestarts
        BY <2>1, <2>3, <2>5
        DEF markOffline, reactivate, listRecovered, tickEnds, halfFails, processRestarts, untouched,
            deviceVars
    <2>6. CASE listStale
        <3>1. d \in quiet /\ d \notin staleDevices
            BY <2>6 DEF listStale, staleDevices, untouched, Hushed
        <3> QED BY <2>1, <2>3, <2>6, <3>1 DEF listStale, untouched, deviceVars
    <2>7. ASSUME NEW x \in Targets, openListed(x) PROVE Hushed(d)'
        <3>1. d \in quiet /\ retired' = retired
            BY <2>7 DEF openListed, untouched, deviceVars
        <3>2. d # x
            BY <2>7, <3>1, FleetAssumption DEF openListed, Hushed, AboutToOpen, At, ListsItsKind
        <3>3. ~IsOpen(d)'
            BY <2>7, <3>1, <3>2, OpeningOpensOne DEF openListed, Hushed
        <3> QED BY <2>4, <2>7, <3>1, <3>3 DEF openListed, Hushed
    <2>8. ASSUME NEW x \in Targets, resolveListed(x) PROVE Hushed(d)'
        <3>1. d \in quiet /\ retired' = retired
            BY <2>8 DEF resolveListed, untouched, deviceVars
        <3>2. ~IsOpen(d)'
            BY <2>8, <3>1, ResolvingOpensNone DEF resolveListed, Hushed
        <3> QED BY <2>4, <2>8, <3>1, <3>2 DEF resolveListed, Hushed
    <2>9. CASE Agent \/ \E e \in Devices : evaluateReading(e) \/ evaluationFails(e)
        BY <2>1, <2>2, <2>9
        DEF Agent, heartbeat, heartbeatEnds, touchOnSync, upsertExisting, evaluateReading,
            evaluationFails, deviceVars
    <2>10. ASSUME NEW e \in Devices, evaluationEnds(e) PROVE Hushed(d)'
        <3>1. d \in quiet /\ retired' = retired /\ monitor' = monitor
            BY <2>10 DEF evaluationEnds, deviceVars
        <3>2. ~IsOpen(d)'
            BY <2>10, <3>1, ResolvingOpensNone DEF evaluationEnds, Hushed
        <3> QED BY <2>2, <3>1, <3>2 DEF Hushed
    <2>11. ASSUME NEW e \in Devices, Decommission(e) PROVE Hushed(d)'
        <3>1. monitor' = monitor /\ retired' = retired \cup {e}
            BY <2>11 DEF Decommission, rowOnly
        <3>2. CASE d \in quiet
            <4>1. ~IsOpen(d)'
                BY <2>11, <3>2, ResolvingOpensNone DEF Decommission, Hushed
            <4> QED BY <2>2, <3>1, <3>2, <4>1 DEF Hushed
        <3>3. CASE d \notin quiet
            <4>1. d = e /\ ~AboutToOpen(e)
                BY <2>11, <3>3 DEF Decommission
            <4>2. ~IsOpen(e)'
                BY <2>11, ResolvingOpensNone DEF Decommission
            <4>3. ~AboutToOpen(e)'
                BY <3>1, <4>1 DEF AboutToOpen, At
            <4> QED BY <3>1, <4>1, <4>2, <4>3 DEF Hushed
        <3> QED BY <3>2, <3>3
    <2>12. ASSUME NEW e \in Devices, Recommission(e) PROVE Hushed(d)'
        <3>1. /\ d \in quiet /\ d # e /\ monitor' = monitor /\ alerts' = alerts
              /\ retired' = retired \ {e}
            BY <2>12 DEF Recommission, rowOnly
        <3> QED BY <2>2, <3>1 DEF Hushed, IsOpen, OpenAlerts
    <2>13. CASE (\E e \in Devices : SetMonitorState(e)) \/ \E x \in Targets : Silence(x)
        BY <2>1, <2>2, <2>13 DEF SetMonitorState, rowOnly, Silence, deviceVars
    <2>14. ASSUME NEW i \in DOMAIN alerts, UpdateAlert(i) PROVE Hushed(d)'
        <3>1. /\ d \in quiet /\ d # alerts[i].of /\ monitor' = monitor /\ retired' = retired
            BY <2>14 DEF UpdateAlert, rowOnly, deviceVars
        <3>2. alerts[i] \in Alert
            BY DEF AlertsOK
        <3>3. /\ DOMAIN alerts' = DOMAIN alerts
              /\ \A j \in DOMAIN alerts \ {i} : alerts'[j] = alerts[j]
              /\ alerts'[i].of = alerts[i].of
            BY <2>14, <3>2 DEF UpdateAlert, AlertsOK, Alert
        <3>4. ~IsOpen(d)'
            BY <3>1, <3>3 DEF Hushed, IsOpen, OpenAlerts
        <3> QED BY <2>2, <3>1, <3>4 DEF Hushed
    <2> QED BY <1>2, <2>5, <2>6, <2>7, <2>8, <2>9, <2>10, <2>11, <2>12, <2>13, <2>14
            DEF FleetNext, Monitor, Evaluation, Operator, Failure
<1> QED BY <1>1, <1>2

\* A device that was retired while no tick was about to open its alert has no open
\* alert, whatever is reported, evaluated or restarted afterwards, until an operator
\* takes it back or reopens one.
THEOREM RetiredDeviceStaysQuiet == FleetSpec => []RetiredStaysQuiet
<1>1. QuietInv => RetiredStaysQuiet
    BY DEF QuietInv, Hushed, RetiredStaysQuiet
<1> QED BY <1>1, FleetInit, FleetStep, QuietInit, QuietStep, PTL DEF FleetSpec

=============================================================================

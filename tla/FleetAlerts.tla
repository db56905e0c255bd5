---------------------------- MODULE FleetAlerts ----------------------------
(***************************************************************************)
(* Who is silent, and which alerts say so.  Agents and printers are heard  *)
(* of in several statements each; every two minutes the heartbeat monitor  *)
(* reads who has not been heard of for too long, then opens and resolves   *)
(* the alerts one by one; an evaluation job resolves the alert of each     *)
(* printer that reported; and operators retire, mute and recommission      *)
(* printers and resolve or reopen alerts by hand, between any two of those *)
(* statements.                                                             *)
(***************************************************************************)
EXTENDS Naturals, Sequences, FiniteSets

CONSTANTS
    Agents, Devices,
    AgentOf,        \* devices.agent_id
    MaxSilences,    \* bound: times somebody is not heard of for longer than the threshold
    MaxEdits,       \* bound: operations of the portal
    MaxFaults       \* bound: errors, crashes and lost jobs

ASSUME FleetAssumption ==
    /\ Agents \cap Devices = {}
    /\ AgentOf \in [Devices -> Agents]
    /\ MaxSilences \in Nat /\ MaxEdits \in Nat /\ MaxFaults \in Nat

Targets == Agents \cup Devices

VARIABLES
    heard,      \* agents and devices with last_seen >= cutoff
    offline,    \* agents.status = 'offline' (the others are 'active')
    beating,    \* heartbeats between their two statements
    active,     \* devices.active
    retired,    \* decommissioned_at IS NOT NULL
    muted,      \* monitor_state or registration_state takes no new alerts
    syncing,    \* readings between the touch of the agent and the write of their device
    jobs,       \* readings-queue: devices whose reading waits to be evaluated
    judged,     \* evaluations that have read the device and go on
    alerts,     \* alerts of the types agent_offline and device_offline: [of, open]
    monitor,    \* the tick of the heartbeat monitor: where it is, and the list it goes through
    quiet,      \* history: devices retired while no tick was about to open their alert
    silences, edits, faults

agentVars == <<offline, beating>>
deviceVars == <<active, retired, muted>>
reportVars == <<syncing, jobs, judged>>
fleetVars == <<heard, agentVars, deviceVars, reportVars, alerts, monitor, quiet,
               silences, edits, faults>>

\* Everybody is heard of and nothing is open; some printers were retired earlier.
Init ==
    /\ heard = Targets
    /\ offline = {} /\ beating = {}
    /\ retired \in SUBSET Devices
    /\ active = Devices \ retired
    /\ muted = {}
    /\ syncing = {} /\ jobs = {} /\ judged = {}
    /\ alerts = <<>>
    /\ monitor = [at |-> "idle", list |-> {}]
    /\ quiet = retired
    /\ silences = 0 /\ edits = 0 /\ faults = 0

fault == faults < MaxFaults /\ faults' = faults + 1 /\ UNCHANGED edits
edit == edits < MaxEdits /\ edits' = edits + 1 /\ UNCHANGED faults
free == UNCHANGED <<edits, faults>>

------------------------------------------------------------------------------
(* The alerts.                                                             *)

OpenAlerts(x) == {i \in DOMAIN alerts : alerts[i].of = x /\ alerts[i].open}
IsOpen(x) == OpenAlerts(x) # {}

deviceAcceptsAlerts(x) == x \notin muted

\* Mutant: a plain INSERT.
openAgain(x) ==
    alerts' = IF deviceAcceptsAlerts(x)
              THEN Append(alerts, [of |-> x, open |-> TRUE]) ELSE alerts

\* The partial unique index lets one open alert per target and type in.
openAlert(x) ==
    alerts' = IF deviceAcceptsAlerts(x) /\ ~IsOpen(x)
              THEN Append(alerts, [of |-> x, open |-> TRUE]) ELSE alerts

resolveOpen(S) ==
    alerts' = [i \in DOMAIN alerts |->
                  [alerts[i] EXCEPT !.open = @ /\ alerts[i].of \notin S]]

------------------------------------------------------------------------------
(* Signs of life.                                                          *)

Silence(x) ==
    /\ x \in heard /\ silences < MaxSilences
    /\ heard' = heard \ {x}
    /\ silences' = silences + 1
    /\ UNCHANGED <<agentVars, deviceVars, reportVars, alerts, monitor, quiet, edits, faults>>

\* A heartbeat writes last_seen, and in a second statement turns offline into active.
heartbeat(a) ==
    /\ a \notin beating
    /\ beating' = beating \cup {a}
    /\ heard' = heard \cup {a}
    /\ free
    /\ UNCHANGED <<offline, deviceVars, reportVars, alerts, monitor, quiet, silences>>

heartbeatEnds(a) ==
    /\ a \in beating
    /\ beating' = beating \ {a}
    /\ offline' = offline \ {a}
    /\ free
    /\ UNCHANGED <<heard, deviceVars, reportVars, alerts, monitor, quiet, silences>>

touchOnSync(d) ==
    /\ d \notin syncing
    /\ syncing' = syncing \cup {d}
    /\ heard' = heard \cup {AgentOf[d]}
    /\ offline' = offline \ {AgentOf[d]}
    /\ free
    /\ UNCHANGED <<beating, deviceVars, jobs, judged, alerts, monitor, quiet, silences>>

\* The row is written as active, even of a retired device; a muted one may be
\* suppressed: nothing is evaluated then.
upsertExisting(d) ==
    /\ d \in syncing
    /\ syncing' = syncing \ {d}
    /\ heard' = heard \cup {d}
    /\ active' = active \cup {d}
    /\ \/ jobs' = jobs \cup {d}
       \/ d \in muted /\ UNCHANGED jobs
    /\ free
    /\ UNCHANGED <<agentVars, retired, muted, judged, alerts, monitor, quiet, silences>>

evaluateReading(d) ==
    /\ d \in jobs /\ judged = {}
    /\ jobs' = jobs \ {d}
    /\ judged' = IF d \in retired \cup muted THEN {} ELSE {d}
    /\ free
    /\ UNCHANGED <<heard, agentVars, deviceVars, syncing, alerts, monitor, quiet, silences>>

\* The agent never reports a printer as offline: the alert is always resolved.
evaluationEnds(d) ==
    /\ d \in judged
    /\ judged' = {}
    /\ resolveOpen({d})
    /\ free
    /\ UNCHANGED <<heard, agentVars, deviceVars, syncing, jobs, monitor, quiet, silences>>

evaluationFails(d) ==
    /\ d \in judged /\ fault
    /\ judged' = {}
    /\ UNCHANGED <<heard, agentVars, deviceVars, syncing, jobs, alerts, monitor, quiet, silences>>

------------------------------------------------------------------------------
(* The tick of the monitor.                                                *)

At(place) == monitor.at = place
Through(place) == At(place) /\ monitor.list = {}    \* the list has been gone through
Goes(place, list) == monitor' = [at |-> place, list |-> list]
Next1(x) == monitor' = [monitor EXCEPT !.list = @ \ {x}]
untouched == UNCHANGED <<deviceVars, heard, beating, reportVars, quiet, silences>>

\* First statement of checkOfflineAgents: UPDATE ... RETURNING.
markOffline ==
    LET marked == Agents \ (heard \cup offline) IN
    /\ At("idle")
    /\ offline' = offline \cup marked
    /\ Goes("open agent", marked)
    /\ free /\ untouched /\ UNCHANGED alerts

\* The other UPDATE: only rows that are still offline are returned.
reactivate ==
    LET back == offline \cap heard IN
    /\ Through("open agent")
    /\ offline' = offline \ back
    /\ Goes("resolve agent", back)
    /\ free /\ untouched /\ UNCHANGED alerts

\* Mutant: retired devices are not left out.
staleRows == {d \in active \ heard : AgentOf[d] \notin offline}

staleDevices == {d \in active \ (heard \cup retired) : AgentOf[d] \notin offline}

listStale ==
    /\ Through("resolve agent")
    /\ Goes("open device", staleDevices)
    /\ free /\ untouched /\ UNCHANGED <<offline, alerts>>

\* Mutant: the storm of a silent agent is kept out of the second list too.
toResolveUnderAgent ==
    {d \in heard \cap Devices : IsOpen(d) /\ AgentOf[d] \notin offline}

toResolve == {d \in heard \cap Devices : IsOpen(d)}

listRecovered ==
    /\ Through("open device")
    /\ Goes("resolve device", toResolve)
    /\ free /\ untouched /\ UNCHANGED <<offline, alerts>>

openListed(x) ==
    /\ At("open agent") \/ At("open device")
    /\ x \in monitor.list /\ Next1(x)
    /\ openAlert(x)
    /\ free /\ untouched /\ UNCHANGED offline

resolveListed(x) ==
    /\ At("resolve agent") \/ At("resolve device")
    /\ x \in monitor.list /\ Next1(x)
    /\ resolveOpen({x})
    /\ free /\ untouched /\ UNCHANGED offline

tickEnds ==
    /\ Through("resolve device")
    /\ Goes("idle", {})
    /\ free /\ untouched /\ UNCHANGED <<offline, alerts>>

\* Each half catches its own errors: the rest of its list is dropped.
halfFails ==
    /\ ~At("idle") /\ fault
    /\ IF At("open agent") \/ At("resolve agent")
       THEN Goes("resolve agent", {}) ELSE Goes("resolve device", {})
    /\ untouched /\ UNCHANGED <<offline, alerts>>

processRestarts ==
    /\ ~At("idle") /\ fault
    /\ Goes("idle", {})
    /\ untouched /\ UNCHANGED <<offline, alerts>>

------------------------------------------------------------------------------
(* Operators.                                                              *)

\* A tick that has listed the device will still open its alert.
AboutToOpen(d) == At("open device") /\ d \in monitor.list

rowOnly == UNCHANGED <<heard, agentVars, reportVars, monitor, silences>>

Decommission(d) ==
    /\ d \notin retired /\ edit
    /\ retired' = retired \cup {d}
    /\ active' = active \ {d}
    /\ resolveOpen({d})
    /\ quiet' = IF AboutToOpen(d) THEN quiet ELSE quiet \cup {d}
    /\ rowOnly /\ UNCHANGED muted

\* decommissioned_at is cleared; active is not set again.
Recommission(d) ==
    /\ d \in retired /\ edit
    /\ retired' = retired \ {d}
    /\ quiet' = quiet \ {d}
    /\ rowOnly /\ UNCHANGED <<active, muted, alerts>>

SetMonitorState(d) ==
    /\ edit
    /\ muted' = IF d \in muted THEN muted \ {d} ELSE muted \cup {d}
    /\ rowOnly /\ UNCHANGED <<active, retired, alerts, quiet>>

\* PATCH /alerts/:id: resolved may be set or cleared; the index refuses a
\* second open alert of the same target.
UpdateAlert(i) ==
    LET x == alerts[i].of IN
    /\ edit
    /\ alerts[i].open \/ ~IsOpen(x)
    /\ alerts' = [alerts EXCEPT ![i].open = ~@]
    /\ quiet' = quiet \ {x}
    /\ rowOnly /\ UNCHANGED deviceVars

------------------------------------------------------------------------------

Monitor ==
    \/ markOffline \/ reactivate \/ listStale \/ listRecovered \/ tickEnds
    \/ \E x \in Targets : openListed(x) \/ resolveListed(x)
Agent ==
    \/ \E a \in Agents : heartbeat(a) \/ heartbeatEnds(a)
    \/ \E d \in Devices : touchOnSync(d) \/ upsertExisting(d)
Evaluation == \E d \in Devices : evaluateReading(d) \/ evaluationEnds(d)
Operator ==
    \/ \E d \in Devices : Decommission(d) \/ Recommission(d) \/ SetMonitorState(d)
    \/ \E i \in DOMAIN alerts : UpdateAlert(i)
Failure ==
    \/ halfFails \/ processRestarts
    \/ \E d \in Devices : evaluationFails(d)
    \/ \E x \in Targets : Silence(x)

FleetNext == Monitor \/ Agent \/ Evaluation \/ Operator \/ Failure

\* The monitor has a timer and the queue a worker; statements under way end.
FleetSpec == Init /\ [][FleetNext]_fleetVars
FairFleetSpec ==
    /\ FleetSpec /\ WF_fleetVars(Monitor) /\ WF_fleetVars(Evaluation)
    /\ \A a \in Agents : WF_fleetVars(heartbeatEnds(a))

------------------------------------------------------------------------------

\* Every variable keeps its type, and nobody has two open alerts of one type.
FleetTypeOK ==
    /\ heard \subseteq Targets /\ offline \subseteq Agents /\ beating \subseteq Agents
    /\ active \subseteq Devices /\ retired \subseteq Devices /\ muted \subseteq Devices
    /\ syncing \subseteq Devices /\ jobs \subseteq Devices /\ judged \subseteq Devices
    /\ alerts \in Seq([of : Targets, open : BOOLEAN])
    /\ monitor \in [at : {"idle", "open agent", "resolve agent", "open device",
                          "resolve device"}, list : SUBSET Targets]
    /\ quiet \subseteq Devices
    /\ silences \in 0 .. MaxSilences /\ edits \in 0 .. MaxEdits /\ faults \in 0 .. MaxFaults
    /\ \A x \in Targets : Cardinality(OpenAlerts(x)) <= 1

\* A retired device has no open device_offline, though a late reading makes its
\* row active again and it falls silent once more; only a tick that had listed it
\* before it was retired, or an operator, opens one (lifecycle-use-cases.ts,
\* checkOfflineDevices).
RetiredStaysQuiet == \A d \in quiet : ~IsOpen(d)

\* A device of a living agent that stays silent, watched and in service has an
\* open alert in the end, a silent agent is marked offline, and the alert of a
\* device that reports again is resolved, whatever ticks fail and whatever late
\* evaluation resolves it too soon (checkOfflineAgents, checkOfflineDevices).
SilenceIsReported ==
    /\ \A d \in Devices :
        <>[](d \in active \ (heard \cup retired \cup muted) /\ AgentOf[d] \notin offline)
            => <>[]IsOpen(d)
    /\ \A a \in Agents : <>[](a \notin heard) => <>[](a \in offline)
RecoveryIsSeen == \A d \in Devices : <>[](d \in heard) => <>[]~IsOpen(d)
MonitorKeepsUp == SilenceIsReported /\ RecoveryIsSeen

\* "They go back to active on their own when the heartbeats come back, and the
\* alert resolves itself" (checkOfflineAgents).
AgentAlertResolves == \A a \in Agents : <>[](a \in heard) => <>[]~IsOpen(a)

=============================================================================

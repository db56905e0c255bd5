------------------------------ MODULE Telemetry -----------------------------
(***************************************************************************)
(* The telemetry path end to end: the agent's queue and sync loop          *)
(* (ReadingQueue) and the cloud's ingest (ReadingIngest), exchanging       *)
(* requests that may be refused, lost, answered too late or retried.       *)
(***************************************************************************)
EXTENDS ReadingIngest

vars == <<agentVars, net, cloudVars>>

Init == QueueInit /\ IngestInit

Next ==
    \/ AgentStep /\ UNCHANGED cloudVars
    \/ IngestStep

Spec == Init /\ [][Next]_vars

----------------------------------------------------------------------------
(* Fairness.  The sync loop reschedules itself every five minutes and every *)
(* request times out, so the agent's steps are weakly fair; a handler that  *)
(* started goes on.  What the environment owes is that failures are not     *)
(* permanent: an exchange the agent keeps retrying is, again and again,     *)
(* neither lost nor refused, and answered before the agent gives up.        *)

Agent(A) == A /\ UNCHANGED cloudVars
InTime(s) == waiting = s

Fairness ==
    /\ WF_vars(Agent(\E s \in Slots : SyncPost(s)))
    /\ WF_vars(Agent(SyncRefused))
    /\ WF_vars(Agent(SyncAborts) /\ net[waiting].phase = "lost")
    /\ SF_vars(Agent(SyncSucceeds))
    /\ \A s \in Slots :
        /\ WF_vars(HandlerStep(s))
        /\ SF_vars(InTime(s) /\ RequestArrives(s))
        /\ SF_vars(InTime(s) /\ \E r \in Rows : ResolveDevice(s, r))
        /\ SF_vars(InTime(s) /\ \E e \in net[s].seen : WriteDevice(s, e) \/ SkipReading(s, e))
        /\ SF_vars(InTime(s) /\ \E e \in net[s].seen : openCounterResetAlert(s, e) \/ MapReading(s, e))
        /\ SF_vars(InTime(s) /\ InsertReadings(s))
        /\ SF_vars(InTime(s) /\ PublishJobs(s, "ok"))

FairSpec == Spec /\ Fairness

----------------------------------------------------------------------------
(* Safety *)

Exchange == [phase : Phases, batch : SUBSET Rows, todo : SUBSET Rows,
             seen : SUBSET [row : Rows, total : Counters \cup {Absent}, at : Stages],
             mapped : SUBSET Rows, fresh : SUBSET Rows]

\* Every variable keeps its type; in particular a device's total is always one
\* a printer showed.
TypeOK ==
    /\ counter \in [Devices -> Counters]
    /\ row \in [Rows -> RowStates]
    /\ origin \in [Rows -> Devices \cup {Absent}]
    /\ total \in [Rows -> Counters]
    /\ snapshot \in [Devices -> Counters \cup {Absent}]
    /\ knownTodo \subseteq Devices
    /\ scope \in Scopes
    /\ scanTodo \in [Devices -> 0 .. ScanLimit]
    /\ scanBy \in {"none", "scheduler", "trigger"}
    /\ waiting \in Slots \cup {NoSlot}
    /\ refreshed \in BOOLEAN
    /\ net \in [Slots -> Exchange]
    /\ deviceTotal \in [Devices -> Counters \cup {Absent}]
    /\ counterReset \subseteq Devices
    /\ stored \in [Rows -> Nat]
    /\ skipped \subseteq Rows
    /\ evaluated \subseteq Rows
    /\ webhooks \in [Rows -> Nat]

Acknowledged == {r \in Rows : row[r] \in {"synced", "purged"}}

\* A row the agent marks as synced, and may purge, was stored by the cloud or
\* deliberately turned into null: no reading leaves the queue on the strength
\* of an answer that was lost, late, or about another batch
\* (uploader.ts uploadPending, sync-readings.ts execute).
AcknowledgedIsHandled == Acknowledged \subseteq Handled

\* However often a batch is redelivered, and however its handlers overlap, a
\* reading is stored once (the unique index on reading_id, time).
StoredAtMostOnce == \A r \in Rows : stored[r] <= 1

\* The webhook "reading.created" announces a reading at most once, although
\* the batch that carries it may be handled several times at once
\* (enqueueReadingWebhook takes the rows RETURNING lists).
WebhookAtMostOnce == \A r \in Rows : webhooks[r] <= 1

\* A reading the agent may forget was offered to the alert evaluation, even
\* when the handler that stored it died before it could publish and a retry,
\* which stored nothing, answered for it (enqueueAlertEvaluation takes every
\* mapped reading, duplicates included).
AcknowledgedIsEvaluated == Acknowledged \subseteq evaluated \cup skipped

\* Back-pressure holds the queue near its limit: with every capture already
\* admitted, at most one known-devices task, which takes each printer once, and
\* one scan(), which may take a printer as often as it is pinned and listed, go
\* over it.  Both producers look at the queue before their first capture only,
\* and a scan a trigger started may overlap the scheduler's task
\* (isBackpressureActive, ScanService.scan, runKnownDevicesTask).
QueueBounded ==
    Cardinality(Pending) + Cardinality(knownTodo) + Cardinality(Probes(scanTodo))
        <= BackpressureLimit + Cardinality(Devices) + ScanLimit

\* Of one printer, the cloud never stores a reading while it has not dealt
\* with an older one (ORDER BY id ASC in getPendingReadings, the strict order
\* inside a group, one INSERT for the batch).
OldestFirst ==
    \A q, r \in Rows : q < r /\ origin[q] = origin[r] /\ r \in Stored => q \in Handled

\* A counter_reset alert means that the printer's counter went down: some
\* reading is lower than an earlier one of the same printer.
CounterResetIsReal ==
    \A d \in counterReset : \E q, r \in Rows :
        q < r /\ origin[q] = d /\ origin[r] = d /\ 0 < total[r] /\ total[r] < total[q]

\* Inside the window, a printer that does not change is not queued again: the
\* status of an idle printer (its toner and alerts never change here) that a
\* supplies loop already queued is not queued a second time
\* (shouldEnqueueReading, "el dedupe de lecturas identicas").
IdleIsDeduped ==
    [][\A d \in Devices :
          /\ CaptureKnown(d, FALSE) /\ scope = "status"
          /\ \E q \in Rows : origin[q] = d /\ total[q] = 0 /\ row[q] # "none"
          => UNCHANGED row]_vars

----------------------------------------------------------------------------
(* The promise the path implements *)

Reliable == INSTANCE ReliableTelemetry WITH
    Readings <- Rows,
    captured <- {r \in Rows : row[r] # "none"},
    kept <- Pending,
    handled <- Handled

\* A captured reading leaves the agent only after the cloud handled it, and
\* nothing handled was not captured: purge, markSynced and the ingest together
\* implement the abstract queue.
ImplementsReliableTelemetry == Reliable!Spec

\* Every captured reading is eventually dealt with and forgotten, through any
\* number of lost answers, timeouts, refusals and restarts.
EverythingIsSettled == Reliable!EventuallySettled

=============================================================================

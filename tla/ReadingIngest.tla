---------------------------- MODULE ReadingIngest ---------------------------
(***************************************************************************)
(* The cloud's half of the telemetry path, POST /devices/sync: the batch   *)
(* is split by device, each device's readings are processed in order and   *)
(* the devices in parallel, the readings that survive are inserted in one  *)
(* idempotent statement, and the jobs they give rise to are published.     *)
(* Several requests may be at work at once, even with the same batch: a    *)
(* caller that gave up does not stop its handler.                          *)
(***************************************************************************)
EXTENDS ReadingQueue

VARIABLES
    deviceTotal,  \* deviceTotal[d]: devices.total_pages, Absent while d has no row
    counterReset, \* devices with an open 'counter_reset' alert
    stored,       \* stored[r]: rows of `readings` with the reading_id of r
    skipped,      \* readings a handler turned into null: suppressed or failed
    evaluated,    \* readings offered to the alert evaluation queue
    webhooks      \* webhooks[r]: times r was offered as a "reading.created" webhook

cloudVars == <<deviceTotal, counterReset, stored, skipped, evaluated, webhooks>>

Stored == {r \in Rows : stored[r] > 0}
Handled == Stored \cup skipped

IngestInit ==
    /\ deviceTotal = [d \in Devices |-> Absent]
    /\ counterReset = {}
    /\ stored = [r \in Rows |-> 0]
    /\ skipped = {} /\ evaluated = {}
    /\ webhooks = [r \in Rows |-> 0]

----------------------------------------------------------------------------
(* Transport *)

Becomes(s, exchange) == net' = [net EXCEPT ![s] = exchange]
\* The exchange is over for the server; the answer goes back if the agent
\* still waits for it.
Answer(s, phase) ==
    Becomes(s, IF s = waiting THEN [net[s] EXCEPT !.phase = phase] ELSE Free)

RequestArrives(s) ==
    /\ net[s].phase = "sent"
    /\ Becomes(s, [net[s] EXCEPT !.phase = "processing"])
    /\ UNCHANGED <<agentVars, cloudVars>>

\* agentAuth: the access token expired.
RequestUnauthorized(s) ==
    /\ net[s].phase = "sent"
    /\ Answer(s, "unauthorized")
    /\ UNCHANGED <<agentVars, cloudVars>>

\* The request, the answer or the process handling it is lost.
ExchangeLost(s) ==
    /\ net[s].phase \notin {"free", "lost"}
    /\ Answer(s, "lost")
    /\ UNCHANGED <<agentVars, cloudVars>>

----------------------------------------------------------------------------
(* ProcessReadingUseCase, one reading *)

InProgress(s) == {e.row : e \in net[s].seen}

\* Strict order within a device (groupReadingsByIdentity), no order between
\* devices.
nextOfItsDevice(s, r) ==
    /\ r \in net[s].todo
    /\ \A q \in net[s].todo \cup InProgress(s) : origin[q] = origin[r] => q >= r

\* How far a handler is with one reading: it read the device's row, wrote it,
\* or is past it.
Stages == {"read", "written", "done"}
MovesTo(s, e, stage) ==
    Becomes(s, [net[s] EXCEPT !.seen = (@ \ {e}) \cup {[e EXCEPT !.at = stage]}])
Handles(s, e, stage) == net[s].phase = "processing" /\ e \in net[s].seen /\ e.at = stage

\* Resolve the device and read its row; everything up to the first write.
ResolveDevice(s, r) ==
    /\ net[s].phase = "processing"
    /\ nextOfItsDevice(s, r)
    /\ LET reading == [row |-> r, total |-> deviceTotal[origin[r]], at |-> "read"] IN
       Becomes(s, [net[s] EXCEPT !.todo = @ \ {r}, !.seen = @ \cup {reading}])
    /\ UNCHANGED <<agentVars, cloudVars>>

\* Mutant: the comparison is the wrong way round.
detectCounterGrowth(e) == e.total \notin {Absent, 0} /\ e.total < total[e.row]
\* The reading has a total, below the one that was read.
detectCounterResets(e) == e.total # Absent /\ total[e.row] # 0 /\ total[e.row] < e.total

\* Mutant: the counters are added up instead of replaced.
addedTotal(e) == IF e.total = Absent THEN total[e.row] ELSE e.total + total[e.row]
\* A reading without counters keeps the total that was read.
nextTotal(e) == IF total[e.row] = 0 /\ e.total # Absent THEN e.total ELSE total[e.row]

\* The device's row is updated, or inserted when none was found; an INSERT
\* that lost the race for the device's unique serial throws instead.
WriteDevice(s, e) ==
    LET d == origin[e.row] IN
    /\ Handles(s, e, "read")
    /\ e.total = Absent => deviceTotal[d] = Absent
    /\ deviceTotal' = [deviceTotal EXCEPT ![d] = nextTotal(e)]
    /\ MovesTo(s, e, IF detectCounterResets(e) THEN "written" ELSE "done")
    /\ UNCHANGED <<agentVars, counterReset, stored, skipped, evaluated, webhooks>>

\* A statement of its own, after the UPDATE: a process that dies in between
\* has stored the lower total and opened nothing.
openCounterResetAlert(s, e) ==
    /\ Handles(s, e, "written")
    /\ counterReset' = counterReset \cup {origin[e.row]}
    /\ MovesTo(s, e, "done")
    /\ UNCHANGED <<agentVars, deviceTotal, stored, skipped, evaluated, webhooks>>

\* The reading joins the rows to insert.
MapReading(s, e) ==
    /\ Handles(s, e, "done")
    /\ Becomes(s, [net[s] EXCEPT !.seen = @ \ {e}, !.mapped = @ \cup {e.row}])
    /\ UNCHANGED <<agentVars, cloudVars>>

\* The reading becomes null and the batch goes on: its device is disabled or
\* ignored (only its last_seen is touched), or a statement threw, at any
\* stage: the UPDATE, the opening of the alert, or what comes after it.
SkipReading(s, e) ==
    /\ net[s].phase = "processing" /\ e \in net[s].seen
    /\ skipped' = skipped \cup {e.row}
    /\ Becomes(s, [net[s] EXCEPT !.seen = @ \ {e}])
    /\ UNCHANGED <<agentVars, deviceTotal, counterReset, stored, evaluated, webhooks>>

----------------------------------------------------------------------------
(* SyncReadingsUseCase, the batch *)

AllProcessed(s) ==
    net[s].phase = "processing" /\ net[s].todo = {} /\ net[s].seen = {}

\* Mutant: plain INSERT, no ON CONFLICT.
insertDuplicates(rows) == [r \in Rows |-> IF r \in rows THEN stored[r] + 1 ELSE stored[r]]
\* ON CONFLICT (reading_id, time) DO NOTHING.
insertReadings(rows) ==
    [r \in Rows |-> IF r \in rows /\ stored[r] = 0 THEN 1 ELSE stored[r]]
\* The rows RETURNING lists: those the statement really inserted.
insertedBy(rows) == rows \ Stored

InsertReadings(s) ==
    /\ AllProcessed(s)
    /\ stored' = insertReadings(net[s].mapped)
    /\ Becomes(s, [net[s] EXCEPT !.phase = "stored", !.fresh = insertedBy(net[s].mapped)])
    /\ UNCHANGED <<agentVars, deviceTotal, counterReset, skipped, evaluated, webhooks>>

\* The INSERT fails: nothing is stored and the whole batch answers 500.
InsertFails(s) ==
    /\ AllProcessed(s) /\ net[s].mapped # {}
    /\ Answer(s, "error")
    /\ UNCHANGED <<agentVars, cloudVars>>

\* Mutant: only the rows really inserted are evaluated, as for the webhook.
evaluateFresh(s) == net[s].fresh
\* Every mapped reading is evaluated, duplicates included.
enqueueAlertEvaluation(s) == net[s].mapped
\* Mutant: announce every mapped reading, duplicates included.
announceMapped(s) == net[s].mapped
enqueueReadingWebhook(s) == net[s].fresh

\* Both queues are best effort: one that is down loses the jobs and no more.
\* Then the heartbeat, and the answer: 200, or 500 when its UPDATE fails.
PublishJobs(s, answer) ==
    /\ net[s].phase = "stored"
    /\ evaluated' = evaluated \cup enqueueAlertEvaluation(s)
    /\ webhooks' = [r \in Rows |-> IF r \in enqueueReadingWebhook(s) THEN webhooks[r] + 1
                                   ELSE webhooks[r]]
    /\ Answer(s, answer)
    /\ UNCHANGED <<agentVars, deviceTotal, counterReset, stored, skipped>>

\* What happens to a request until it is answered, with nothing going wrong.
HandlerStep(s) ==
    \/ RequestArrives(s)
    \/ \E r \in Rows : ResolveDevice(s, r)
    \/ \E e \in net[s].seen : \/ WriteDevice(s, e) \/ openCounterResetAlert(s, e)
                              \/ MapReading(s, e) \/ SkipReading(s, e)
    \/ InsertReadings(s)
    \/ PublishJobs(s, "ok")

IngestStep ==
    \E s \in Slots :
       \/ HandlerStep(s)
       \/ RequestUnauthorized(s)
       \/ ExchangeLost(s)
       \/ InsertFails(s)
       \/ PublishJobs(s, "error")

=============================================================================

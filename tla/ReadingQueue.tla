---------------------------- MODULE ReadingQueue ----------------------------
(***************************************************************************)
(* The agent's half of the telemetry path: the SQLite table readings_queue *)
(* and everything that writes to it.  Two producers capture printers: the  *)
(* scheduler's tasks over the known devices (meter, supplies and alert     *)
(* loops) and the discovery chunk, which a heartbeat or a remote command   *)
(* may also start on its own.  One consumer, the sync loop, posts the      *)
(* oldest pending rows and marks them synced when the answer is 2xx.       *)
(*                                                                         *)
(* Requests live in `net`, one slot per HTTP exchange.  ReadingIngest adds *)
(* the server that answers them; Telemetry composes the two.               *)
(***************************************************************************)
EXTENDS Naturals, FiniteSets

CONSTANTS
    Devices,            \* printers reachable by the agent (one per IP)
    Absent,             \* no row, no snapshot yet; not a device and not a counter
    Slots,              \* HTTP exchanges that may overlap: one live, the rest abandoned
    NoSlot,             \* not a slot: the sync loop is not waiting
    MaxRows,            \* bound: rows ever inserted in readings_queue
    MaxCounter,         \* bound: page counters range over 1..MaxCounter
    BatchLimit,         \* LIMIT of getPendingReadings (500 in the code)
    ScanLimit,          \* probes of one scan(): its pinned hosts and CHUNK_MAX_IPS addresses
    BackpressureLimit   \* BACKPRESSURE_LIMIT (10_000 in the code)

ASSUME QueueAssumption ==
    /\ MaxRows \in Nat /\ MaxCounter \in Nat \ {0}
    /\ BatchLimit \in Nat /\ ScanLimit \in Nat /\ BackpressureLimit \in Nat
    /\ NoSlot \notin Slots /\ Absent \notin Devices /\ Absent \notin 0 .. MaxCounter
    /\ IsFiniteSet(Devices)

Rows == 1 .. MaxRows
Counters == 0 .. MaxCounter     \* 0 is NULL: a reading without counters
Scopes == {"none", "meters", "status"}
RowStates == {"none", "pending", "synced", "purged"}

VARIABLES
    counter,    \* counter[d]: what the printer d shows (environment)
    row,        \* row[r]: state of the row with id r
    origin,     \* origin[r]: printer the row was captured from
    total,      \* total[r]: total_pages in the row, 0 when NULL
    snapshot,   \* snapshot[d]: total in known_devices.last_reading_snapshot
    knownTodo,  \* devices the running known-devices task has still to capture
    scope,      \* what that task asks of them, "none" when no task runs
    scanTodo,   \* scanTodo[d]: probes of the printer d the running scan() has still to make
    scanBy,     \* who started the running scan(): "none", "scheduler" or "trigger"
    waiting,    \* slot the sync loop waits on (_isSyncing), or NoSlot
    refreshed,  \* the current sync already renewed its token after a 401
    net         \* net[s]: the HTTP exchange in slot s

queueVars == <<row, origin, total, snapshot>>
taskVars == <<knownTodo, scope, scanTodo, scanBy>>
syncVars == <<waiting, refreshed>>
agentVars == <<counter, queueVars, taskVars, syncVars>>

----------------------------------------------------------------------------
(* Exchanges.  The request carries `batch`; the remaining fields belong to  *)
(* the server's handler (see ReadingIngest).                                *)

\* "free": no exchange; "sent": request on its way; "lost": request or answer
\* lost, the caller has not noticed yet; "processing", "stored": the handler
\* is at work; "ok", "error", "unauthorized": an answer on its way back.
Phases == {"free", "sent", "lost", "processing", "stored",
           "ok", "error", "unauthorized"}
Answers == {"ok", "error", "unauthorized"}

Free == [phase |-> "free", batch |-> {}, todo |-> {}, seen |-> {},
         mapped |-> {}, fresh |-> {}]
Request(b) == [Free EXCEPT !.phase = "sent", !.batch = b, !.todo = b]

----------------------------------------------------------------------------
(* Queries on the queue *)

Pending == {r \in Rows : row[r] = "pending"}
\* Mutant: ORDER BY id DESC.
newestPending ==
    {r \in Pending : Cardinality({q \in Pending : q > r}) < BatchLimit}
\* ORDER BY id ASC LIMIT: the rows with fewer than the limit pending before them.
getPendingReadings ==
    {r \in Pending : Cardinality({q \in Pending : q < r}) < BatchLimit}
isBackpressureActive == Cardinality(Pending) > BackpressureLimit
\* Devices with a row in known_devices: a discovery chunk captured them once.
Known == {origin[r] : r \in {q \in Rows : row[q] # "none"}}
\* The probes a scan() has still to make, one by one: a printer may be pinned
\* and listed besides by several ranges that overlap.
Probes(todo) == {p \in Devices \X (1 .. ScanLimit) : p[2] <= todo[p[1]]}
NothingToProbe == [d \in Devices |-> 0]
NextRow == 1 + Cardinality({r \in Rows : row[r] # "none"})

\* The meter loop reads counters, the supplies and alert loops do not: their
\* readings leave total_pages NULL.  Toner levels and alerts never change here.
pagesRead(d) == IF scope = "meters" THEN counter[d] ELSE 0

\* The dedupe of identical readings.  windowOver abstracts the 4 h clock.
shouldEnqueueReading(d, windowOver) ==
    snapshot[d] = Absent \/ snapshot[d] # pagesRead(d) \/ windowOver

enqueueReading(d, pages) ==
    /\ NextRow \in Rows
    /\ row' = [row EXCEPT ![NextRow] = "pending"]
    /\ origin' = [origin EXCEPT ![NextRow] = d]
    /\ total' = [total EXCEPT ![NextRow] = pages]

QueueInit ==
    /\ counter = [d \in Devices |-> 1]
    /\ row = [r \in Rows |-> "none"]
    /\ origin = [r \in Rows |-> Absent]
    /\ total = [r \in Rows |-> 0]
    /\ snapshot = [d \in Devices |-> Absent]
    /\ knownTodo = {} /\ scope = "none" /\ scanTodo = NothingToProbe /\ scanBy = "none"
    /\ waiting = NoSlot /\ refreshed = FALSE
    /\ net = [s \in Slots |-> Free]

----------------------------------------------------------------------------
(* The printers *)

PrintPages(d) ==
    /\ counter[d] < MaxCounter
    /\ counter' = [counter EXCEPT ![d] = @ + 1]
    /\ UNCHANGED <<queueVars, taskVars, syncVars, net>>

\* A replaced formatter board or a firmware reset: the counter really drops.
ReplaceBoard(d) ==
    /\ counter[d] > 1
    /\ counter' = [counter EXCEPT ![d] = 1]
    /\ UNCHANGED <<queueVars, taskVars, syncVars, net>>

----------------------------------------------------------------------------
(* Producers *)

\* A scheduler tick that finds no task of its own running starts the meter,
\* supplies or alert loop.  A chunk started by a trigger does not stop it:
\* only the scheduler's own tasks set isNetworkTaskRunning.
StartKnownDevicesTask(scopes) ==
    /\ knownTodo = {} /\ scanBy # "scheduler"
    /\ ~isBackpressureActive
    /\ Known # {}
    /\ knownTodo' = Known /\ scope' = scopes
    /\ UNCHANGED <<counter, queueVars, scanTodo, scanBy, syncVars, net>>

\* Mutant: the back-pressure check is left to the scheduler's own chunks.
scanOnDemand(by) ==
    /\ scanBy = "none"
    /\ by = "scheduler" => knownTodo = {} /\ ~isBackpressureActive

\* scan() returns at once when a chunk runs or the queue is over its limit.
\* The scheduler starts it only when none of its tasks runs, a heartbeat or a
\* command whenever they like.
scan(by) ==
    /\ scanBy = "none"
    /\ by = "scheduler" => knownTodo = {}
    /\ ~isBackpressureActive

\* The pinned hosts, then the addresses of the plan: one look at the queue
\* admits them all, and nothing removes the repeated ones.
StartScanChunk(by, probes) ==
    /\ scan(by)
    /\ Cardinality(Probes(probes)) \in 1 .. ScanLimit
    /\ scanTodo' = probes /\ scanBy' = by
    /\ UNCHANGED <<counter, queueVars, knownTodo, scope, syncVars, net>>

KnownDone(d) ==
    /\ knownTodo' = knownTodo \ {d}
    /\ scope' = IF knownTodo = {d} THEN "none" ELSE scope
ScanDone(d) ==
    /\ scanTodo' = [scanTodo EXCEPT ![d] = @ - 1]
    /\ scanBy' = IF scanTodo' = NothingToProbe THEN "none" ELSE scanBy

\* One device of the known-devices task answers: between the comparison, the
\* INSERT and the new snapshot the code never awaits.
CaptureKnown(d, windowOver) ==
    /\ d \in knownTodo
    /\ KnownDone(d)
    /\ IF shouldEnqueueReading(d, windowOver)
       THEN /\ enqueueReading(d, pagesRead(d))
            /\ snapshot' = [snapshot EXCEPT ![d] = pagesRead(d)]
       ELSE UNCHANGED queueVars
    /\ UNCHANGED <<counter, scanTodo, scanBy, syncVars, net>>

\* One address of the scan answers with everything, counters included:
\* enqueued always, without the dedupe and without a snapshot.
CaptureScanned(d) ==
    /\ scanTodo[d] > 0
    /\ ScanDone(d)
    /\ enqueueReading(d, counter[d])
    /\ UNCHANGED <<counter, snapshot, knownTodo, scope, syncVars, net>>

\* Switched off, filtered by its policy, or an error that is logged.
CaptureNothing(d) ==
    /\ \/ d \in knownTodo /\ KnownDone(d) /\ UNCHANGED <<scanTodo, scanBy>>
       \/ scanTodo[d] > 0 /\ ScanDone(d) /\ UNCHANGED <<knownTodo, scope>>
    /\ UNCHANGED <<counter, queueVars, syncVars, net>>

----------------------------------------------------------------------------
(* The sync loop *)

\* Mutant: purge by age, synced or not, as a previous version of the agent did.
purgeAny == [r \in Rows |-> IF row[r] = "none" THEN "none" ELSE "purged"]
purgeOld == [r \in Rows |-> IF row[r] = "synced" THEN "purged" ELSE row[r]]

\* syncLoop: purge, then post the batch; with nothing pending it ends at once.
SyncPost(s) ==
    /\ waiting = NoSlot
    /\ net[s].phase = "free"
    /\ row' = purgeOld
    /\ IF getPendingReadings = {}
       THEN UNCHANGED <<waiting, net>>
       ELSE /\ waiting' = s
            /\ net' = [net EXCEPT ![s] = Request(getPendingReadings)]
    /\ UNCHANGED <<counter, origin, total, snapshot, taskVars, refreshed>>

\* Mutant: the rows pending NOW are marked, not the ones that were sent.
markAllSynced(batch) == [r \in Rows |-> IF row[r] = "pending" THEN "synced" ELSE row[r]]
markSynced(batch) == [r \in Rows |-> IF r \in batch THEN "synced" ELSE row[r]]

\* syncLoop is over, and what postWithAuth remembered goes with it.
SyncEnds == waiting' = NoSlot /\ refreshed' = FALSE

SyncSucceeds ==
    /\ waiting # NoSlot /\ net[waiting].phase = "ok"
    /\ row' = markSynced(net[waiting].batch)
    /\ net' = [net EXCEPT ![waiting] = Free]
    /\ SyncEnds
    /\ UNCHANGED <<counter, origin, total, snapshot, taskVars>>

\* Mutant: _isSyncing stays set after an answer that is not 2xx.
SyncRefusedStuck ==
    /\ waiting # NoSlot /\ net[waiting].phase \in {"error", "unauthorized"}
    /\ net' = [net EXCEPT ![waiting] = Free]
    /\ UNCHANGED <<counter, queueVars, taskVars, syncVars>>

\* Any other status, or a 401 whose refresh failed or was already tried.
SyncRefused ==
    /\ waiting # NoSlot /\ net[waiting].phase \in {"error", "unauthorized"}
    /\ net' = [net EXCEPT ![waiting] = Free]
    /\ SyncEnds
    /\ UNCHANGED <<counter, queueVars, taskVars>>

\* A 401 whose refresh succeeds: the same batch is posted once more.
SyncRepost ==
    /\ waiting # NoSlot /\ net[waiting].phase = "unauthorized"
    /\ ~refreshed
    /\ refreshed' = TRUE
    /\ net' = [net EXCEPT ![waiting] = Request(@.batch)]
    /\ UNCHANGED <<counter, queueVars, taskVars, waiting>>

\* What the server's side of an abandoned exchange becomes: an answer or a
\* loss has nobody to go to, a handler at work goes on.
Abandon(s) == IF net[s].phase \in Answers \cup {"lost"} THEN Free ELSE net[s]

\* The 65 s timeout or a broken connection: syncLoop logs it and ends.
SyncAborts ==
    /\ waiting # NoSlot
    /\ net' = [net EXCEPT ![waiting] = Abandon(waiting)]
    /\ SyncEnds
    /\ UNCHANGED <<counter, queueVars, taskVars>>

\* The service restarts.  Everything but the SQLite file is lost.
AgentRestart ==
    /\ waiting # NoSlot \/ knownTodo # {} \/ scanTodo # NothingToProbe
    /\ net' = [s \in Slots |-> IF s = waiting THEN Abandon(s) ELSE net[s]]
    /\ SyncEnds
    /\ knownTodo' = {} /\ scope' = "none" /\ scanTodo' = NothingToProbe /\ scanBy' = "none"
    /\ UNCHANGED <<counter, queueVars>>

AgentStep ==
    \/ \E d \in Devices : \/ PrintPages(d)
                          \/ ReplaceBoard(d)
                          \/ CaptureScanned(d)
                          \/ CaptureNothing(d)
                          \/ \E windowOver \in BOOLEAN : CaptureKnown(d, windowOver)
    \/ \E scopes \in Scopes \ {"none"} : StartKnownDevicesTask(scopes)
    \/ \E by \in {"scheduler", "trigger"}, probes \in [Devices -> 0 .. ScanLimit] :
          StartScanChunk(by, probes)
    \/ \E s \in Slots : SyncPost(s)
    \/ SyncSucceeds \/ SyncRefused \/ SyncRepost \/ SyncAborts
    \/ AgentRestart

=============================================================================

# STC-cloud in TLA+

STC-cloud watches fleets of printers.  An **agent** (a Windows service, `src/agent`) sits in a
customer's network, reads the printers over SNMP, IPP or their web page, and sends the readings to
the **cloud** (`src/cloud`: a Fastify API on PostgreSQL and Redis, with jobs on timers and BullMQ
queues), which keeps counters and supplies, raises alerts and sends commands back.  A portal, an
installer and a tray program surround them.

This directory holds TLA+ models of the parts where several actors, lost messages and restarts make
the code hard to test; TLC checks them on small instances, and TLAPS proves all their safety properties
for every value of the constants.

    tlc -config TelemetryDelivery.cfg TelemetryMC.tla     # any run of the table below
    tlapm TelemetryDeliveryProofs.tla                     # the proofs

## 1. Inventory

| Part | State it keeps | Operations | Interacts with | What is hard | Correct when |
|---|---|---|---|---|---|
| Reading queue and sync loop (`agent/src/sync`, `core/SyncService`, `core/ScanService`, `core/TaskScheduler`) | SQLite `readings_queue`, `known_devices`; `_isSyncing`, running task | capture, dedupe, enqueue, purge, post, mark synced, refresh, time out | posts to the ingest; started by timers, heartbeats and commands | two producers, late and lost answers, restarts, back-pressure | no reading forgotten before the cloud dealt with it; queue bounded; queue drains |
| Ingest (`cloud/src/modules/agents`: `sync-readings`, `process-reading`) | tables `devices`, `readings`, `alerts` | group, resolve, compare, update, insert, publish | answers the agent; feeds the alert and webhook queues | duplicate batches, overlapping handlers, one step of several failing | stored once, announced once, evaluated, resets found |
| Remote command channel (`command-use-cases`, `remote-use-cases`, `ws/*`, `CommandHandler`, `HeartbeatService`, `SocketManager`) | `agent_commands`, `agentClients`; processed ids in memory | add, push, take pending, handle, report, connect, close | two delivery channels, one result channel | duplicates across channels, half-dead sockets, restarts | run once per life, recorded as it ended, connected means reachable |
| Bulk remote actions (`modules/remote-actions`, `remoteActionWorker`) | `remote_action_batches`, `remote_action_items` | create, cancel, dispatch, reconcile | creates commands, reads their status | tick cut between two statements, cancel during dispatch | complete and without duplicates, closed once everything ran |
| Discovery (`DiscoveryCursor`, `ScanService`) | `scan_state` in SQLite, rotation of pinned hosts | plan, probe, advance, close a lap, restart it | configuration changes, restart command, scheduler | crash between capture and save, restart or new ranges during a chunk, arithmetic over empty ranges | a lap visits every address; every declared address keeps its turn |
| Agent access (`lifecycle-use-cases`, `authMiddleware`, `uploader`, `HeartbeatService`, `config`) | refresh token hash, status, blacklist; configuration in memory and in a file | activate, authenticate, refresh, revoke, configure | both agent loops renew one one-use pair; the portal | two refreshers, lost rotation, one object written by two loops | an agent holds the pair the cloud accepts; a revoked one stays out |
| Device registry (`resolveDeviceIdentity`, `register-devices`, `process-reading`, `modules/devices`) | `devices`, `readings.device_id`, `report_closure_lines.device_id` | resolve, rebind, write, fold ghosts, merge, retire, move, ignore, delete | the ingest and the portal write the same rows | overlapping requests, snapshots, tombstone chains, deletion during a batch | readings, lines and tombstones keep naming the right, existing row |
| Silence alerts and heartbeat monitor (`modules/alerts`, `heartbeatMonitor`, `alertWorker`) | `alerts`, `agents.status`, `last_seen` | open, resolve, retire, mark offline | ingest, heartbeat, evaluations, operators | lists read once and gone through later, several writers of one status | a silence is reported in the end, a recovery is seen, a retired printer stays quiet |
| Incidents (`incidentWorker`, `modules/incidents`) | `incidents`, `incident_alerts`, rules | group, link, auto-close, close, reopen, unlink | alerts, operators | statements of a tick between those of others, failures half-way | an alert that stays open is held by an open incident |
| Guarded ticks (`observability/guarded-tick`) | PostgreSQL advisory lock | lock, run, unlock | every timer job | session lock over a pool | at most one replica runs a tick, and some replica does |
| EWS proxy (`ewsProxyService`) | pending requests | wait, resolve, reject | command channel | result against timeout | settled once |
| Notifications, webhooks, reports, supply requests, closures (`jobs/*`, `modules/reports`, `modules/scheduled-reports`, `modules/supply-requests`) | their tables, BullMQ jobs | publish, retry, send, close, reopen | alerts, ingest | retries after partial success | at least once per channel; one open request per supply; one closed period |
| Sessions, two-factor, API keys, clients, inventory, dashboards, settings, audit, retention | one table each | create, read, update, delete | portal | little | (not modelled) |
| Drivers and capture, updater, console, portal front end, tray UI, installer, reverse proxy, monitoring | – | input/output | – | data formats | (not modelled) |

`PROJECT.json` lists the same parts with their files and status, and the hazards of the code, each at
its line and with the properties that cover it.

## 2. Modules

    ReliableTelemetry        what the telemetry path promises (abstract)
          ^  refined by
    Telemetry  =  ReadingQueue (agent)  +  ReadingIngest (cloud)
      |-- TelemetryMC                   instances for TLC
      |-- TelemetryDrops  ->  TelemetryDropsMC            drops of a counter, with histories
      `-- TelemetryProofs -> TelemetryDeliveryProofs      TLAPS

    RemoteActions  ->  CommandChannel  ->  AgentCommands
      |-- RemoteActionsMC   `-- CommandChannelMC
      `-- CommandProofs

    DiscoveryScan, AgentAccess, DeviceRegistry, FleetAlerts, Incidents
      `-- each with its ...MC and ...Proofs

### Telemetry

*ReadingQueue* is the agent.  A row of `readings_queue` is a number in `1..MaxRows` in insertion order;
`row[r]` is its state (`none`, `pending`, `synced`, `purged`), `origin[r]` its printer and `total[r]` its
page total, 0 for a reading without counters.  Its actions are the code's:

| Action | Code |
|---|---|
| `StartKnownDevicesTask`, `CaptureKnown` | `ScanService.runKnownDevicesTask` for the meter loop (`scope = "meters"`) and the supplies and alert loops (`"status"`), with `shouldEnqueueReading`, `enqueueReading` and `recordLastReadingSnapshot` in one step: the code does not await between them |
| `StartScanChunk`, `CaptureScanned` | `ScanService.scan`, `scanPinnedHosts`, `runChunk`, `captureAndRecord`, started by the scheduler or by a heartbeat or command (`"trigger"`); `scanTodo[d]` counts the probes of a printer, which may be pinned and listed by several ranges; one `scan()` makes at most `ScanLimit` |
| `CaptureNothing` | a printer that does not answer, is excluded by policy, or fails |
| `SyncPost` | `syncLoop`: `purgeOld`, then the oldest rows are posted |
| `SyncSucceeds`, `SyncRefused`, `SyncRepost`, `SyncAborts` | `uploadPending` and `postWithAuth` after a 2xx, another status, a 401 that is refreshed, and a timeout or broken connection |
| `AgentRestart` | everything but SQLite is lost |

*ReadingIngest* is the cloud.  An HTTP exchange is a slot `net[s]`, which holds the request, the local
state of its handler and its answer; `waiting` is the slot the sync loop waits on.  A slot the agent gave
up goes on being handled, which is how a batch is at work twice.  `RequestArrives`, `ResolveDevice` (the
read), `WriteDevice` (the UPDATE or INSERT), `openCounterResetAlert` (a statement of its own after it),
`MapReading` and `SkipReading` (the reading joins the batch, or becomes null because a statement threw or its
device is disabled), `InsertReadings`, `InsertFails` and `PublishJobs` are the steps of `SyncReadingsUseCase`
and `ProcessReadingUseCase`, cut where the code awaits between a read and the write that depends on it, or
between two writes without a transaction.  `ExchangeLost` is a lost request or answer or a handler that died:
it can happen before any of them.

*TelemetryDrops* adds to *Telemetry* three histories that no step looks at: the exchange begun last (`newest`),
the printers whose row a handler wrote after a newer exchange had begun (`overtaken`), and the readings whose
handler ended between the UPDATE and the alert (`lostAlerts`).

*ReliableTelemetry* knows only which readings were captured, are still kept by the agent, and were handled
by the cloud.  `Telemetry` maps its state to it: captured = rows that exist, kept = pending rows, handled =
stored or skipped.

### Commands

*AgentCommands* has the table (`status`), two heartbeat exchanges with `takePending` cut between its SELECT
and its UPDATE, the two ends of each WebSocket separately (`socket` for the agent, `server[s]` for the
cloud, `registered` for `agentClients`), the messages on them, the commands being executed and the memory
of processed ids.  `runs` and `outcomes` record what really happened, for the properties only.
*CommandChannel* states the properties with the portal as the source of commands; *RemoteActions* adds the
worker, cut between every two statements (`BeginBatch`, `CreateCommand`, `setItemCommand`, `EndBatch`,
`reconcileSent`), `create` and `cancelIfScheduled` of the portal at any moment, and `TickFails`.

### Discovery

*DiscoveryScan* is one agent.  `scanState` is the row of SQLite, `chunk` the locals of a `scan()` under way
(the ranges and the cursor it started from, its plan, the addresses its workers have taken).  `planChunk`
and `advanceCursor` are the two functions of `DiscoveryCursor.ts`, which jump from range to range; `Space`,
the list of all addresses, exists only to compare them with.  `ScanStarts` runs to the first await,
`scanPinnedHost` and `PinnedEnds` are the pinned hosts and their budget, `probeEnds` a worker of `runChunk`,
`DeadlinePasses` the budget of the chunk, `ChunkEnds` everything after `Promise.all`.  `RangesChange`,
`restartDiscovery`, `ScanThrows` and `AgentRestart` may come between any two of them.

### Access

*AgentAccess* numbers the token pairs.  `loop[l]` is the sync or the heartbeat loop: the await it is at, the
configuration object it took when it started and the one it made from a renewal; `http[l]` is its exchange
with the cloud, in which the request is authenticated (`agentAuth`), served (`touchOnSync`, `heartbeat`) or,
for a refresh, compared (`RefreshCompares`) and rotated (`rotateRefreshToken`) in two steps, as the code
reads and writes in two queries.  `config` is the object that is current, `disk` the file.
`handleRemoteConfig` changes the object in place, which a loop that holds it sees.  Portal and installer
operations are `updateConfig`, `RevokeToken`, `RegenerateActivationKey` and `ActivateAgent`.

### Devices

*DeviceRegistry* has the rows of `devices` with the parts other rows and readings depend on: agent, client,
serial, address, `merged_into`, retirement, `ignored`.  A serial is one that identifies a printer, one that
firmware fills in (`Placeholders`), an address, or NULL, and `Identifies` tells the first from the others, as
`isIdentifyingSerial` does: only that one is looked up, unique and locked, but all of them are written
(`finalSerial`).  A handler `hand[h]` is one identity group of one
request, cut at its transactions: resolve (`Take`, with the advisory lock of the identity), `Rebind`,
`Write` by the snapshot it read, `ListGhosts`, one `MergeGhost` each, `CheckRow`, `Store`.  The portal's
operations are one transaction each, except the deletion, whose checks (`DeleteChecks`) and DELETE
(`hardDelete`) are two.  The constraints of the table (`SerialsUnique`, `RetiredIsLive`, the foreign keys)
are modelled, with what the code does when one of them refuses.

### Silence and incidents

*FleetAlerts* has who was heard of, the status of agents, the alerts of the types `agent_offline` and
`device_offline`, and one tick of the monitor: `markOffline`, `reactivate`, `listStale` and `listRecovered`
are its queries, `openListed` and `resolveListed` one alert of the list each.  A reading is `touchOnSync`,
`upsertExisting`, `evaluateReading` and `evaluationEnds`, four separate moments.  *Incidents* takes alerts
as given (they open, resolve and come back) and has the tick of the incident worker statement by statement:
`processRule`, `openIncident`, `findIncident`, `linkAlert`, `checkIncident`, `closeResolved`.

### What the models leave out

* Times.  The dedupe window, budgets, thresholds and the date a batch is due are free choices; timeouts may
  happen whenever the code is waiting, however fast the answer.
* Of a reading, everything but the printer and the total: mono and color pages are compared by the same
  code in the same way, toner and alerts never change.
* A capture is one step: the total is what the printer shows when it is enqueued.
* In the telemetry modules a printer has one identity and its row stays; what becomes of rows is
  *DeviceRegistry*, where readings in turn have no counters.
* In *DeviceRegistry*: the MAC rung of the identity, agents without a client, the limit on readings a merge
  moves, bulk forms of the operations, the purge of stale devices and the cascade of a deleted agent.
* In *AgentAccess*: the token of the WebSocket, which is fixed when the connection is built; in
  *AgentCommands* it is a connection that may be refused.
* In *FleetAlerts*: alerts of other types, whose opening and resolution are one statement each.  The gate of
  `openAlert` and its INSERT are one step.  The counter_reset alert of *ReadingIngest* is never resolved.
* In *Incidents*: delays, severities, service levels, comments, incidents and links made by hand,
  notifications and the editing of rules.
* Job queues of the cloud are best effort; a job that is offered counts as offered, as in the code's own
  error handling.
* One replica of the API and of each worker, as the deployment files and the comments of the jobs have it.
* Messages on one connection are a set: the order in which TCP would keep them is not used, so the model
  has more behaviours than the code.

## 3. Runs

| Run | Instance | What it shows |
|---|---|---|
| `TelemetryDelivery` | 2 printers, 2 rows, 2 exchanges, batch of 2, limit 0 | types; nothing acknowledged unhandled or unevaluated; stored and announced at most once |
| `TelemetryCounters` | 1 printer probed up to twice by a scan, counters to 2, 2 rows, 1 exchange, batch of 1 | queue bounded; oldest first; each drop alerted or its loss named; implements `ReliableTelemetry` |
| `TelemetrySettles` | 1 printer, 2 rows, batch of 1, fair | every reading is eventually settled |
| `CommandChannel` | 1 command, 2 heartbeats, 2 connections, 1 restart | types; once per life; recorded as it ended |
| `RemoteActions` | 1 batch of 2 items, 3 commands, 1 cut tick | complete dispatch, no second command, closing is earned and final |
| `RemoteActionsLive` | 1 batch of 1 item, 2 commands, 1 cut tick, fair | due batches are sent or cancelled; pending commands are taken; cancelled is final |
| `DiscoveryScan` | laps of 4 and 3 addresses with empty and corrupt ranges, chunks of 3, 2 workers, 3 pinned hosts, 2 crashes, 3 changes, fair | cursor arithmetic; whole laps; restarts kept; every address and pinned host gets its turn |
| `AgentAccess` | 2 loops, 2 renewals, 1 fault, 1 operation of the portal, fair | file and memory hold the accepted pair; revoked stays out; the agent catches up with tokens and ranges |
| `DeviceRegistry` | 3 rows, 2 serials and a placeholder, 2 requests at once, 3 agents of 2 clients, 1 operation, 1 closure line | rows, readings and lines stay consistent |
| `FleetAlerts` | 1 agent, 1 printer, 2 silences, 1 operation, 1 failure, fair | retired stays quiet; silence reported, recovery seen |
| `Incidents` | 2 printers of 2 clients, 2 rules, 2 alerts, 2 operations, 1 failure, fair | one open incident per printer; an open alert comes to be held |
| `FleetAlertsAgent` (violation) | as `FleetAlerts`, nothing fails | the alert of an agent that beats again stays open |

**Bounds.**  `MaxRows` = 2 is enough for a batch of two, for two batches of one, and for a row captured
while another is posted; the properties relate at most two rows.  Two slots give one live and one abandoned
handler; a third would only repeat the second, as all abandoned handlers are alike.  Two printers make the
parallel groups of a batch; one is enough where the property is about one printer.  Counters up to 2 allow a
rise and a drop between two rows.  With two exchanges `TelemetryCounters` is larger than a run should be, so that
drops under overlapping handlers rest on the theorem.  `ScanLimit` 2 is a printer probed twice by one
scan, or two of them.  `BackpressureLimit` 0 or 1 makes the limit
bite within two rows.  In `CommandChannel` one restart, two connections and two heartbeats each give one
overlap; three commands in `RemoteActions` are one per item and the orphan a cut tick leaves.
In `DiscoveryScan` chunks that end inside, at the edge of and beyond a range all occur, and each change may
meet each phase of a chunk.  Two renewals in `AgentAccess` let both loops renew at once, and one of them
again.  Three rows in `DeviceRegistry` are a survivor, a tombstone and the row a late request inserts; the
initial row stands for what an earlier reading left, so that two requests and one operation reach chains of
a merge, a reused address and a deletion.  In `FleetAlerts` alerts are told apart by their target only, so one
agent with one printer has every interleaving of their statements.  Two alerts in `Incidents` share an
incident or stand under different rules.  The constants named `Max...` are the only bounds that the code does
not have.  Models that come to rest when a bound is used up switch the deadlock check off.
Symmetry is used in safety runs only, over names no action mentions.

**History variables and excuses.**  Some properties leave out states the code reaches and cannot avoid, and name
the cause with a history variable, so that everything else is still checked.  `stranded` (*AgentAccess*): the
answer that carried a new pair was lost, two rotations crossed, or the heartbeat stored an older configuration
over a renewed one.  `late`, `mixed`, `unnamed`, `raced` (*DeviceRegistry*): a reading at work when its row was
merged, a row two requests held at once or that was merged by force, a row that a write left without the
identifying serial it had or was sent, a line issued between the checks and the DELETE.  `lostAlerts`, `overtaken`
(*TelemetryDrops*): a handler ended between two statements, or wrote a row late.
`quiet` (*FleetAlerts*): devices retired while no tick had listed them.  Each is listed as a hazard.

**Fairness.**  `Telemetry!Fairness`: the sync loop reschedules itself in its `finally` block every five
minutes and its requests end after 65 s (weak fairness of `SyncPost`, `SyncRefused` and of `SyncAborts` once
the exchange is lost); a handler that was started goes on (weak fairness of `HandlerStep`).  Of the
environment it asks that failures are not permanent: an exchange the agent keeps retrying is infinitely often
in time for its next step (strong fairness of each step of the exchange waited on, where writing a reading's row
and finishing with the reading are two).  No fairness is asked of
captures, restarts or losses.  `RemoteActions!Fairness`: the worker ticks every minute, the agent beats every
minute with a timeout, commands are executed and end, and heartbeats tried again and again get through.
`DiscoveryScan`: the scheduler comes back every five seconds while it lives, and probes have timeouts (weak
fairness of the scan's steps); that a budget is spent, or is not, is never assumed.  `AgentAccess`: each loop
reschedules itself and its exchanges are answered or given up (weak fairness per loop), and the Redis key of
the blacklist expires.  `FleetAlerts`: the monitor has a timer, the queue a worker, and a heartbeat under way
writes its second statement; nobody has to be heard of.  `Incidents`: the worker has a timer.

**Disagreements between the code and its documentation.**  `FleetAlertsAgent` checks the comment above
`checkOfflineAgents`, that an agent whose heartbeats return becomes active and its alert resolves itself: the
heartbeat sets the status itself, and the monitor resolves only what its own statement reactivated.  Five more
properties are stated in the modules and refuted by TLC when a configuration lists them:

* `Telemetry!CounterResetIsReal`: counter resets are detected before redeliveries are recognised, so that a
  redelivered batch opens a false alert;
* `Telemetry!IdleIsDeduped`: one snapshot serves loops that read different fields, so that an idle printer is
  queued again within the window;
* `CommandChannel!ConnectedIsRegistered`: the close of a replaced connection unregisters its successor;
* `RemoteActions!ErrorsAreReal`: success is written as `completed` and read as `success`;
* `RemoteActions!FinishedBatchCloses` (under `FairSocketSpec`, which adds that connections come back, that the cloud
  notices a lost one, and that a result sent again and again arrives): results not sent at once are never sent, so
  that a batch may never close.

## 4. Proofs

Every invariant and every action property that a passing run checks is the conclusion of a theorem, and so is the
refinement of the abstract queue.

| Theorem | States |
|---|---|
| `TelemetryProofs!TypeCorrect` | `Spec => []TypeOK` |
| `TelemetryDeliveryProofs!NoReadingIsLost` | `Spec => []AcknowledgedIsHandled` |
| `TelemetryDeliveryProofs!NoEvaluationIsLost` | `Spec => []AcknowledgedIsEvaluated` |
| `TelemetryDeliveryProofs!NoReadingIsStoredTwice` | `Spec => []StoredAtMostOnce` |
| `TelemetryDeliveryProofs!NoReadingIsAnnouncedTwice` | `Spec => []WebhookAtMostOnce` |
| `TelemetryDeliveryProofs!OlderIsHandledFirst` | `Spec => []OldestFirst` |
| `TelemetryDeliveryProofs!TelemetryIsReliable` | `Spec => ImplementsReliableTelemetry` (refinement) |
| `TelemetryDeliveryProofs!QueueStaysBounded` | `Spec => []QueueBounded` |
| `TelemetryDeliveryProofs!DropsAreAlerted` | `DropsSpec => []DropIsAlerted` |
| `CommandProofs!ChannelTypeCorrect` | `ChannelSpec => []TypeOK` |
| `CommandProofs!OneRunPerLife` | if `MemoryFits`: `ChannelSpec => []RunsOncePerLife` |
| `CommandProofs!RecordsAreReal` | `ChannelSpec => []RecordedOutcomeIsReal` |
| `CommandProofs!ActionsTypeCorrect` | `Spec => []ActionsTypeOK` |
| `CommandProofs!SentBatchIsComplete` | `Spec => []SentIsComplete` |
| `CommandProofs!ClosedBatchWasRun` | `Spec => []ClosedMeansRun` |
| `CommandProofs!NoCommandTwice` | `Spec => NoSecondCommand` (steps) |
| `CommandProofs!ClosedStaysClosed` | `Spec => ClosedIsFinal` (steps) |
| `CommandProofs!CancellationHolds` | `Spec => CancelledStaysCancelled` |
| `DiscoveryScanProofs!RestartIsKept` | `Spec => RestartTakesEffect` (steps) |
| `DiscoveryScanProofs!ArithmeticIsRight` | `SpaceIsDeclared /\ CursorArithmetic`, the part of `CursorIsSound` without variables |
| `DiscoveryScanProofs!DiscoveryTypeCorrect` | `Spec => []DiscoveryTypeOK` |
| `DiscoveryScanProofs!CursorStaysSound` | `Spec => []CursorIsSound` |
| `DiscoveryScanProofs!LapsAreWhole` | `Spec => LapIsWhole` (steps) |
| `DeviceRegistryProofs!DeviceTypeCorrect` | `Spec => []DeviceTypeOK` |
| `DeviceRegistryProofs!RowsStayCoherent` | `Spec => []RowsAreCoherent` |
| `DeviceRegistryProofs!OnlyLateReadingsOnTombstones` | `Spec => []LateReadingsOnly` |
| `DeviceRegistryProofs!IssuedLinesKeepTheirDevice` | `Spec => []LinesKeepTheirDevice` |
| `DeviceRegistryProofs!ReadingsKeepTheirPrinter` | `Spec => []ReadingsStayWithTheirPrinter` |
| `AgentAccessProofs!AccessTypeCorrect` | `Spec => []AccessTypeOK` |
| `AgentAccessProofs!RevokedAgentStaysOut` | `Spec => []RevokedStaysOut` |
| `AgentAccessProofs!ThePairIsHeld` | `Spec => []PairIsHeld` |
| `FleetAlertsProofs!FleetTypeCorrect` | `FleetSpec => []FleetTypeOK` |
| `FleetAlertsProofs!RetiredDeviceStaysQuiet` | `FleetSpec => []RetiredStaysQuiet` |
| `IncidentsProofs!IncidentsTypeCorrect` | `Spec => []IncidentsTypeOK` |

**Assumptions.**  The theorems hold for any sets of printers, exchanges, agents, clients, commands, batches, handlers,
rules and lines and any limits.  The modules name what they assume of their constants, and TLC evaluates it in the runs
of the module: limits and bounds are natural numbers (positive where the code has a positive constant), null values are
no members of the sets they complete, a total read as absent is no counter, an agent has one client, the printers are
finitely many, a serial that identifies a printer is no placeholder and no address.  One hypothesis is not of that
kind and stands in the theorem that needs it, `MemoryFits`: there are no more commands than `ProcessedCap`.  The agent
remembers so many ids and forgets the oldest; beyond, a command redelivered late runs again.  `OneRunPerLife` is false
without it.

*Types of the telemetry path.*  `TypeOK` is not inductive: a new total of a device row is that of some row of the
exchange, so the proof carries `TypeInv`, which adds that a row that exists has a printer (`OriginKnown`) and that
every exchange carries only rows that exist (`CarriesCaptured`).

*Delivery.*  An acknowledged row was in a batch that was answered with success, so what has to be known is what
such an answer stands for.  `OwedReading(s)` says where each row of a slot's batch is at every phase: still
to do, being processed, mapped or skipped; from `stored` on, mapped rows are stored and no row is left over; at
`ok` every row was evaluated or skipped.  `DeliveryInv` is `TypeInv`, `OwedReading` for every slot, and that
acknowledged rows are settled (stored and evaluated, or skipped).  The step that matters is `SyncSucceeds`, where
the answer's own batch, not the rows pending by then, is marked; abandoned slots owe their answer to nobody.

*Once.*  `OnceInv` adds to `TypeInv` and `StoredAtMostOnce` that a row which a slot at phase `stored` holds as
freshly inserted is stored, not announced yet, and held so by no other slot (`OneAnnouncer`), and that a row is
announced at most once and only if stored (`AnnouncedIsStored`).  `InsertReadings` takes only rows nobody stored,
which keeps the announcer unique; `PublishJobs` hands the announcement over from the slot to `webhooks`.

*Order and refinement.*  `OrderInv` adds to `DeliveryInv` that rows in use are a prefix of the numbers, that what a
handler does is of its batch (`OfBatch`), and that every row older than one of the batch is in the batch or handled
(`NothingBefore`), so that the INSERT of a batch leaves no older row behind (`StoredInOrder`); a new row is the last
one.  The refinement needs `DeliveryInv` for the step that forgets (`SyncSucceeds`) and `OrderInv` for the capture,
whose row must be new to the abstract queue; all other steps handle rows or stutter.

*Bound.*  `QueueBounded` is inductive with the types once the printers are finitely many and a scan's probes are at
most `ScanLimit` (`ScanIsLimited`): a producer under the limit adds one set of printers, or the probes of one scan, to
what is under way, and a capture moves one of them from there to the rows.  The probes are counted one by one
(`Probes`), because pinned hosts and overlapping ranges repeat a printer and nothing removes the repetition.

*Drops.*  `DropInv` follows the exchange begun last, `newest`, which is the one the agent waits on if it waits
(`WaitingIsNewest`).  What its handler read of a printer is what the row still says (`TotalIsCurrent`), unless a handler
it overtook wrote the row, which is `overtaken`.  `Awaited(q, r)` is a drop from `q` to a later `r` that is, or may
become, one, without its alert and without an excuse; for such a pair `r` is neither stored nor past the UPDATE in any
slot, and once `q` is dealt with the device row has its total (`NotPassed`).  It needs that acknowledged rows come first
(`AcknowledgedInOrder`, `InTurn`) and that a handler writes a printer's rows in order (`InLine`).  The three excuses are
what the code cannot avoid: between UPDATE and alert the handler owes the alert (`AlertDue`), a handler that ends there
loses it for good, since the redelivered reading is compared with the total already written (`lostAlerts`), and a slow
handler of an abandoned exchange writes an older total over a newer one (`overtaken`).

*Commands.*  The channel's lemmas are about one step of it, so that *RemoteActions*, whose steps include them, cites
them.  `RunsOncePerLife` becomes inductive as a budget: a command ran at most as often as the agent was restarted, plus
one if its id is remembered, plus one if it is a scan-now whose push, which carries no id, has arrived (`Budget`);
`OneUnnamed` adds that such a push is on one connection only.  `RememberFacts` and `MemoryHasRoom` show that with
`MemoryFits` nothing is forgotten.  `OutcomeFacts` follows a result from the execution over the wires to the table.

*Bulk actions.*  `DispatchInv` carries `SentIsComplete` and `ClosedMeansRun`, with what the worker holds between two
statements: the listed batches are still in the status they were listed for, or cancelled (`WorkIsListed`), and every
item of the current batch that is not to do any more has its command (`ItemsInHand`).  The three action properties
follow from it.

*Discovery.*  `RestartInv` says that the flag stands as long as a `scan()` that was asked runs.  `SweepInv` is about the
row: over its own ranges the cursor is valid, the count is its position, and every address up to it was probed in this
lap (`RowOK`); a chunk goes on from where the row stands (`ChunkOK`), and what it took of its plan was probed or is
being probed (`TakenOK`).  When a chunk ends nothing is being probed, so position plus addresses taken is probed
(`ChunkProbed`), which is what is saved, or the whole lap.  That a changed list is noticed before the chunk is planned,
and that a crash leaves the row as it was, keep `RowOK` true of the ranges in the row rather than of the current ones.

*Cursor arithmetic.*  What `SweepInv` uses of `planChunk` and `advanceCursor` is `ArithmeticIsRight`: their loops, which
jump over empty and corrupt ranges, answer what counting along the list of all addresses answers.  The library's
induction takes an operator, which the prover cannot instantiate, so the module derives an induction on sets of numbers
(`Least`, `Induction`) from the library's theorem on well-founded relations, and from it that a value and a step define
a function (`Recursion`).  `declaredUpTo` sums the ranges, `Space` lists them (`SpaceIsListed`), and every position
before the end of the lap is within exactly one range (`WithinSome`, `WithinOne`).  Each loop is modelled by a recursive
function, which is a CHOOSE.  For either there is a closed form of its answer (`Target`, `Planned`), and one lemma on one
turn of the loop (`AdvanceTurn`, `PlanTurn`) serves twice: the closed form satisfies the equation, so the function
exists, and by induction on what is left (ranges, or ranges and addresses) any solution is the closed form.

*Devices.*  One invariant, `RegistryInv`, carries four of the theorems.  Beside their properties it says what the
handlers hold, because they write by what they read before (`GoodHand`): a row to insert is as the request made
it, a row to rebind was of the client of the request's agent, and a handler whose row became a tombstone has its
reading in `late`.  For deletions (`LinesOK`) it says that between the checks and the DELETE a row has no line but
those issued since, or is pointed to by a tombstone, so that the table refuses the deletion: a merge into the row
can bring it lines, but leaves such a tombstone.  All steps but merge and deletion are gentle on the rows
(`GentleRows`): they redirect no link and remove no row, and one lemma per part of the invariant deals with all of
them.  `MergedRows` computes what a merge makes of each row, after updating the survivor, compressing the chain and
marking the tombstone in the order of the code, and `MergeKeeps` serves the merge of ghosts and that of the portal.
`SerialInv`, for the fifth, follows the serials up to the printer they name (`Name`: placeholders, addresses and NULL
name nobody): live rows of a client do not share one, a handler writes a row whose serial agrees with its own
(`SerialHands`) and is the only one to hold it unless the row is in `mixed` (`HeldOnce`), and stored readings rest on
their serial also when the row is a tombstone (`SerialHome`).  A row therefore changes the printer it names only under
the one request that read it, and a merge gives its survivor no serial the live source would share.  An announcement
that writes a placeholder or an address over a serial, and a reading that keeps one instead of the serial it brings, do
part them; both put the row in `unnamed` at the write where it happens.

*Access.*  `AccessInv` adds to the types that a loop that has begun holds a configuration and that an answer with
tokens brings a pair that was issued.  `RevokedStaysOut` is not inductive, since a request that has passed its
check would set the status again; `CutOff` adds that no such request is at work, and none can come to be, as both
checks look at the status first.  For `PairIsHeld`, `PairInv` follows the accepted pair on its way: it was the last
one issued (`PairsIssued`), the answer a loop waits for belongs to its state (`Paired`), a loop that brings a pair
brings the accepted one, which nobody else knows yet (`CarriersOK`), and file and memory hold it or some loop is bringing
it there (`FileOrUnderWay`, `MemoryOrUnderWay`).  That nobody else knows it is why no second rotation can succeed
meanwhile.

*Silence.*  `FleetTypeOK` says that a target has at most one open alert, by cardinality; the proof carries `OneOpen`,
that two open alerts of one target are the same.  `QuietInv` adds to `RetiredStaysQuiet` that the device is still
retired and on no list of the tick (`Hushed`), and that the tick lists only agents while it opens alerts of agents.

*Incidents.*  `IncidentInv` adds to the tables what the worker holds between two statements (`InHand`): alerts its rule
stands for, and an incident of the printer of the alert it is about to link.  Both stay true while operators close,
reopen and unlink, because nothing changes the printer or the rule of a row.

Each theorem is `Init => Inv`, one lemma per action or group of actions for `Inv /\ Next => Inv'`, `Inv => property`,
combined by PTL.

*Model-checked only:* liveness, as temporal reasoning under fairness is out of the prover's reach: `EverythingIsSettled`
(telemetry), `NothingWaits` (batches and commands), `DeclaredIsProbed` and `PinnedGetTheirTurn` (discovery),
`AgentCatchesUp` (access), `MonitorKeepsUp` (silence) and `OpenAlertHasIncident` (incidents); and the properties TLC
refutes.

## 5. Roadmap

In order of importance:

1. *GuardedTick*: lock and unlock of the advisory lock on a pool, two replicas of a worker.
2. Supply requests and period closures: one open request per supply, one closed period, closing against reopening.
   *DeviceRegistry* has the closure lines already.
3. The EWS proxy as part of *AgentCommands*: a result against the timeout of the request that waits for it.
4. Proofs: an abstract specification of the discovery sweep (a set of addresses visited lap by lap) and of the token
   pair, with refinements.

**Not modelled, and why.**  Drivers, capture, updater, console, tray program, installer and front end are
input and output and data formats: their effects on the models (what a capture returns, a restart, an operation of
the portal) are choices of the actions above.  Sessions, two-factor, API keys, clients, inventory, dashboards,
settings, audit and retention read and write one table at a time and wait on nothing.  Notifications, webhooks and
reports are best effort with the retries of the job library.  These parts are most of the code by size.

Runs are few and each answers one question, so a new component replaces or extends a run where it can.

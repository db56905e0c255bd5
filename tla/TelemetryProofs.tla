--------------------------- MODULE TelemetryProofs --------------------------
(***************************************************************************)
(* What holds of the telemetry path for any number of printers, rows and   *)
(* overlapping exchanges.  The inductive invariant says, besides the       *)
(* types, what each exchange owes: until its handler has answered, every   *)
(* reading of its batch is still to do, in progress, mapped or skipped.    *)
(***************************************************************************)
EXTENDS Telemetry, TLAPS

----------------------------------------------------------------------------
(* Types.  TypeOK alone is not inductive: a device's total is read at the   *)
(* origin of a row, so that the rows of an exchange must have one.          *)

Captured == {r \in Rows : row[r] # "none"}
OriginKnown == \A r \in Captured : origin[r] \in Devices
CarriesCaptured(s) ==
    net[s].batch \cup net[s].todo \cup InProgress(s) \subseteq Captured
TypeInv == TypeOK /\ OriginKnown /\ \A s \in Slots : CarriesCaptured(s)

\* Exchanges the agent starts, and the free slot, are well typed.
LEMMA RequestType ==
    /\ Free \in Exchange
    /\ \A b \in SUBSET Rows : Request(b) \in Exchange
BY DEF Free, Request, Exchange, Phases

\* A new exchange has its whole batch to do.
LEMMA RequestFields ==
    ASSUME NEW b
    PROVE  /\ Request(b).phase = "sent" /\ Request(b).batch = b /\ Request(b).todo = b
           /\ Request(b).seen = {} /\ Request(b).mapped = {}
BY DEF Request, Free

\* What getPendingReadings returns are rows in use.
LEMMA PendingAreCaptured == getPendingReadings \subseteq Captured
BY DEF getPendingReadings, Pending, Captured

\* Becomes gives a slot its exchange and leaves the others alone.
LEMMA Becoming ==
    ASSUME net \in [Slots -> Exchange], NEW s \in Slots, NEW x \in Exchange, Becomes(s, x)
    PROVE  /\ net' \in [Slots -> Exchange]
           /\ net'[s] = x
           /\ \A t \in Slots \ {s} : net'[t] = net[t]
BY DEF Becomes

\* A slot owes no row of which it knows nothing.
LEMMA FreeCarriesNothing == \A s \in Slots : net[s] = Free => CarriesCaptured(s)
BY DEF Free, CarriesCaptured, InProgress

----------------------------------------------------------------------------
(* What each step of the handler makes of its exchange *)

SameBatch(s) == net'[s].batch = net[s].batch
OthersSame(s) ==
    net' \in [Slots -> Exchange] /\ \A t \in Slots \ {s} : net'[t] = net[t]

\* An answer keeps the rows of its exchange, or frees the slot nobody waits on.
LEMMA AnswerSlot ==
    ASSUME net \in [Slots -> Exchange], NEW s \in Slots, NEW phase \in Phases,
           Answer(s, phase)
    PROVE  /\ OthersSame(s)
           /\ \/ net'[s] = Free
              \/ /\ net'[s].phase = phase /\ SameBatch(s)
                 /\ net'[s].todo = net[s].todo /\ net'[s].seen = net[s].seen
                 /\ net'[s].mapped = net[s].mapped
<1> DEFINE x == IF s = waiting THEN [net[s] EXCEPT !.phase = phase] ELSE Free
<1>1. net[s] \in Exchange
    OBVIOUS
<1>2. x \in Exchange
    BY <1>1, RequestType DEF Exchange
<1>3. Becomes(s, x)
    BY DEF Answer
<1>4. \/ x = Free
      \/ /\ x.phase = phase /\ x.batch = net[s].batch /\ x.todo = net[s].todo
         /\ x.seen = net[s].seen /\ x.mapped = net[s].mapped
    BY <1>1 DEF Exchange
<1>5. OthersSame(s) /\ net'[s] = x
    <2> HIDE DEF x
    <2> QED BY <1>2, <1>3, Becoming DEF OthersSame
<1> QED BY <1>4, <1>5 DEF SameBatch

\* A request that arrives begins to be processed as it was sent.
LEMMA ArrivesSlot ==
    ASSUME net \in [Slots -> Exchange], NEW s \in Slots, RequestArrives(s)
    PROVE  /\ OthersSame(s) /\ SameBatch(s)
           /\ net'[s].phase = "processing"
           /\ net'[s].todo = net[s].todo /\ net'[s].seen = net[s].seen
           /\ net'[s].mapped = net[s].mapped
<1> DEFINE x == [net[s] EXCEPT !.phase = "processing"]
<1>1. net[s] \in Exchange
    OBVIOUS
<1>2. x \in Exchange
    BY <1>1 DEF Exchange, Phases
<1>3. Becomes(s, x)
    BY DEF RequestArrives
<1>4. /\ x.phase = "processing" /\ x.batch = net[s].batch /\ x.todo = net[s].todo
      /\ x.seen = net[s].seen /\ x.mapped = net[s].mapped
    BY <1>1 DEF Exchange
<1>5. OthersSame(s) /\ net'[s] = x
    <2> HIDE DEF x
    <2> QED BY <1>2, <1>3, Becoming DEF OthersSame
<1> QED BY <1>4, <1>5 DEF SameBatch

\* ResolveDevice moves one reading from to do to in progress.
LEMMA ResolveSlot ==
    ASSUME net \in [Slots -> Exchange], NEW s \in Slots, NEW r \in Rows,
           deviceTotal[origin[r]] \in Counters \cup {Absent}, ResolveDevice(s, r)
    PROVE  /\ OthersSame(s) /\ SameBatch(s)
           /\ net'[s].phase = net[s].phase
           /\ net'[s].todo = net[s].todo \ {r}
           /\ net'[s].seen = net[s].seen \cup {[row |-> r, total |-> deviceTotal[origin[r]], at |-> "read"]}
           /\ net'[s].mapped = net[s].mapped
<1> DEFINE reading == [row |-> r, total |-> deviceTotal[origin[r]], at |-> "read"]
<1> DEFINE x == [net[s] EXCEPT !.todo = @ \ {r}, !.seen = @ \cup {reading}]
<1>1. net[s] \in Exchange
    OBVIOUS
<1>2. x \in Exchange
    <2>1. reading \in [row : Rows, total : Counters \cup {Absent}, at : Stages]
        BY DEF Stages
    <2> HIDE DEF reading
    <2> QED BY <1>1, <2>1 DEF Exchange
<1>3. Becomes(s, x)
    BY DEF ResolveDevice
<1>4. /\ x.phase = net[s].phase /\ x.batch = net[s].batch /\ x.todo = net[s].todo \ {r}
      /\ x.seen = net[s].seen \cup {reading} /\ x.mapped = net[s].mapped
    BY <1>1 DEF Exchange
<1>5. OthersSame(s) /\ net'[s] = x
    <2> HIDE DEF x
    <2> QED BY <1>2, <1>3, Becoming DEF OthersSame
<1> QED BY <1>4, <1>5 DEF SameBatch

\* A handler that comes further with a reading has the same readings in progress.
LEMMA MoveSlot ==
    ASSUME net \in [Slots -> Exchange], NEW s \in Slots, NEW e \in net[s].seen,
           NEW stage \in Stages, MovesTo(s, e, stage)
    PROVE  /\ OthersSame(s) /\ SameBatch(s)
           /\ net'[s].phase = net[s].phase /\ net'[s].todo = net[s].todo
           /\ net'[s].mapped = net[s].mapped
           /\ \E f : /\ f.row = e.row /\ f.total = e.total /\ f.at = stage
                     /\ net'[s].seen = (net[s].seen \ {e}) \cup {f}
           /\ InProgress(s)' = InProgress(s)
<1>1. net[s] \in Exchange /\ e \in [row : Rows, total : Counters \cup {Absent}, at : Stages]
    BY DEF Exchange
<1>2. PICK f : f = [e EXCEPT !.at = stage]
    OBVIOUS
<1>3. /\ f \in [row : Rows, total : Counters \cup {Absent}, at : Stages]
      /\ f.row = e.row /\ f.total = e.total /\ f.at = stage
    BY <1>1, <1>2
<1> DEFINE x == [net[s] EXCEPT !.seen = (@ \ {e}) \cup {f}]
<1>4. x \in Exchange
    BY <1>1, <1>3 DEF Exchange
<1>5. Becomes(s, x)
    BY <1>2 DEF MovesTo
<1>6. /\ x.phase = net[s].phase /\ x.batch = net[s].batch /\ x.todo = net[s].todo
      /\ x.seen = (net[s].seen \ {e}) \cup {f} /\ x.mapped = net[s].mapped
    BY <1>1 DEF Exchange
<1>7. OthersSame(s) /\ net'[s] = x
    <2> HIDE DEF x
    <2> QED BY <1>4, <1>5, Becoming DEF OthersSame
<1>8. net'[s].seen = (net[s].seen \ {e}) \cup {f}
    BY <1>6, <1>7
<1>9. InProgress(s)' = InProgress(s)
    BY <1>3, <1>8 DEF InProgress
<1> HIDE DEF x
<1> QED BY <1>3, <1>6, <1>7, <1>9 DEF SameBatch

\* So it does when it writes the device's row, or opens the alert.
LEMMA WriteSlot ==
    ASSUME net \in [Slots -> Exchange], NEW s \in Slots, NEW e,
           WriteDevice(s, e) \/ openCounterResetAlert(s, e)
    PROVE  /\ e \in net[s].seen /\ net[s].phase = "processing"
           /\ OthersSame(s) /\ SameBatch(s)
           /\ net'[s].phase = net[s].phase /\ net'[s].todo = net[s].todo
           /\ net'[s].mapped = net[s].mapped
           /\ \E f : /\ f.row = e.row /\ f.total = e.total /\ f.at \in {"written", "done"}
                     /\ net'[s].seen = (net[s].seen \ {e}) \cup {f}
           /\ InProgress(s)' = InProgress(s)
<1>1. e \in net[s].seen /\ net[s].phase = "processing"
    BY DEF WriteDevice, openCounterResetAlert, Handles
<1>2. PICK stage \in {"written", "done"} : MovesTo(s, e, stage)
    BY DEF WriteDevice, openCounterResetAlert
<1>3. stage \in Stages
    BY <1>2 DEF Stages
<1>4. PICK f : /\ f.row = e.row /\ f.total = e.total /\ f.at = stage
               /\ net'[s].seen = (net[s].seen \ {e}) \cup {f}
    BY <1>1, <1>2, <1>3, MoveSlot
<1>5. /\ OthersSame(s) /\ SameBatch(s)
      /\ net'[s].phase = net[s].phase /\ net'[s].todo = net[s].todo
      /\ net'[s].mapped = net[s].mapped /\ InProgress(s)' = InProgress(s)
    BY <1>1, <1>2, <1>3, MoveSlot
<1> QED BY <1>1, <1>2, <1>4, <1>5

\* MapReading moves one reading from in progress to mapped.
LEMMA MapSlot ==
    ASSUME net \in [Slots -> Exchange], NEW s \in Slots, NEW e \in net[s].seen,
           MapReading(s, e)
    PROVE  /\ OthersSame(s) /\ SameBatch(s)
           /\ net'[s].phase = net[s].phase /\ net'[s].todo = net[s].todo
           /\ net'[s].seen = net[s].seen \ {e}
           /\ net'[s].mapped = net[s].mapped \cup {e.row}
<1> DEFINE x == [net[s] EXCEPT !.seen = @ \ {e}, !.mapped = @ \cup {e.row}]
<1>1. net[s] \in Exchange /\ e.row \in Rows
    BY DEF Exchange
<1>2. x \in Exchange
    BY <1>1 DEF Exchange
<1>3. Becomes(s, x)
    BY DEF MapReading
<1>4. /\ x.phase = net[s].phase /\ x.batch = net[s].batch /\ x.todo = net[s].todo
      /\ x.seen = net[s].seen \ {e} /\ x.mapped = net[s].mapped \cup {e.row}
    BY <1>1 DEF Exchange
<1>5. OthersSame(s) /\ net'[s] = x
    <2> HIDE DEF x
    <2> QED BY <1>2, <1>3, Becoming DEF OthersSame
<1> QED BY <1>4, <1>5 DEF SameBatch

\* SkipReading drops one reading from those in progress.
LEMMA SkipSlot ==
    ASSUME net \in [Slots -> Exchange], NEW s \in Slots, NEW e \in net[s].seen,
           SkipReading(s, e)
    PROVE  /\ OthersSame(s) /\ SameBatch(s)
           /\ net'[s].phase = net[s].phase /\ net'[s].todo = net[s].todo
           /\ net'[s].seen = net[s].seen \ {e}
           /\ net'[s].mapped = net[s].mapped
<1> DEFINE x == [net[s] EXCEPT !.seen = @ \ {e}]
<1>1. net[s] \in Exchange
    OBVIOUS
<1>2. x \in Exchange
    BY <1>1 DEF Exchange
<1>3. Becomes(s, x)
    BY DEF SkipReading
<1>4. /\ x.phase = net[s].phase /\ x.batch = net[s].batch /\ x.todo = net[s].todo
      /\ x.seen = net[s].seen \ {e} /\ x.mapped = net[s].mapped
    BY <1>1 DEF Exchange
<1>5. OthersSame(s) /\ net'[s] = x
    <2> HIDE DEF x
    <2> QED BY <1>2, <1>3, Becoming DEF OthersSame
<1> QED BY <1>4, <1>5 DEF SameBatch

\* InsertReadings keeps as fresh the mapped readings that had not been stored.
LEMMA InsertSlot ==
    ASSUME net \in [Slots -> Exchange], NEW s \in Slots, InsertReadings(s)
    PROVE  /\ OthersSame(s) /\ SameBatch(s)
           /\ net'[s].phase = "stored"
           /\ net'[s].todo = net[s].todo /\ net'[s].seen = net[s].seen
           /\ net'[s].mapped = net[s].mapped
           /\ net'[s].fresh = net[s].mapped \ Stored
<1> DEFINE x == [net[s] EXCEPT !.phase = "stored", !.fresh = net[s].mapped \ Stored]
<1>1. net[s] \in Exchange
    OBVIOUS
<1>2. x \in Exchange
    BY <1>1 DEF Exchange, Phases
<1>3. Becomes(s, x)
    BY DEF InsertReadings, insertedBy
<1>4. /\ x.phase = "stored" /\ x.batch = net[s].batch /\ x.todo = net[s].todo
      /\ x.seen = net[s].seen /\ x.mapped = net[s].mapped /\ x.fresh = net[s].mapped \ Stored
    BY <1>1 DEF Exchange
<1>5. OthersSame(s) /\ net'[s] = x
    <2> HIDE DEF x
    <2> QED BY <1>2, <1>3, Becoming DEF OthersSame
<1> QED BY <1>4, <1>5 DEF SameBatch

----------------------------------------------------------------------------
(* TypeOK is preserved *)

\* With no scan() there is nothing to probe.
LEMMA NothingToProbeType == NothingToProbe \in [Devices -> 0 .. ScanLimit]
<1>1. 0 \in 0 .. ScanLimit
    BY QueueAssumption
<1> QED BY <1>1 DEF NothingToProbe

\* The initial state is well typed and no exchange carries a row.
LEMMA TypeInit == Init => TypeInv
<1> SUFFICES ASSUME Init PROVE TypeInv
    OBVIOUS
<1> USE DEF Init, QueueInit, IngestInit
<1>1. TypeOK
    <2>1. 0 \in Counters /\ 1 \in Counters
        BY QueueAssumption DEF Counters
    <2> QED BY <2>1, RequestType, NothingToProbeType DEF TypeOK, RowStates, Scopes
<1>2. OriginKnown
    BY DEF OriginKnown, Captured
<1>3. \A s \in Slots : CarriesCaptured(s)
    BY FreeCarriesNothing
<1> QED BY <1>1, <1>2, <1>3 DEF TypeInv

\* A probe that is made is one less to make.
LEMMA ScanDoneType ==
    ASSUME TypeOK, NEW d \in Devices, scanTodo[d] > 0, ScanDone(d)
    PROVE  /\ scanTodo' \in [Devices -> 0 .. ScanLimit]
           /\ scanBy' \in {"none", "scheduler", "trigger"}
<1>1. scanTodo[d] \in 0 .. ScanLimit /\ ScanLimit \in Nat
    BY QueueAssumption DEF TypeOK
<1>2. scanTodo[d] - 1 \in 0 .. ScanLimit
    BY <1>1
<1>3. scanTodo' \in [Devices -> 0 .. ScanLimit]
    BY <1>2 DEF ScanDone, TypeOK
<1> QED BY <1>3 DEF ScanDone, TypeOK

\* Every step of the agent preserves the types.
LEMMA TypeAgent == TypeInv /\ AgentStep /\ UNCHANGED cloudVars => TypeOK'
<1> SUFFICES ASSUME TypeInv, AgentStep, UNCHANGED cloudVars PROVE TypeOK'
    OBVIOUS
<1> USE QueueAssumption DEF TypeInv, TypeOK, cloudVars
<1>1. ASSUME NEW d \in Devices, PrintPages(d) PROVE TypeOK'
    BY <1>1 DEF PrintPages, queueVars, taskVars, syncVars, Counters
<1>2. ASSUME NEW d \in Devices, ReplaceBoard(d) PROVE TypeOK'
    BY <1>2 DEF ReplaceBoard, queueVars, taskVars, syncVars, Counters
<1>3. ASSUME NEW d \in Devices, CaptureScanned(d) PROVE TypeOK'
    <2>1. scanTodo' \in [Devices -> 0 .. ScanLimit] /\ scanBy' \in {"none", "scheduler", "trigger"}
        BY <1>3, ScanDoneType DEF CaptureScanned
    <2> QED BY <1>3, <2>1 DEF CaptureScanned, enqueueReading, syncVars, RowStates, Counters
<1>4. ASSUME NEW d \in Devices, CaptureNothing(d) PROVE TypeOK'
    <2>1. CASE knownTodo' \subseteq Devices /\ scope' \in Scopes /\ UNCHANGED <<scanTodo, scanBy>>
        BY <1>4, <2>1 DEF CaptureNothing, queueVars, syncVars
    <2>2. CASE scanTodo[d] > 0 /\ ScanDone(d) /\ UNCHANGED <<knownTodo, scope>>
        <3>1. /\ scanTodo' \in [Devices -> 0 .. ScanLimit]
              /\ scanBy' \in {"none", "scheduler", "trigger"}
            BY <2>2, ScanDoneType
        <3> QED BY <1>4, <2>2, <3>1 DEF CaptureNothing, queueVars, syncVars
    <2>3. CASE d \in knownTodo /\ KnownDone(d) /\ UNCHANGED <<scanTodo, scanBy>>
        BY <2>1, <2>3 DEF KnownDone, Scopes
    <2> QED BY <1>4, <2>2, <2>3 DEF CaptureNothing
<1>5. ASSUME NEW d \in Devices, NEW w \in BOOLEAN, CaptureKnown(d, w) PROVE TypeOK'
    <2>1. pagesRead(d) \in Counters
        BY DEF pagesRead, Counters
    <2>2. scope' \in Scopes /\ knownTodo' \subseteq Devices
        BY <1>5 DEF CaptureKnown, KnownDone, Scopes
    <2>3. CASE UNCHANGED queueVars
        BY <1>5, <2>2, <2>3 DEF CaptureKnown, queueVars, syncVars
    <2>4. CASE /\ enqueueReading(d, pagesRead(d))
               /\ snapshot' = [snapshot EXCEPT ![d] = pagesRead(d)]
        BY <1>5, <2>1, <2>2, <2>4 DEF CaptureKnown, enqueueReading, syncVars, RowStates
    <2> QED BY <1>5, <2>3, <2>4 DEF CaptureKnown
<1>6. ASSUME NEW scopes \in Scopes, StartKnownDevicesTask(scopes) PROVE TypeOK'
    <2>1. Known \subseteq Devices
        BY DEF Known, OriginKnown, Captured
    <2> QED BY <1>6, <2>1 DEF StartKnownDevicesTask, queueVars, syncVars
<1>7. ASSUME NEW by \in {"scheduler", "trigger"}, NEW probes \in [Devices -> 0 .. ScanLimit],
             StartScanChunk(by, probes) PROVE TypeOK'
    BY <1>7 DEF StartScanChunk, queueVars, syncVars
<1>8. ASSUME NEW s \in Slots, SyncPost(s) PROVE TypeOK'
    <2>1. getPendingReadings \in SUBSET Rows
        BY PendingAreCaptured DEF Captured
    <2>2. net' \in [Slots -> Exchange] /\ waiting' \in Slots \cup {NoSlot}
        BY <1>8, <2>1, RequestType DEF SyncPost
    <2>3. row' \in [Rows -> RowStates]
        BY <1>8 DEF SyncPost, purgeOld, RowStates
    <2> QED BY <1>8, <2>2, <2>3 DEF SyncPost, taskVars
<1>9. CASE SyncSucceeds
    BY <1>9, RequestType DEF SyncEnds, SyncSucceeds, markSynced, taskVars, RowStates
<1>10. CASE SyncRefused
    BY <1>10, RequestType DEF SyncEnds, SyncRefused, queueVars, taskVars
<1>11. CASE SyncRepost
    BY <1>11, RequestType DEF SyncRepost, queueVars, taskVars, Exchange
<1>12. CASE SyncAborts
    BY <1>12, RequestType DEF SyncEnds, SyncAborts, Abandon, queueVars, taskVars
<1>13. CASE AgentRestart
    BY <1>13, RequestType, NothingToProbeType DEF SyncEnds, AgentRestart, Abandon, queueVars, Scopes
<1> QED
    BY <1>1, <1>2, <1>3, <1>4, <1>5, <1>6, <1>7, <1>8, <1>9, <1>10, <1>11, <1>12, <1>13
       DEF AgentStep

\* Every step of the cloud does.
LEMMA TypeIngest == TypeInv /\ IngestStep => TypeOK'
<1> SUFFICES ASSUME TypeInv, NEW s \in Slots,
                    \/ HandlerStep(s) \/ RequestUnauthorized(s) \/ ExchangeLost(s)
                    \/ InsertFails(s) \/ PublishJobs(s, "error")
             PROVE  TypeOK'
    BY DEF IngestStep
<1> USE QueueAssumption DEF TypeInv, TypeOK, agentVars, queueVars, taskVars, syncVars, cloudVars
<1>1. CASE RequestArrives(s)
    BY <1>1, ArrivesSlot DEF RequestArrives, OthersSame
<1>2. CASE RequestUnauthorized(s)
    BY <1>2, AnswerSlot DEF RequestUnauthorized, Phases, OthersSame
<1>3. CASE ExchangeLost(s)
    BY <1>3, AnswerSlot DEF ExchangeLost, Phases, OthersSame
<1>4. CASE InsertFails(s)
    BY <1>4, AnswerSlot DEF InsertFails, Phases, OthersSame
<1>5. ASSUME NEW r \in Rows, ResolveDevice(s, r) PROVE TypeOK'
    <2>1. deviceTotal[origin[r]] \in Counters \cup {Absent}
        BY <1>5 DEF ResolveDevice, nextOfItsDevice, CarriesCaptured, OriginKnown
    <2> QED BY <1>5, <2>1, ResolveSlot DEF ResolveDevice, OthersSame
<1>6. ASSUME NEW e \in net[s].seen, WriteDevice(s, e) \/ openCounterResetAlert(s, e)
      PROVE  TypeOK'
    <2>1. e.row \in Rows /\ total[e.row] \in Counters /\ origin[e.row] \in Devices
        BY DEF CarriesCaptured, InProgress, OriginKnown, Captured
    <2>2. net' \in [Slots -> Exchange]
        BY <1>6, WriteSlot DEF OthersSame
    <2>3. nextTotal(e) \in Counters
        BY <2>1 DEF nextTotal, Exchange
    <2>4. deviceTotal' \in [Devices -> Counters \cup {Absent}] /\ counterReset' \subseteq Devices
        BY <1>6, <2>1, <2>3 DEF WriteDevice, openCounterResetAlert
    <2> QED BY <1>6, <2>2, <2>4 DEF WriteDevice, openCounterResetAlert
<1>7. ASSUME NEW e \in net[s].seen, MapReading(s, e) \/ SkipReading(s, e) PROVE TypeOK'
    <2>1. e.row \in Rows
        BY DEF Exchange
    <2>2. net' \in [Slots -> Exchange]
        BY <1>7, MapSlot, SkipSlot DEF OthersSame
    <2> QED BY <1>7, <2>1, <2>2 DEF MapReading, SkipReading
<1>8. CASE InsertReadings(s)
    BY <1>8, InsertSlot DEF InsertReadings, insertReadings, OthersSame
<1>9. ASSUME NEW a \in {"ok", "error"}, PublishJobs(s, a) PROVE TypeOK'
    <2>1. net[s].mapped \subseteq Rows
        BY DEF Exchange
    <2> QED BY <1>9, <2>1, AnswerSlot
            DEF PublishJobs, enqueueAlertEvaluation, enqueueReadingWebhook, Phases, OthersSame
<1> QED
    BY <1>1, <1>2, <1>3, <1>4, <1>5, <1>6, <1>7, <1>8, <1>9 DEF HandlerStep

\* So does every step of the composition.
LEMMA TypeStep == TypeInv /\ [Next]_vars => TypeOK'
<1>1. ASSUME TypeInv, UNCHANGED vars PROVE TypeOK'
    BY <1>1 DEF TypeInv, TypeOK, vars, agentVars, queueVars, taskVars, syncVars, cloudVars
<1> QED BY <1>1, TypeAgent, TypeIngest DEF Next

----------------------------------------------------------------------------
(* What a step does to the queue and to the exchanges *)

\* The queue changes in three ways: a row is added, the synced rows are purged,
\* or the batch of a successful exchange is marked.
LEMMA QueueStep ==
    ASSUME [Next]_vars
    PROVE  \/ UNCHANGED <<row, origin>>
           \/ \E d \in Devices : \E pages : enqueueReading(d, pages)
           \/ row' = purgeOld /\ UNCHANGED origin
           \/ SyncSucceeds
<1> USE DEF agentVars, queueVars
<1>1. CASE UNCHANGED vars
    BY <1>1 DEF vars
<1>2. CASE IngestStep
    BY <1>2, ZenonT(60)
    DEF IngestStep, HandlerStep, RequestArrives, RequestUnauthorized, ExchangeLost,
        ResolveDevice, WriteDevice, openCounterResetAlert, MapReading, SkipReading,
        InsertReadings, InsertFails, PublishJobs
<1>3. CASE AgentStep
    BY <1>3 DEF AgentStep, PrintPages, ReplaceBoard, CaptureScanned, CaptureNothing,
                CaptureKnown, StartKnownDevicesTask, StartScanChunk, SyncPost, SyncRefused,
                SyncRepost, SyncAborts, AgentRestart
<1> QED BY <1>1, <1>2, <1>3 DEF Next

\* A step of the agent leaves an exchange alone, forgets it, or begins it, with
\* the oldest pending rows or with the batch it carried.
LEMMA AgentExchange ==
    ASSUME TypeInv, AgentStep, NEW s \in Slots
    PROVE  net'[s] \in {net[s], Free, Request(getPendingReadings), Request(net[s].batch)}
<1> USE DEF TypeInv, TypeOK
<1>1. CASE UNCHANGED net
    BY <1>1
<1>2. ASSUME NEW t \in Slots, SyncPost(t)
      PROVE  net'[s] \in {net[s], Free, Request(getPendingReadings), Request(net[s].batch)}
    BY <1>2 DEF SyncPost
<1>3. CASE SyncSucceeds \/ SyncRefused \/ SyncRepost \/ SyncAborts
    BY <1>3 DEF SyncSucceeds, SyncRefused, SyncRepost, SyncAborts, Abandon
<1>4. CASE AgentRestart
    BY <1>4 DEF AgentRestart, Abandon
<1> QED
    BY <1>1, <1>2, <1>3, <1>4
       DEF AgentStep, PrintPages, ReplaceBoard, CaptureScanned, CaptureNothing,
           CaptureKnown, StartKnownDevicesTask, StartScanChunk

\* A step of the cloud belongs to one exchange, whose rows it only moves or
\* drops.
LEMMA IngestExchange ==
    ASSUME TypeInv, NEW s \in Slots,
           \/ HandlerStep(s) \/ RequestUnauthorized(s) \/ ExchangeLost(s)
           \/ InsertFails(s) \/ PublishJobs(s, "error")
    PROVE  /\ OthersSame(s)
           /\ \/ net'[s] = Free
              \/ /\ SameBatch(s)
                 /\ net'[s].todo \subseteq net[s].todo
                 /\ InProgress(s)' \subseteq InProgress(s) \cup net[s].todo
                 /\ net'[s].mapped \subseteq net[s].mapped \cup InProgress(s)
<1> USE DEF TypeInv, TypeOK, InProgress
<1>1. CASE RequestArrives(s)
    BY <1>1, ArrivesSlot
<1>2. ASSUME NEW phase \in Phases, Answer(s, phase)
      PROVE  /\ OthersSame(s)
             /\ \/ net'[s] = Free
                \/ /\ SameBatch(s)
                   /\ net'[s].todo = net[s].todo /\ InProgress(s)' = InProgress(s)
                   /\ net'[s].mapped = net[s].mapped
    BY <1>2, AnswerSlot
<1>3. ASSUME NEW r \in Rows, ResolveDevice(s, r)
      PROVE  /\ OthersSame(s) /\ SameBatch(s)
             /\ net'[s].todo \subseteq net[s].todo
             /\ InProgress(s)' \subseteq InProgress(s) \cup net[s].todo
             /\ net'[s].mapped = net[s].mapped
    <2>1. r \in net[s].todo /\ deviceTotal[origin[r]] \in Counters \cup {Absent}
        BY <1>3 DEF ResolveDevice, nextOfItsDevice, CarriesCaptured, OriginKnown
    <2> QED BY <1>3, <2>1, ResolveSlot
<1>4. ASSUME NEW e \in net[s].seen, MapReading(s, e)
      PROVE  /\ OthersSame(s) /\ SameBatch(s)
             /\ net'[s].todo = net[s].todo /\ InProgress(s)' \subseteq InProgress(s)
             /\ net'[s].mapped \subseteq net[s].mapped \cup InProgress(s)
    BY <1>4, MapSlot
<1>5. ASSUME NEW e \in net[s].seen, SkipReading(s, e)
      PROVE  /\ OthersSame(s) /\ SameBatch(s)
             /\ net'[s].todo = net[s].todo /\ InProgress(s)' \subseteq InProgress(s)
             /\ net'[s].mapped \subseteq net[s].mapped \cup InProgress(s)
    BY <1>5, SkipSlot
<1>6. CASE InsertReadings(s)
    BY <1>6, InsertSlot
<1>7. ASSUME NEW e \in net[s].seen, WriteDevice(s, e) \/ openCounterResetAlert(s, e)
      PROVE  /\ OthersSame(s) /\ SameBatch(s)
             /\ net'[s].todo = net[s].todo /\ InProgress(s)' = InProgress(s)
             /\ net'[s].mapped = net[s].mapped
    <2>1. TypeOK => net \in [Slots -> Exchange]
        BY DEF TypeOK
    <2> QED BY <1>7, <2>1, WriteSlot
<1> QED
    BY <1>1, <1>2, <1>3, <1>4, <1>5, <1>6, <1>7
       DEF HandlerStep, RequestUnauthorized, ExchangeLost, InsertFails, PublishJobs, Phases

\* A row in use stays in use, and has an origin.
LEMMA CapturedStep ==
    ASSUME TypeInv, [Next]_vars
    PROVE  Captured \subseteq Captured' /\ OriginKnown'
<1> USE DEF Captured, OriginKnown, TypeInv, TypeOK
<1>1. CASE UNCHANGED <<row, origin>>
    BY <1>1
<1>2. ASSUME NEW d \in Devices, NEW pages, enqueueReading(d, pages)
      PROVE  Captured \subseteq Captured' /\ OriginKnown'
    BY <1>2 DEF enqueueReading
<1>3. CASE row' = purgeOld /\ UNCHANGED origin
    BY <1>3 DEF purgeOld
<1>4. CASE SyncSucceeds
    BY <1>4 DEF SyncSucceeds, markSynced, CarriesCaptured
<1> QED BY <1>1, <1>2, <1>3, <1>4, QueueStep

\* An exchange carries rows in use only.
LEMMA CarriesStep ==
    ASSUME TypeInv, [Next]_vars, NEW t \in Slots
    PROVE  CarriesCaptured(t)'
<1> USE DEF TypeInv, TypeOK, CarriesCaptured, InProgress
<1>0. Captured \subseteq Captured'
    BY CapturedStep
<1>1. CASE net'[t] = net[t]
    BY <1>0, <1>1
<1>2. CASE AgentStep
    <2>1. ASSUME NEW b \in SUBSET Captured, net'[t] = Request(b) PROVE CarriesCaptured(t)'
        BY <1>0, <2>1, RequestFields
    <2>2. CASE net'[t] = Free
        BY <2>2 DEF Free
    <2> QED BY <1>1, <1>2, <2>1, <2>2, AgentExchange, PendingAreCaptured
<1>3. ASSUME NEW s \in Slots,
             \/ HandlerStep(s) \/ RequestUnauthorized(s) \/ ExchangeLost(s)
             \/ InsertFails(s) \/ PublishJobs(s, "error")
      PROVE  CarriesCaptured(t)'
    <2>1. CASE t # s
        BY <1>1, <1>3, <2>1, IngestExchange DEF OthersSame
    <2>2. CASE t = s
        BY <1>0, <1>3, <2>2, IngestExchange DEF SameBatch, Free
    <2> QED BY <2>1, <2>2
<1>4. CASE UNCHANGED vars
    BY <1>1, <1>4 DEF vars
<1> QED BY <1>2, <1>3, <1>4 DEF Next, IngestStep

\* The strengthened type invariant is inductive.
LEMMA TypeInvStep == TypeInv /\ [Next]_vars => TypeInv'
BY TypeStep, CapturedStep, CarriesStep DEF TypeInv

\* It holds in every reachable state.
LEMMA AlwaysTypeInv == Spec => []TypeInv
BY TypeInit, TypeInvStep, PTL DEF Spec

\* Every variable keeps its type, for any number of printers, rows and slots.
THEOREM TypeCorrect == Spec => []TypeOK
<1>1. TypeInv => TypeOK
    BY DEF TypeInv
<1> QED BY <1>1, AlwaysTypeInv, PTL
=============================================================================

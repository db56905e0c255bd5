----------------------- MODULE TelemetryDeliveryProofs ----------------------
(***************************************************************************)
(* The delivery guarantees of the telemetry path, for any number of        *)
(* printers, rows and overlapping exchanges.  None of them is inductive:   *)
(* what makes an acknowledgement safe is what every exchange in flight     *)
(* owes, what makes an announcement unique is who may still make it, and   *)
(* what makes a drop of the counter visible is the order in which the      *)
(* newest exchange works on the readings.                                  *)
(***************************************************************************)
EXTENDS TelemetryProofs, TelemetryDrops, FiniteSetTheorems

----------------------------------------------------------------------------
(* Until its handler answers, each reading of a batch is to do, in          *)
(* progress, mapped or skipped; once inserted, mapped or skipped; and an    *)
(* answer "ok" may only be on its way when nothing is owed any more.        *)

Settled(r) == r \in Handled /\ r \in evaluated \cup skipped
OwedReading(s) ==
    /\ net[s].phase \in {"sent", "processing"} =>
          net[s].batch \subseteq net[s].todo \cup InProgress(s) \cup net[s].mapped \cup skipped
    /\ net[s].phase = "stored" =>
          net[s].mapped \subseteq Stored /\ net[s].batch \subseteq net[s].mapped \cup skipped
    /\ net[s].phase = "ok" => \A r \in net[s].batch : Settled(r)
AcknowledgedIsSettled == \A r \in Acknowledged : Settled(r)
DeliveryInv == TypeInv /\ (\A s \in Slots : OwedReading(s)) /\ AcknowledgedIsSettled

\* At first no exchange owes anything and no row is acknowledged.
LEMMA DeliveryInit == Init => DeliveryInv
<1> SUFFICES ASSUME Init PROVE DeliveryInv
    OBVIOUS
<1>1. TypeInv
    BY TypeInit
<1>2. \A s \in Slots : OwedReading(s)
    BY DEF Init, QueueInit, OwedReading, Free
<1>3. AcknowledgedIsSettled
    BY DEF Init, QueueInit, AcknowledgedIsSettled, Acknowledged
<1> QED BY <1>1, <1>2, <1>3 DEF DeliveryInv

\* The cloud forgets nothing.
LEMMA CloudGrows ==
    ASSUME TypeInv, [Next]_vars
    PROVE  Stored \subseteq Stored' /\ skipped \subseteq skipped' /\ evaluated \subseteq evaluated'
<1> USE DEF TypeInv, TypeOK, Stored, cloudVars
<1>1. CASE UNCHANGED cloudVars
    BY <1>1
<1>2. CASE UNCHANGED <<stored, skipped, evaluated>>
    BY <1>2
<1>3. ASSUME NEW s \in Slots, NEW e \in net[s].seen, SkipReading(s, e)
      PROVE  /\ Stored \subseteq Stored' /\ skipped \subseteq skipped'
             /\ evaluated \subseteq evaluated'
    BY <1>3 DEF SkipReading
<1>4. ASSUME NEW s \in Slots, InsertReadings(s)
      PROVE  /\ Stored \subseteq Stored' /\ skipped \subseteq skipped'
             /\ evaluated \subseteq evaluated'
    BY <1>4 DEF InsertReadings, insertReadings
<1>5. ASSUME NEW s \in Slots, NEW a \in {"ok", "error"}, PublishJobs(s, a)
      PROVE  /\ Stored \subseteq Stored' /\ skipped \subseteq skipped'
             /\ evaluated \subseteq evaluated'
    BY <1>5 DEF PublishJobs
<1>6. CASE IngestStep
    BY <1>1, <1>2, <1>3, <1>4, <1>5, <1>6
       DEF IngestStep, HandlerStep, RequestArrives, RequestUnauthorized, ExchangeLost,
           ResolveDevice, WriteDevice, openCounterResetAlert, MapReading, InsertFails
<1> QED BY <1>1, <1>6 DEF Next, vars

\* A reading the cloud has settled stays settled.
LEMMA SettledStays ==
    ASSUME TypeInv, [Next]_vars, NEW r, Settled(r)
    PROVE  Settled(r)'
BY CloudGrows DEF Settled, Handled

\* An exchange nobody touched owes what it owed.
LEMMA OwedUntouched ==
    ASSUME TypeInv, [Next]_vars, NEW t \in Slots, OwedReading(t), net'[t] = net[t]
    PROVE  OwedReading(t)'
<1>1. Stored \subseteq Stored' /\ skipped \subseteq skipped' /\ evaluated \subseteq evaluated'
    BY CloudGrows
<1>2. \A r : Settled(r) => Settled(r)'
    BY SettledStays
<1> QED BY <1>1, <1>2 DEF OwedReading, InProgress

\* The agent's steps owe the whole batch of the exchange they begin.
LEMMA OwedByAgent ==
    ASSUME TypeInv, [Next]_vars, AgentStep, NEW t \in Slots, OwedReading(t)
    PROVE  OwedReading(t)'
<1>1. CASE net'[t] = net[t]
    BY <1>1, OwedUntouched
<1>2. CASE net'[t] = Free
    BY <1>2 DEF Free, OwedReading
<1>3. ASSUME NEW b, net'[t] = Request(b) PROVE OwedReading(t)'
    BY <1>3, RequestFields DEF OwedReading
<1> QED BY <1>1, <1>2, <1>3, AgentExchange

\* The handler moves a reading from to do to in progress, from there to mapped
\* or skipped, and answers "ok" only once mapped and skipped are settled.
LEMMA OwedByHandler ==
    ASSUME TypeInv, [Next]_vars, NEW s \in Slots, OwedReading(s),
           \/ HandlerStep(s) \/ RequestUnauthorized(s) \/ ExchangeLost(s)
           \/ InsertFails(s) \/ PublishJobs(s, "error")
    PROVE  OwedReading(s)'
<1> USE DEF TypeInv, TypeOK, OwedReading, SameBatch, InProgress
<1>0. skipped \subseteq skipped' /\ Stored \subseteq Stored' /\ evaluated \subseteq evaluated'
    BY CloudGrows
<1>1. CASE RequestArrives(s)
    <2>1. net[s].phase = "sent"
        BY <1>1 DEF RequestArrives
    <2> QED BY <1>0, <1>1, <2>1, ArrivesSlot
<1>2. ASSUME NEW phase \in {"lost", "error", "unauthorized"}, Answer(s, phase)
      PROVE  OwedReading(s)'
    BY <1>2, AnswerSlot DEF Phases, Free
<1>3. ASSUME NEW r \in Rows, ResolveDevice(s, r)
      PROVE  OwedReading(s)'
    <2>1. /\ net[s].phase = "processing" /\ deviceTotal[origin[r]] \in Counters \cup {Absent}
        BY <1>3 DEF ResolveDevice, nextOfItsDevice, CarriesCaptured, OriginKnown
    <2>2. r \in {e.row : e \in net'[s].seen}
        <3> DEFINE reading == [row |-> r, total |-> deviceTotal[origin[r]], at |-> "read"]
        <3>1. reading.row = r
            OBVIOUS
        <3>2. reading \in net'[s].seen
            BY <1>3, <2>1, ResolveSlot
        <3> QED BY <3>1, <3>2
    <2>3. InProgress(s) \subseteq {e.row : e \in net'[s].seen}
        BY <1>3, <2>1, ResolveSlot
    <2> QED BY <1>0, <1>3, <2>1, <2>2, <2>3, ResolveSlot
<1>4. ASSUME NEW e \in net[s].seen, MapReading(s, e)
      PROVE  OwedReading(s)'
    <2>1. net[s].phase = "processing"
        BY <1>4 DEF MapReading, Handles
    <2>2. InProgress(s) \subseteq {f.row : f \in net'[s].seen} \cup {e.row}
        BY <1>4, MapSlot
    <2> QED BY <1>0, <1>4, <2>1, <2>2, MapSlot
<1>5. ASSUME NEW e \in net[s].seen, SkipReading(s, e)
      PROVE  OwedReading(s)'
    <2>1. net[s].phase = "processing" /\ skipped' = skipped \cup {e.row}
        BY <1>5 DEF SkipReading
    <2>2. InProgress(s) \subseteq {f.row : f \in net'[s].seen} \cup {e.row}
        BY <1>5, SkipSlot
    <2> QED BY <1>0, <1>5, <2>1, <2>2, SkipSlot
<1>6. CASE InsertReadings(s)
    <2>1. net[s].batch \subseteq net[s].mapped \cup skipped
        BY <1>6 DEF InsertReadings, AllProcessed
    <2>2. net[s].mapped \subseteq Stored'
        <3>1. net[s].mapped \subseteq Rows
            BY DEF Exchange
        <3> QED BY <1>6, <3>1 DEF InsertReadings, insertReadings, Stored
    <2> QED BY <1>0, <1>6, <2>1, <2>2, InsertSlot
<1>7. CASE PublishJobs(s, "ok")
    <2>1. net[s].phase = "stored" /\ evaluated' = evaluated \cup net[s].mapped
        BY <1>7 DEF PublishJobs, enqueueAlertEvaluation
    <2>2. \A r \in net[s].batch : Settled(r)'
        BY <1>0, <2>1 DEF Settled, Handled
    <2>3. net'[s] = Free \/ (net'[s].phase = "ok" /\ SameBatch(s))
        BY <1>7, AnswerSlot DEF PublishJobs, Phases
    <2> QED BY <2>2, <2>3 DEF Free
<1>8. ASSUME NEW e \in net[s].seen, WriteDevice(s, e) \/ openCounterResetAlert(s, e)
      PROVE  OwedReading(s)'
    <2>1. /\ net[s].phase = "processing" /\ net'[s].phase = "processing" /\ SameBatch(s)
          /\ net'[s].todo = net[s].todo /\ net'[s].mapped = net[s].mapped
          /\ {f.row : f \in net'[s].seen} = {f.row : f \in net[s].seen}
        BY <1>8, WriteSlot
    <2> QED BY <1>0, <2>1
<1> QED
    BY <1>1, <1>2, <1>3, <1>4, <1>5, <1>6, <1>7, <1>8
       DEF HandlerStep, RequestUnauthorized, ExchangeLost, InsertFails, PublishJobs

\* Whoever takes the step, every exchange still owes its readings.
LEMMA OwedStep ==
    ASSUME DeliveryInv, [Next]_vars, NEW t \in Slots
    PROVE  OwedReading(t)'
<1> USE DEF DeliveryInv
<1>1. CASE AgentStep
    BY <1>1, OwedByAgent
<1>2. ASSUME NEW s \in Slots,
             \/ HandlerStep(s) \/ RequestUnauthorized(s) \/ ExchangeLost(s)
             \/ InsertFails(s) \/ PublishJobs(s, "error")
      PROVE  OwedReading(t)'
    <2>1. CASE t = s
        BY <1>2, <2>1, OwedByHandler
    <2>2. CASE t # s
        BY <1>2, <2>2, IngestExchange, OwedUntouched DEF OthersSame
    <2> QED BY <2>1, <2>2
<1>3. CASE UNCHANGED vars
    BY <1>3, OwedUntouched DEF vars
<1> QED BY <1>1, <1>2, <1>3 DEF Next, IngestStep

\* Rows are acknowledged only by a successful exchange, whose batch is settled.
LEMMA AcknowledgedStep ==
    ASSUME DeliveryInv, [Next]_vars
    PROVE  AcknowledgedIsSettled'
<1> USE DEF DeliveryInv, TypeInv, TypeOK, Acknowledged
<1>1. \A r : Settled(r) => Settled(r)'
    BY SettledStays
<1>2. Acknowledged' \subseteq Acknowledged \/ (SyncSucceeds /\ waiting \in Slots)
    <2>1. CASE UNCHANGED <<row, origin>>
        BY <2>1
    <2>2. ASSUME NEW d \in Devices, NEW pages, enqueueReading(d, pages) PROVE Acknowledged' \subseteq Acknowledged
        BY <2>2 DEF enqueueReading
    <2>3. CASE row' = purgeOld /\ UNCHANGED origin
        BY <2>3 DEF purgeOld
    <2>4. CASE SyncSucceeds
        BY <2>4 DEF SyncSucceeds
    <2> QED BY <2>1, <2>2, <2>3, <2>4, QueueStep
<1>3. CASE SyncSucceeds /\ waiting \in Slots
    <2>1. Acknowledged' \subseteq Acknowledged \cup net[waiting].batch
        BY <1>3 DEF SyncSucceeds, markSynced
    <2>2. \A r \in net[waiting].batch : Settled(r)
        BY <1>3 DEF SyncSucceeds, OwedReading
    <2> QED BY <1>1, <2>1, <2>2 DEF AcknowledgedIsSettled
<1> QED BY <1>1, <1>2, <1>3 DEF AcknowledgedIsSettled

\* The delivery invariant holds in every reachable state.
LEMMA AlwaysDeliveryInv == Spec => []DeliveryInv
<1>1. DeliveryInv /\ [Next]_vars => DeliveryInv'
    <2> SUFFICES ASSUME DeliveryInv, [Next]_vars PROVE DeliveryInv'
        OBVIOUS
    <2>1. TypeInv'
        BY TypeInvStep DEF DeliveryInv
    <2>2. \A s \in Slots : OwedReading(s)'
        BY OwedStep
    <2> QED BY <2>1, <2>2, AcknowledgedStep DEF DeliveryInv
<1> QED BY <1>1, DeliveryInit, PTL DEF Spec

\* No reading leaves the agent's queue before the cloud stored it or turned it
\* into null (uploader.ts uploadPending, sync-readings.ts execute).
THEOREM NoReadingIsLost == Spec => []AcknowledgedIsHandled
<1>1. DeliveryInv => AcknowledgedIsHandled
    BY DEF DeliveryInv, AcknowledgedIsSettled, Settled, AcknowledgedIsHandled
<1> QED BY <1>1, AlwaysDeliveryInv, PTL

\* Nor before the alert evaluation was offered it (enqueueAlertEvaluation).
THEOREM NoEvaluationIsLost == Spec => []AcknowledgedIsEvaluated
<1>1. DeliveryInv => AcknowledgedIsEvaluated
    BY DEF DeliveryInv, AcknowledgedIsSettled, Settled, AcknowledgedIsEvaluated
<1> QED BY <1>1, AlwaysDeliveryInv, PTL
----------------------------------------------------------------------------
(* A reading is stored and announced once.  Who may announce it is whoever  *)
(* inserted it: of the exchanges that are stored and not yet published, at  *)
(* most one has it as fresh, and then nobody announced it before.           *)

Announces(s, r) == net[s].phase = "stored" /\ r \in net[s].fresh
OneAnnouncer ==
    \A s \in Slots, r \in Rows : Announces(s, r) =>
        /\ stored[r] > 0 /\ webhooks[r] = 0
        /\ \A t \in Slots \ {s} : ~Announces(t, r)
AnnouncedIsStored == \A r \in Rows : webhooks[r] <= 1 /\ (stored[r] = 0 => webhooks[r] = 0)
OnceInv == TypeInv /\ StoredAtMostOnce /\ OneAnnouncer /\ AnnouncedIsStored

\* At first nothing is stored and nobody has anything to announce.
LEMMA OnceInit == Init => OnceInv
BY TypeInit
   DEF Init, QueueInit, IngestInit, OnceInv, StoredAtMostOnce, OneAnnouncer, Announces,
       AnnouncedIsStored, Free

\* Steps that neither insert nor publish give nobody anything to announce.
LEMMA QuietStep ==
    ASSUME OnceInv, UNCHANGED <<stored, webhooks>>,
           \A t \in Slots, r \in Rows : Announces(t, r)' => Announces(t, r)
    PROVE  StoredAtMostOnce' /\ OneAnnouncer' /\ AnnouncedIsStored'
BY DEF OnceInv, StoredAtMostOnce, OneAnnouncer, AnnouncedIsStored

\* The agent gives no exchange anything to announce.
LEMMA QuietAgent ==
    ASSUME TypeInv, AgentStep
    PROVE  \A t \in Slots, r \in Rows : Announces(t, r)' => Announces(t, r)
<1> SUFFICES ASSUME NEW t \in Slots, NEW r \in Rows, Announces(t, r)'
             PROVE  Announces(t, r)
    OBVIOUS
<1>1. Free.phase = "free" /\ \A b : Request(b).phase = "sent"
    BY RequestFields DEF Free
<1> QED BY <1>1, AgentExchange DEF Announces

\* Of the cloud, only the INSERT does, and only to its own exchange.
LEMMA QuietHandler ==
    ASSUME TypeInv, NEW s \in Slots,
           \/ HandlerStep(s) \/ RequestUnauthorized(s) \/ ExchangeLost(s)
           \/ InsertFails(s) \/ PublishJobs(s, "error"),
           ~InsertReadings(s)
    PROVE  /\ \A t \in Slots \ {s}, r \in Rows : Announces(t, r)' => Announces(t, r)
           /\ \A r \in Rows : ~Announces(s, r)'
<1> USE DEF TypeInv, TypeOK, Announces
<1>1. \A t \in Slots \ {s}, r \in Rows : Announces(t, r)' => Announces(t, r)
    BY IngestExchange DEF OthersSame
<1>2. net'[s].phase # "stored"
    <2>1. CASE RequestArrives(s)
        BY <2>1, ArrivesSlot
    <2>2. ASSUME NEW phase \in {"lost", "ok", "error", "unauthorized"}, Answer(s, phase)
          PROVE  net'[s].phase # "stored"
        BY <2>2, AnswerSlot DEF Phases, Free
    <2>3. ASSUME NEW r \in Rows, ResolveDevice(s, r) PROVE net'[s].phase # "stored"
        <3>1. net[s].phase = "processing" /\ deviceTotal[origin[r]] \in Counters \cup {Absent}
            BY <2>3 DEF ResolveDevice, nextOfItsDevice, CarriesCaptured, OriginKnown
        <3> QED BY <2>3, <3>1, ResolveSlot
    <2>4. ASSUME NEW e \in net[s].seen, MapReading(s, e) PROVE net'[s].phase # "stored"
        BY <2>4, MapSlot DEF MapReading, Handles
    <2>5. ASSUME NEW e \in net[s].seen, SkipReading(s, e)
          PROVE  net'[s].phase # "stored"
        BY <2>5, SkipSlot DEF SkipReading
    <2>6. ASSUME NEW e \in net[s].seen, WriteDevice(s, e) \/ openCounterResetAlert(s, e)
          PROVE  net'[s].phase # "stored"
        BY <2>6, WriteSlot
    <2> QED
        BY <2>1, <2>2, <2>3, <2>4, <2>5, <2>6
           DEF HandlerStep, RequestUnauthorized, ExchangeLost, InsertFails, PublishJobs
<1> QED BY <1>1, <1>2

\* The rows an INSERT returns had not been stored, hence not announced.
LEMMA OnceInsert ==
    ASSUME OnceInv, NEW s \in Slots, InsertReadings(s)
    PROVE  StoredAtMostOnce' /\ OneAnnouncer' /\ AnnouncedIsStored'
<1> USE DEF OnceInv, TypeInv, TypeOK
<1>1. /\ UNCHANGED webhooks
      /\ \A r \in Rows : stored'[r] =
             IF r \in net[s].mapped /\ stored[r] = 0 THEN 1 ELSE stored[r]
    BY DEF InsertReadings, insertReadings
<1>2. \A r \in Rows : Announces(s, r)' => r \in net[s].mapped /\ stored[r] = 0
    BY InsertSlot DEF Announces, Stored
<1>3. \A t \in Slots \ {s}, r \in Rows : Announces(t, r)' => Announces(t, r)
    BY InsertSlot DEF Announces, OthersSame
<1>4. StoredAtMostOnce' /\ AnnouncedIsStored'
    BY <1>1 DEF StoredAtMostOnce, AnnouncedIsStored
<1>5. OneAnnouncer'
    <2> SUFFICES ASSUME NEW u \in Slots, NEW r \in Rows, Announces(u, r)'
                 PROVE  /\ stored'[r] > 0 /\ webhooks'[r] = 0
                        /\ \A t \in Slots \ {u} : ~Announces(t, r)'
        BY DEF OneAnnouncer
    <2>1. CASE u = s
        BY <1>1, <1>2, <1>3, <2>1 DEF OneAnnouncer, AnnouncedIsStored
    <2>2. CASE u # s
        BY <1>1, <1>2, <1>3, <2>2 DEF OneAnnouncer
    <2> QED BY <2>1, <2>2
<1> QED BY <1>4, <1>5

\* Publishing announces the fresh rows and leaves nothing to announce.
LEMMA OncePublish ==
    ASSUME OnceInv, NEW s \in Slots, NEW a \in {"ok", "error"}, PublishJobs(s, a)
    PROVE  StoredAtMostOnce' /\ OneAnnouncer' /\ AnnouncedIsStored'
<1> USE DEF OnceInv, TypeInv, TypeOK
<1>1. /\ UNCHANGED stored
      /\ \A r \in Rows : webhooks'[r] =
             IF Announces(s, r) THEN webhooks[r] + 1 ELSE webhooks[r]
    BY DEF PublishJobs, enqueueReadingWebhook, Announces
<1>2. ~InsertReadings(s)
    BY DEF PublishJobs, InsertReadings, AllProcessed
<1>3. /\ \A t \in Slots \ {s}, r \in Rows : Announces(t, r)' => Announces(t, r)
      /\ \A r \in Rows : ~Announces(s, r)'
    BY <1>2, QuietHandler DEF HandlerStep
<1>4. StoredAtMostOnce' /\ AnnouncedIsStored'
    BY <1>1 DEF StoredAtMostOnce, AnnouncedIsStored, OneAnnouncer
<1>5. OneAnnouncer'
    BY <1>1, <1>3 DEF OneAnnouncer
<1> QED BY <1>4, <1>5

\* The invariant of storing and announcing once is inductive.
LEMMA OnceStep == OnceInv /\ [Next]_vars => OnceInv'
<1> SUFFICES ASSUME OnceInv, [Next]_vars PROVE OnceInv'
    OBVIOUS
<1>1. TypeInv'
    BY TypeInvStep DEF OnceInv
<1>2. CASE UNCHANGED vars
    BY <1>1, <1>2, QuietStep DEF vars, cloudVars, Announces, OnceInv
<1>3. CASE AgentStep /\ UNCHANGED cloudVars
    BY <1>1, <1>3, QuietAgent, QuietStep DEF cloudVars, OnceInv
<1>4. ASSUME NEW s \in Slots,
             \/ HandlerStep(s) \/ RequestUnauthorized(s) \/ ExchangeLost(s)
             \/ InsertFails(s) \/ PublishJobs(s, "error")
      PROVE  OnceInv'
    <2>1. CASE InsertReadings(s)
        BY <1>1, <2>1, OnceInsert DEF OnceInv
    <2>2. ASSUME NEW a \in {"ok", "error"}, PublishJobs(s, a) PROVE OnceInv'
        BY <1>1, <2>2, OncePublish DEF OnceInv
    <2>3. CASE ~InsertReadings(s) /\ UNCHANGED <<stored, webhooks>>
        BY <1>1, <1>4, <2>3, QuietHandler, QuietStep DEF OnceInv
    <2>4. \/ InsertReadings(s) \/ PublishJobs(s, "ok") \/ PublishJobs(s, "error")
          \/ UNCHANGED <<stored, webhooks>>
        BY <1>4 DEF HandlerStep, RequestArrives, ResolveDevice, WriteDevice,
                    openCounterResetAlert, MapReading, SkipReading,
                    RequestUnauthorized, ExchangeLost, InsertFails, cloudVars
    <2> QED BY <2>1, <2>2, <2>3, <2>4
<1> QED BY <1>2, <1>3, <1>4 DEF Next, IngestStep

\* It holds in every reachable state.
LEMMA AlwaysOnceInv == Spec => []OnceInv
BY OnceInit, OnceStep, PTL DEF Spec

\* However often a batch is redelivered, a reading is stored at most once
\* (ON CONFLICT (reading_id, time) DO NOTHING).
THEOREM NoReadingIsStoredTwice == Spec => []StoredAtMostOnce
<1>1. OnceInv => StoredAtMostOnce
    BY DEF OnceInv
<1> QED BY <1>1, AlwaysOnceInv, PTL

\* Nor is it announced twice, although the handlers of one batch may overlap
\* (enqueueReadingWebhook takes the rows RETURNING lists).
THEOREM NoReadingIsAnnouncedTwice == Spec => []WebhookAtMostOnce
<1>1. OnceInv => WebhookAtMostOnce
    BY DEF OnceInv, AnnouncedIsStored, WebhookAtMostOnce
<1> QED BY <1>1, AlwaysOnceInv, PTL
----------------------------------------------------------------------------
(* The order of the queue.  Rows are numbered without gaps, a batch is the  *)
(* oldest pending rows, and what its exchange works on comes from it.       *)

CapturedPrefix == Captured = 1 .. Cardinality(Captured)
OfBatch(s) == net[s].todo \cup InProgress(s) \cup net[s].mapped \subseteq net[s].batch
NothingBefore(s) ==
    \A r \in net[s].batch, q \in Rows : q < r => q \in net[s].batch \cup Handled
HandledIsCaptured == Handled \subseteq Captured
StoredInOrder == \A q, r \in Rows : q < r /\ r \in Stored => q \in Handled
OrderInv ==
    /\ DeliveryInv /\ CapturedPrefix /\ HandledIsCaptured /\ StoredInOrder
    /\ \A s \in Slots : OfBatch(s) /\ NothingBefore(s)

\* The next row is the one after those in use.
LEMMA NextRowIsNext ==
    ASSUME CapturedPrefix
    PROVE  /\ Cardinality(Captured) \in Nat
           /\ NextRow = 1 + Cardinality(Captured)
           /\ Captured = 1 .. Cardinality(Captured)
           /\ NextRow \notin Captured
<1>1. IsFiniteSet(Captured)
    <2>1. IsFiniteSet(Rows)
        BY QueueAssumption, FS_Interval DEF Rows
    <2> QED BY <2>1, FS_Subset DEF Captured
<1>2. Cardinality(Captured) \in Nat
    BY <1>1, FS_CardinalityType
<1>3. NextRow = 1 + Cardinality(Captured)
    BY DEF NextRow, Captured
<1> QED BY <1>2, <1>3 DEF CapturedPrefix

\* Only an enqueued reading brings a row into use, the next one.
LEMMA CapturedGrows ==
    ASSUME TypeInv, [Next]_vars
    PROVE  \/ Captured' = Captured
           \/ \E d \in Devices : \E pages :
                  enqueueReading(d, pages) /\ Captured' = Captured \cup {NextRow}
<1> USE DEF Captured, TypeInv, TypeOK
<1>1. CASE UNCHANGED <<row, origin>>
    BY <1>1
<1>2. ASSUME NEW d \in Devices, NEW pages, enqueueReading(d, pages)
      PROVE  Captured' = Captured \cup {NextRow}
    <2>1. NextRow \in Rows /\ row' = [row EXCEPT ![NextRow] = "pending"]
        BY <1>2 DEF enqueueReading
    <2> QED BY <2>1
<1>3. CASE row' = purgeOld /\ UNCHANGED origin
    BY <1>3 DEF purgeOld
<1>4. CASE SyncSucceeds
    BY <1>4 DEF SyncSucceeds, markSynced, CarriesCaptured
<1> QED BY <1>1, <1>2, <1>3, <1>4, QueueStep

\* The rows in use stay without gaps.
LEMMA PrefixStep ==
    ASSUME TypeInv, CapturedPrefix, [Next]_vars
    PROVE  CapturedPrefix'
<1>1. CASE Captured' = Captured
    BY <1>1 DEF CapturedPrefix
<1>2. CASE Captured' = Captured \cup {NextRow}
    <2> DEFINE n == Cardinality(Captured)
    <2>1. n \in Nat /\ NextRow = 1 + n /\ Captured = 1 .. n
        BY NextRowIsNext
    <2>2. Captured' = 1 .. (n + 1)
        <3> HIDE DEF n
        <3> QED BY <1>2, <2>1
    <2>3. Cardinality(1 .. (n + 1)) = n + 1
        <3> HIDE DEF n
        <3> QED BY <2>1, FS_Interval
    <2> QED BY <2>2, <2>3 DEF CapturedPrefix
<1> QED BY <1>1, <1>2, CapturedGrows

\* Of the pending rows, an older one is sent before a younger one.
LEMMA OldestAreSent ==
    ASSUME NEW r \in getPendingReadings, NEW q \in Pending, q < r
    PROVE  q \in getPendingReadings
<1>1. IsFiniteSet(Pending)
    <2>1. IsFiniteSet(Rows)
        BY QueueAssumption, FS_Interval DEF Rows
    <2> QED BY <2>1, FS_Subset DEF Pending
<1>2. Pending \subseteq Nat
    BY QueueAssumption DEF Pending, Rows
<1> DEFINE Before(x) == {p \in Pending : p < x}
<1>3. Before(q) \subseteq Before(r) /\ IsFiniteSet(Before(r)) /\ IsFiniteSet(Before(q))
    <2>1. \A p \in Pending : p < q => p < r
        BY <1>2 DEF getPendingReadings
    <2> QED BY <1>1, <2>1, FS_Subset
<1>4. /\ Cardinality(Before(q)) <= Cardinality(Before(r))
      /\ Cardinality(Before(q)) \in Nat /\ Cardinality(Before(r)) \in Nat
    BY <1>3, FS_Subset, FS_CardinalityType
<1>5. Cardinality(Before(r)) < BatchLimit
    BY DEF getPendingReadings
<1>6. Cardinality(Before(q)) < BatchLimit
    BY <1>4, <1>5, QueueAssumption
<1> QED BY <1>6 DEF getPendingReadings

\* Everything older than a reading that is sent is sent with it or acknowledged.
LEMMA OlderIsSent ==
    ASSUME TypeInv, CapturedPrefix, NEW r \in getPendingReadings, NEW q \in Rows, q < r
    PROVE  q \in getPendingReadings \cup Acknowledged
<1> DEFINE n == Cardinality(Captured)
<1>1. r \in Captured
    BY PendingAreCaptured
<1>2. Captured = 1 .. n /\ n \in Nat
    BY NextRowIsNext
<1>3. q \in Nat /\ q >= 1
    BY QueueAssumption DEF Rows
<1>4. q \in Captured
    <2> HIDE DEF n
    <2> QED BY <1>1, <1>2, <1>3
<1>5. q \in Pending \/ q \in Acknowledged
    BY <1>4 DEF Captured, Pending, Acknowledged, TypeInv, TypeOK, RowStates
<1> QED BY <1>5, OldestAreSent

\* At first no row is in use.
LEMMA OrderInit == Init => OrderInv
<1> SUFFICES ASSUME Init PROVE OrderInv
    OBVIOUS
<1>1. DeliveryInv
    BY DeliveryInit
<1>2. Captured = {} /\ Stored = {} /\ skipped = {}
    BY DEF Init, QueueInit, IngestInit, Captured, Stored
<1>3. CapturedPrefix
    BY <1>2, FS_EmptySet DEF CapturedPrefix
<1>4. HandledIsCaptured /\ StoredInOrder
    BY <1>2 DEF HandledIsCaptured, StoredInOrder, Handled
<1>5. \A s \in Slots : OfBatch(s) /\ NothingBefore(s)
    BY DEF Init, QueueInit, OfBatch, NothingBefore, InProgress, Free
<1> QED BY <1>1, <1>3, <1>4, <1>5 DEF OrderInv

\* What the cloud adds to the handled readings comes from a batch, and a
\* reading it stores has every older one of its batch handled.
LEMMA HandledStep ==
    ASSUME OrderInv, NEW s \in Slots,
           \/ HandlerStep(s) \/ RequestUnauthorized(s) \/ ExchangeLost(s)
           \/ InsertFails(s) \/ PublishJobs(s, "error")
    PROVE  /\ UNCHANGED row
           /\ Handled' \subseteq Handled \cup net[s].batch
           /\ \/ Stored' = Stored
              \/ /\ Stored' \subseteq Stored \cup net[s].batch
                 /\ net[s].batch \subseteq Handled'
<1> USE DEF OrderInv, DeliveryInv, TypeInv, TypeOK, agentVars, queueVars, cloudVars, Handled
<1>1. CASE UNCHANGED <<row, stored, skipped>>
    BY <1>1 DEF Stored
<1>2. ASSUME NEW e \in net[s].seen, SkipReading(s, e)
      PROVE  /\ UNCHANGED <<row, stored>>
             /\ Handled' \subseteq Handled \cup net[s].batch
    <2>1. e.row \in net[s].batch
        BY DEF OfBatch, InProgress
    <2> QED BY <1>2, <2>1 DEF SkipReading, Stored
<1>3. CASE InsertReadings(s)
    <2>1. UNCHANGED <<row, skipped>> /\ stored' = insertReadings(net[s].mapped)
        BY <1>3 DEF InsertReadings
    <2>2. net[s].mapped \subseteq Rows /\ net[s].mapped \subseteq net[s].batch
        BY DEF Exchange, OfBatch
    <2>3. Stored' = Stored \cup net[s].mapped
        BY <2>1, <2>2 DEF insertReadings, Stored
    <2>4. net[s].batch \subseteq net[s].mapped \cup skipped
        BY <1>3 DEF InsertReadings, AllProcessed, OwedReading, InProgress
    <2> QED BY <2>1, <2>2, <2>3, <2>4
<1> QED
    BY <1>1, <1>2, <1>3
       DEF HandlerStep, RequestArrives, ResolveDevice, WriteDevice, openCounterResetAlert,
           MapReading, PublishJobs, RequestUnauthorized, ExchangeLost, InsertFails, Stored

\* Only rows in use are handled.
LEMMA HandledIsCapturedStep ==
    ASSUME OrderInv, [Next]_vars
    PROVE  HandledIsCaptured'
<1> USE DEF OrderInv, DeliveryInv, HandledIsCaptured
<1>0. Captured \subseteq Captured'
    BY CapturedStep
<1>1. CASE UNCHANGED cloudVars
    BY <1>0, <1>1 DEF cloudVars, Handled, Stored
<1>2. ASSUME NEW s \in Slots,
             \/ HandlerStep(s) \/ RequestUnauthorized(s) \/ ExchangeLost(s)
             \/ InsertFails(s) \/ PublishJobs(s, "error")
      PROVE  HandledIsCaptured'
    <2>1. net[s].batch \subseteq Captured
        BY DEF TypeInv, CarriesCaptured
    <2> QED BY <1>0, <1>2, <2>1, HandledStep
<1> QED BY <1>1, <1>2 DEF Next, IngestStep, vars

\* A reading is stored after everything older.
LEMMA StoredInOrderStep ==
    ASSUME OrderInv, [Next]_vars
    PROVE  StoredInOrder'
<1> USE DEF OrderInv, DeliveryInv, StoredInOrder
<1>1. CASE UNCHANGED cloudVars
    BY <1>1 DEF cloudVars, Handled, Stored
<1>2. ASSUME NEW s \in Slots,
             \/ HandlerStep(s) \/ RequestUnauthorized(s) \/ ExchangeLost(s)
             \/ InsertFails(s) \/ PublishJobs(s, "error")
      PROVE  StoredInOrder'
    <2>1. Handled \subseteq Handled'
        BY CloudGrows DEF Handled
    <2>2. CASE Stored' = Stored
        BY <2>1, <2>2
    <2>3. CASE Stored' \subseteq Stored \cup net[s].batch /\ net[s].batch \subseteq Handled'
        BY <2>1, <2>3 DEF NothingBefore
    <2> QED BY <1>2, <2>2, <2>3, HandledStep
<1> QED BY <1>1, <1>2 DEF Next, IngestStep, vars

\* A batch is sent when everything older is in it or handled, and stays whole.
LEMMA BatchStep ==
    ASSUME OrderInv, [Next]_vars, NEW t \in Slots
    PROVE  OfBatch(t)' /\ NothingBefore(t)'
<1> USE DEF OrderInv, DeliveryInv
<1>0. Handled \subseteq Handled'
    BY CloudGrows DEF Handled
<1>1. CASE net'[t] = net[t]
    BY <1>0, <1>1 DEF OfBatch, NothingBefore, InProgress
<1>2. CASE net'[t] = Free
    BY <1>2 DEF OfBatch, NothingBefore, InProgress, Free
<1>3. ASSUME NEW b, net'[t] = Request(b) PROVE OfBatch(t)' /\ net'[t].batch = b
    BY <1>3, RequestFields DEF OfBatch, InProgress
<1>4. CASE net'[t] = Request(net[t].batch)
    BY <1>0, <1>3, <1>4 DEF NothingBefore
<1>5. CASE net'[t] = Request(getPendingReadings)
    <2>1. \A r \in getPendingReadings, q \in Rows :
              q < r => q \in getPendingReadings \cup Acknowledged
        BY OlderIsSent
    <2>2. Acknowledged \subseteq Handled
        BY DEF AcknowledgedIsSettled, Settled
    <2> QED BY <1>0, <1>3, <1>5, <2>1, <2>2 DEF NothingBefore
<1>6. ASSUME NEW s \in Slots,
             \/ HandlerStep(s) \/ RequestUnauthorized(s) \/ ExchangeLost(s)
             \/ InsertFails(s) \/ PublishJobs(s, "error")
      PROVE  OfBatch(t)' /\ NothingBefore(t)'
    <2>1. CASE t # s
        BY <1>1, <1>6, <2>1, IngestExchange DEF OthersSame
    <2>2. CASE t = s
        BY <1>0, <1>2, <1>6, <2>2, IngestExchange
           DEF OfBatch, NothingBefore, SameBatch
    <2> QED BY <2>1, <2>2
<1>7. CASE AgentStep
    BY <1>1, <1>2, <1>4, <1>5, <1>7, AgentExchange
<1>8. CASE UNCHANGED vars
    BY <1>1, <1>8 DEF vars
<1> QED BY <1>6, <1>7, <1>8 DEF Next, IngestStep

\* The order invariant is inductive.
LEMMA OrderStep == OrderInv /\ [Next]_vars => OrderInv'
<1> SUFFICES ASSUME OrderInv, [Next]_vars PROVE OrderInv'
    OBVIOUS
<1>1. TypeInv' /\ (\A s \in Slots : OwedReading(s)')
    BY TypeInvStep, OwedStep DEF OrderInv, DeliveryInv
<1>2. AcknowledgedIsSettled'
    BY AcknowledgedStep DEF OrderInv
<1>3. CapturedPrefix'
    BY PrefixStep DEF OrderInv, DeliveryInv
<1>4. HandledIsCaptured' /\ StoredInOrder'
    BY HandledIsCapturedStep, StoredInOrderStep
<1>5. \A s \in Slots : OfBatch(s)' /\ NothingBefore(s)'
    BY BatchStep
<1> QED BY <1>1, <1>2, <1>3, <1>4, <1>5 DEF OrderInv, DeliveryInv

\* It holds in every reachable state.
LEMMA AlwaysOrderInv == Spec => []OrderInv
BY OrderInit, OrderStep, PTL DEF Spec

\* Of one printer, no reading is stored while an older one is not dealt with
\* (ORDER BY id ASC in getPendingReadings, one INSERT for the batch).
THEOREM OlderIsHandledFirst == Spec => []OldestFirst
<1>1. OrderInv => OldestFirst
    BY DEF OrderInv, StoredInOrder, OldestFirst
<1> QED BY <1>1, AlwaysOrderInv, PTL
----------------------------------------------------------------------------
(* The path implements the abstract queue.  An enqueued reading is a        *)
(* Capture, what a handler stores or skips is a Handle, a successful sync   *)
(* is a Forget; purging, posting and losing exchanges are invisible.        *)

\* A step of the agent captures a reading, forgets handled ones, or changes
\* nothing the promise speaks of.
LEMMA RefineAgent ==
    ASSUME OrderInv, AgentStep /\ UNCHANGED cloudVars
    PROVE  \/ Reliable!Capture \/ Reliable!Forget
           \/ UNCHANGED <<Captured, Pending, Handled>>
<1> USE DEF OrderInv, DeliveryInv, TypeInv, TypeOK
<1>0. Handled' = Handled
    BY DEF cloudVars, Handled, Stored
<1>1. CASE UNCHANGED <<row, origin>>
    BY <1>0, <1>1 DEF Captured, Pending
<1>2. ASSUME NEW d \in Devices, NEW pages, enqueueReading(d, pages)
      PROVE  Reliable!Capture
    <2>1. NextRow \in Rows /\ row' = [row EXCEPT ![NextRow] = "pending"]
        BY <1>2 DEF enqueueReading
    <2>2. NextRow \in Rows \ Captured
        BY <2>1, NextRowIsNext
    <2>3. Captured' = Captured \cup {NextRow} /\ Pending' = Pending \cup {NextRow}
        BY <2>1 DEF Captured, Pending
    <2> QED BY <1>0, <2>2, <2>3 DEF Reliable!Capture, Captured
<1>3. CASE row' = purgeOld /\ UNCHANGED origin
    BY <1>0, <1>3 DEF purgeOld, Captured, Pending
<1>4. CASE SyncSucceeds
    <2> DEFINE b == net[waiting].batch
    <2>1. waiting \in Slots /\ net[waiting].phase = "ok" /\ row' = markSynced(b)
        BY <1>4 DEF SyncSucceeds
    <2>2. b \subseteq Captured /\ b \subseteq Handled
        BY <2>1 DEF CarriesCaptured, OwedReading, Settled
    <2>3. Captured' = Captured /\ Pending' = Pending \ (b \cap Pending)
        BY <2>1, <2>2 DEF markSynced, Captured, Pending
    <2>4. b \cap Pending \in SUBSET (Pending \cap Handled)
        BY <2>2
    <2> QED BY <1>0, <2>3, <2>4 DEF Reliable!Forget, Captured
<1> QED BY <1>1, <1>2, <1>3, <1>4, QueueStep DEF Next

\* A step of the cloud handles captured readings, or nothing.
LEMMA RefineCloud ==
    ASSUME OrderInv, IngestStep
    PROVE  Reliable!Handle
<1>1. UNCHANGED row
    BY HandledStep DEF IngestStep
<1>2. Handled \subseteq Handled'
    BY CloudGrows DEF Handled, Next, OrderInv, DeliveryInv
<1>3. Handled' \subseteq Captured'
    BY HandledIsCapturedStep DEF HandledIsCaptured, Next
<1>4. UNCHANGED <<Captured, Pending>>
    BY <1>1 DEF Captured, Pending
<1>5. Handled' \in SUBSET Captured /\ Handled' = Handled \cup Handled'
    BY <1>2, <1>3, <1>4
<1> QED BY <1>4, <1>5 DEF Reliable!Handle, Captured

\* The queue, the sync loop and the ingest implement the abstract queue: what
\* is captured stays with the agent until the cloud has handled it.
THEOREM TelemetryIsReliable == Spec => ImplementsReliableTelemetry
<1>1. Init => Reliable!Init
    BY DEF Init, QueueInit, IngestInit, Reliable!Init, Pending, Handled, Stored
<1>2. OrderInv /\ [Next]_vars => [Reliable!Next]_(Reliable!reliableVars)
    <2> SUFFICES ASSUME OrderInv, [Next]_vars
                 PROVE  [Reliable!Next]_(Reliable!reliableVars)
        OBVIOUS
    <2>1. CASE AgentStep /\ UNCHANGED cloudVars
        BY <2>1, RefineAgent DEF Reliable!Next, Reliable!reliableVars, Captured
    <2>2. CASE IngestStep
        BY <2>2, RefineCloud DEF Reliable!Next
    <2>3. CASE UNCHANGED vars
        BY <2>3 DEF vars, agentVars, queueVars, cloudVars, Reliable!reliableVars,
                    Pending, Handled, Stored
    <2> QED BY <2>1, <2>2, <2>3 DEF Next
<1> QED BY <1>1, <1>2, AlwaysOrderInv, PTL DEF Spec, ImplementsReliableTelemetry, Reliable!Spec
----------------------------------------------------------------------------
(* The queue's limit.  Both producers check it before their first capture   *)
(* only; each capture then moves one printer from a task, or one probe from *)
(* a scan, to the queue.                                                    *)

ScanIsLimited == Cardinality(Probes(scanTodo)) <= ScanLimit
QueueInv == TypeInv /\ QueueBounded /\ ScanIsLimited

\* Sets of rows and of printers are finite, and their sizes are numbers.
LEMMA Sizes ==
    /\ \A P \in SUBSET Rows : IsFiniteSet(P) /\ Cardinality(P) \in Nat
    /\ \A D \in SUBSET Devices :
           IsFiniteSet(D) /\ Cardinality(D) \in Nat /\ Cardinality(D) <= Cardinality(Devices)
    /\ Cardinality(Devices) \in Nat
    /\ \A todo : IsFiniteSet(Probes(todo)) /\ Cardinality(Probes(todo)) \in Nat
<1>1. IsFiniteSet(Rows)
    BY QueueAssumption, FS_Interval DEF Rows
<1>2. \A P \in SUBSET Rows : IsFiniteSet(P) /\ Cardinality(P) \in Nat
    BY <1>1, FS_Subset, FS_CardinalityType
<1>3. \A todo : IsFiniteSet(Probes(todo)) /\ Cardinality(Probes(todo)) \in Nat
    <2>0. IsFiniteSet(1 .. ScanLimit) /\ IsFiniteSet(Devices)
        BY QueueAssumption, FS_Interval
    <2>1. IsFiniteSet(Devices \X (1 .. ScanLimit))
        BY <2>0, FS_Product
    <2>2. \A todo : Probes(todo) \subseteq Devices \X (1 .. ScanLimit)
        BY DEF Probes
    <2> QED BY <2>1, <2>2, FS_Subset, FS_CardinalityType
<1> QED BY <1>2, <1>3, QueueAssumption, FS_Subset, FS_CardinalityType

\* A probe that is made leaves one less to make.
LEMMA OneProbeLess ==
    ASSUME TypeInv, NEW d \in Devices, scanTodo[d] > 0, ScanDone(d)
    PROVE  Cardinality(Probes(scanTodo')) = Cardinality(Probes(scanTodo)) - 1
<1>1. /\ scanTodo \in [Devices -> 0 .. ScanLimit] /\ ScanLimit \in Nat
      /\ scanTodo' = [scanTodo EXCEPT ![d] = @ - 1]
    BY QueueAssumption DEF TypeInv, TypeOK, ScanDone
<1>2. scanTodo[d] \in 1 .. ScanLimit
    BY <1>1
<1>3. PICK last : last = <<d, scanTodo[d]>>
    OBVIOUS
<1>4. last \in Probes(scanTodo)
    BY <1>2, <1>3 DEF Probes
<1>5. ASSUME NEW c \in Devices, NEW i \in 1 .. ScanLimit
      PROVE  i <= scanTodo'[c] <=> i <= scanTodo[c] /\ <<c, i>> # last
    <2>1. CASE c = d
        <3>1. scanTodo'[c] = scanTodo[d] - 1
            BY <1>1, <2>1
        <3>2. <<c, i>> # last <=> i # scanTodo[d]
            BY <1>3, <2>1
        <3> QED BY <1>2, <2>1, <3>1, <3>2
    <2>2. CASE c # d
        <3>1. scanTodo'[c] = scanTodo[c]
            BY <1>1, <2>2
        <3>2. <<c, i>> # last
            BY <1>3, <2>2
        <3> QED BY <3>1, <3>2
    <2> QED BY <2>1, <2>2
<1>6. Probes(scanTodo') = Probes(scanTodo) \ {last}
    <2>1. \A x : x \in Probes(scanTodo') <=> x \in Probes(scanTodo) /\ x # last
        <3> SUFFICES ASSUME NEW x
                     PROVE  x \in Probes(scanTodo') <=> x \in Probes(scanTodo) /\ x # last
            OBVIOUS
        <3>1. CASE x \in Devices \X (1 .. ScanLimit)
            <4>1. PICK c \in Devices, i \in 1 .. ScanLimit : x = <<c, i>>
                BY <3>1
            <4>2. x[1] = c /\ x[2] = i
                BY <4>1
            <4> QED BY <1>5, <4>1, <4>2 DEF Probes
        <3>2. CASE x \notin Devices \X (1 .. ScanLimit)
            BY <3>2 DEF Probes
        <3> QED BY <3>1, <3>2
    <2> QED BY <2>1
<1> QED BY <1>4, <1>6, Sizes, FS_RemoveElement

\* With nothing to probe there are none.
LEMMA NoProbes == Cardinality(Probes(NothingToProbe)) = 0
<1>1. Probes(NothingToProbe) = {}
    <2> SUFFICES ASSUME NEW x \in Probes(NothingToProbe) PROVE FALSE
        OBVIOUS
    <2>1. PICK c \in Devices, i \in 1 .. ScanLimit : x = <<c, i>>
        BY DEF Probes
    <2>2. i <= NothingToProbe[c] /\ NothingToProbe[c] = 0
        BY <2>1 DEF Probes, NothingToProbe
    <2> QED BY <2>2
<1> QED BY <1>1, FS_EmptySet

\* The arithmetic of the limit: a step under it, a step that adds nothing, and
\* a capture.
LEMMA Tally ==
    ASSUME NEW p \in Nat, NEW k \in Nat, NEW c \in Nat, NEW n \in Nat, NEW limit \in Nat,
           NEW p1 \in Nat, NEW k1 \in Nat, NEW c1 \in Nat, NEW l \in Nat,
           k1 <= n, c1 <= l, p + k + c <= limit + n + l,
           \/ p1 <= p /\ p <= limit
           \/ p1 <= p /\ k1 <= k /\ c1 <= c
           \/ p1 <= p + 1 /\ ((k1 = k - 1 /\ c1 = c) \/ (k1 = k /\ c1 = c - 1))
    PROVE  p1 + k1 + c1 <= limit + n + l
OBVIOUS

\* A capture adds at most one pending row.
LEMMA OneMorePending ==
    ASSUME TypeInv, NEW d, NEW pages, enqueueReading(d, pages)
    PROVE  Cardinality(Pending') <= Cardinality(Pending) + 1
<1>1. NextRow \in Rows /\ row' = [row EXCEPT ![NextRow] = "pending"]
    BY DEF enqueueReading
<1>2. Pending' = Pending \cup {NextRow}
    BY <1>1 DEF Pending, TypeInv, TypeOK
<1>3. Pending \in SUBSET Rows
    BY DEF Pending
<1>4. /\ Cardinality(Pending) \in Nat
      /\ Cardinality(Pending \cup {NextRow}) \in {Cardinality(Pending), Cardinality(Pending) + 1}
    BY <1>3, Sizes, FS_AddElement
<1> QED BY <1>2, <1>4

\* Purging and acknowledging add none.
LEMMA NoMorePending ==
    ASSUME TypeInv, Pending' \subseteq Pending
    PROVE  Cardinality(Pending') <= Cardinality(Pending)
<1>1. Pending \in SUBSET Rows
    BY DEF Pending
<1> QED BY <1>1, Sizes, FS_Subset

\* A scan that starts is within its limit, and none makes a probe twice.
LEMMA ScanLimitStep ==
    ASSUME QueueInv, [Next]_vars
    PROVE  ScanIsLimited'
<1> DEFINE c == Cardinality(Probes(scanTodo))
<1>1. TypeInv /\ c \in Nat /\ c <= ScanLimit /\ ScanLimit \in Nat
    BY Sizes, QueueAssumption DEF QueueInv, ScanIsLimited
<1>2. CASE UNCHANGED scanTodo
    BY <1>1, <1>2 DEF ScanIsLimited
<1>3. ASSUME NEW d \in Devices, scanTodo[d] > 0, ScanDone(d) PROVE ScanIsLimited'
    <2>1. c' = c - 1
        BY <1>1, <1>3, OneProbeLess
    <2> QED BY <1>1, <2>1 DEF ScanIsLimited
<1>4. ASSUME NEW by, NEW probes, StartScanChunk(by, probes) PROVE ScanIsLimited'
    <2>1. scanTodo' = probes /\ Cardinality(Probes(probes)) \in 1 .. ScanLimit
        BY <1>4 DEF StartScanChunk
    <2> QED BY <1>1, <2>1 DEF ScanIsLimited
<1>5. CASE AgentRestart
    <2>1. scanTodo' = NothingToProbe
        BY <1>5 DEF AgentRestart
    <2> QED BY <1>1, <2>1, NoProbes DEF ScanIsLimited
<1>6. CASE AgentStep
    BY <1>2, <1>3, <1>4, <1>5, <1>6
       DEF AgentStep, PrintPages, ReplaceBoard, CaptureScanned, CaptureNothing, CaptureKnown,
           StartKnownDevicesTask, SyncPost, SyncSucceeds, SyncRefused, SyncRepost, SyncAborts,
           taskVars
<1>7. CASE IngestStep \/ UNCHANGED vars
    <2>1. UNCHANGED agentVars
        BY <1>7 DEF vars, IngestStep, HandlerStep, RequestArrives, RequestUnauthorized,
                    ExchangeLost, ResolveDevice, WriteDevice, openCounterResetAlert, MapReading,
                    SkipReading, InsertReadings, InsertFails, PublishJobs
    <2> QED BY <1>2, <2>1 DEF agentVars, taskVars
<1> QED BY <1>6, <1>7 DEF Next

\* The limit is kept: a task starts only under it, and brings at most every
\* printer once, or the probes of one scan.
LEMMA QueueInvStep ==
    ASSUME QueueInv, [Next]_vars
    PROVE  QueueBounded'
<1> DEFINE p == Cardinality(Pending)  k == Cardinality(knownTodo)
           c == Cardinality(Probes(scanTodo)) n == Cardinality(Devices)
<1>0. /\ TypeInv
      /\ p \in Nat /\ k \in Nat /\ c \in Nat /\ n \in Nat /\ BackpressureLimit \in Nat
      /\ ScanLimit \in Nat
      /\ p' \in Nat /\ k' \in Nat /\ c' \in Nat /\ k' <= n /\ c' <= ScanLimit
      /\ p + k + c <= BackpressureLimit + n + ScanLimit
    <2>1. TypeInv /\ TypeInv' /\ ScanIsLimited'
        BY TypeInvStep, ScanLimitStep DEF QueueInv
    <2>2. /\ Pending \in SUBSET Rows /\ Pending' \in SUBSET Rows
          /\ knownTodo \in SUBSET Devices /\ knownTodo' \in SUBSET Devices
        BY <2>1 DEF Pending, TypeInv, TypeOK
    <2> QED BY <2>1, <2>2, Sizes, QueueAssumption DEF QueueInv, QueueBounded, ScanIsLimited
<1> USE <1>0
<1> DEFINE Kept == p' + k' + c' <= BackpressureLimit + n + ScanLimit
<1> SUFFICES Kept
    BY DEF QueueBounded
<1>1. CASE p' <= p /\ k' <= k /\ c' <= c
    BY <1>1, Tally
<1>2. CASE p' <= p /\ p <= BackpressureLimit
    BY <1>2, Tally
<1>3. CASE p' <= p + 1 /\ ((k' = k - 1 /\ c' = c) \/ (k' = k /\ c' = c - 1))
    BY <1>3, Tally
<1>4. CASE UNCHANGED <<Pending, knownTodo, scanTodo>>
    BY <1>1, <1>4
<1>5. CASE Pending' \subseteq Pending /\ UNCHANGED <<knownTodo, scanTodo>>
    BY <1>1, <1>5, NoMorePending
<1>6. /\ \A d : d \in knownTodo => Cardinality(knownTodo \ {d}) = k - 1
      /\ \A d \in Devices : scanTodo[d] > 0 /\ ScanDone(d) => c' = c - 1
    <2>1. IsFiniteSet(knownTodo)
        BY Sizes DEF TypeInv, TypeOK
    <2> QED BY <2>1, OneProbeLess, FS_RemoveElement
<1>7. ASSUME NEW scopes, StartKnownDevicesTask(scopes) PROVE p' <= p /\ p <= BackpressureLimit
    BY <1>7 DEF StartKnownDevicesTask, isBackpressureActive, queueVars, Pending
<1>8. ASSUME NEW by, NEW probes, StartScanChunk(by, probes) PROVE p' <= p /\ p <= BackpressureLimit
    BY <1>8 DEF StartScanChunk, scan, isBackpressureActive, queueVars, Pending
<1>9. ASSUME NEW d, NEW over, CaptureKnown(d, over)
      PROVE  p' <= p + 1 /\ k' = k - 1 /\ c' = c
    <2>1. k' = k - 1 /\ c' = c
        BY <1>6, <1>9 DEF CaptureKnown, KnownDone
    <2>2. CASE enqueueReading(d, pagesRead(d))
        BY <2>1, <2>2, OneMorePending
    <2>3. CASE UNCHANGED queueVars
        <3>1. p' = p
            BY <2>3 DEF queueVars, Pending
        <3> HIDE DEF p
        <3> QED BY <2>1, <3>1
    <2> QED BY <1>9, <2>2, <2>3 DEF CaptureKnown
<1>10. ASSUME NEW d \in Devices, CaptureScanned(d)
       PROVE  p' <= p + 1 /\ k' = k /\ c' = c - 1
    BY <1>6, <1>10, OneMorePending DEF CaptureScanned
<1>11. ASSUME NEW d \in Devices, CaptureNothing(d)
       PROVE  p' <= p + 1 /\ ((k' = k - 1 /\ c' = c) \/ (k' = k /\ c' = c - 1))
    <2>1. p' = p
        BY <1>11 DEF CaptureNothing, queueVars, Pending
    <2>2. \/ d \in knownTodo /\ knownTodo' = knownTodo \ {d} /\ UNCHANGED scanTodo
          \/ scanTodo[d] > 0 /\ ScanDone(d) /\ UNCHANGED knownTodo
        BY <1>11 DEF CaptureNothing, KnownDone
    <2>3. (k' = k - 1 /\ c' = c) \/ (k' = k /\ c' = c - 1)
        <3>1. CASE d \in knownTodo /\ knownTodo' = knownTodo \ {d} /\ UNCHANGED scanTodo
            <4>1. k' = k - 1
                BY <1>6, <3>1
            <4>2. c' = c
                BY <3>1
            <4> HIDE DEF k, c
            <4> QED BY <4>1, <4>2
        <3>2. CASE scanTodo[d] > 0 /\ ScanDone(d) /\ UNCHANGED knownTodo
            <4>1. c' = c - 1
                BY <1>6, <3>2
            <4>2. k' = k
                BY <3>2
            <4> HIDE DEF k, c
            <4> QED BY <4>1, <4>2
        <3> QED BY <2>2, <3>1, <3>2
    <2> HIDE DEF p, k, c
    <2> QED BY <2>1, <2>3
<1>12. CASE AgentRestart
    <2>1. p' = p /\ k' = 0 /\ c' = 0
        BY <1>12, FS_EmptySet, NoProbes DEF AgentRestart, queueVars, Pending
    <2> HIDE DEF p, k, c, n
    <2> QED BY <2>1
<1>13. ASSUME NEW s, SyncPost(s)
       PROVE  Pending' \subseteq Pending /\ UNCHANGED <<knownTodo, scanTodo>>
    BY <1>13 DEF SyncPost, purgeOld, Pending, taskVars
<1>14. CASE SyncSucceeds
    BY <1>5, <1>14 DEF SyncSucceeds, markSynced, Pending, taskVars
<1>15. CASE SyncRefused \/ SyncRepost \/ SyncAborts
    BY <1>4, <1>15 DEF SyncRefused, SyncRepost, SyncAborts, queueVars, taskVars, Pending
<1>16. ASSUME NEW d, PrintPages(d) \/ ReplaceBoard(d)
       PROVE  UNCHANGED <<Pending, knownTodo, scanTodo>>
    BY <1>16 DEF PrintPages, ReplaceBoard, queueVars, taskVars, Pending
<1>17. CASE AgentStep
    BY <1>2, <1>3, <1>4, <1>5, <1>7, <1>8, <1>9, <1>10, <1>11, <1>12, <1>13, <1>14, <1>15,
       <1>16, <1>17 DEF AgentStep
<1>18. CASE IngestStep \/ UNCHANGED vars
    <2>1. UNCHANGED agentVars
        BY <1>18 DEF vars, IngestStep, HandlerStep, RequestArrives, RequestUnauthorized,
                     ExchangeLost, ResolveDevice, WriteDevice, openCounterResetAlert,
                     MapReading, SkipReading, InsertReadings, InsertFails, PublishJobs
    <2> QED BY <1>4, <2>1 DEF agentVars, queueVars, taskVars, Pending
<1> QED BY <1>17, <1>18 DEF Next

\* With every admitted capture counted, the queue stays within its limit, one
\* reading per known printer and the probes of one scan(), whatever printers
\* that scan repeats (isBackpressureActive, ScanService.scan).
THEOREM QueueStaysBounded == Spec => []QueueBounded
<1>1. Init => QueueInv
    <2> SUFFICES ASSUME Init PROVE QueueInv
        OBVIOUS
    <2>1. TypeInv
        BY TypeInit
    <2>2. Pending = {} /\ knownTodo = {} /\ scanTodo = NothingToProbe
        BY DEF Init, QueueInit, Pending
    <2>3. 0 <= BackpressureLimit + Cardinality(Devices) + ScanLimit /\ 0 <= ScanLimit
        BY <2>1, Sizes, QueueAssumption
    <2> QED BY <2>1, <2>2, <2>3, FS_EmptySet, NoProbes DEF QueueInv, QueueBounded, ScanIsLimited
<1>2. QueueInv /\ [Next]_vars => QueueInv'
    BY QueueInvStep, ScanLimitStep, TypeInvStep DEF QueueInv
<1> QED BY <1>1, <1>2, PTL DEF Spec, QueueInv
----------------------------------------------------------------------------
(* A drop of the counter is seen, by the handlers of the newest exchange:   *)
(* while a later reading is awaited, the total in a device's row is the one *)
(* of the last reading with counters they wrote, unless a handler that they *)
(* overtook wrote the row as well.                                          *)

\* Of one printer, a handler works on the readings in order, one at a time.
InLine(s) ==
    /\ \A e, f \in net[s].seen : origin[e.row] = origin[f.row] => e = f
    /\ \A q \in InProgress(s), r \in net[s].todo : origin[q] = origin[r] => q < r
    /\ \A q \in net[s].mapped, r \in net[s].todo \cup InProgress(s) :
          origin[q] = origin[r] => q < r
\* A batch is sent after everything older was acknowledged.
InTurn(s) == \A r \in net[s].batch, q \in Rows : q < r => q \in net[s].batch \cup Acknowledged
\* Nothing of a batch is forgotten, and what was answered was all done.
Whole(s) ==
    /\ net[s].batch \subseteq net[s].todo \cup InProgress(s) \cup net[s].mapped \cup skipped
    /\ net[s].phase \in {"stored", "ok"} => net[s].todo = {} /\ net[s].seen = {}
InOrder(s) == InLine(s) /\ InTurn(s) /\ Whole(s)

\* The batch of the newest exchange is not acknowledged, and what its handler
\* read of a device is what the row still says.
Unanswered(s) == net[s].batch \cap Acknowledged = {}
TotalIsCurrent(s) ==
    \A e \in net[s].seen :
        e.at = "read" /\ origin[e.row] \notin overtaken => e.total = deviceTotal[origin[e.row]]
NewestIsCurrent == \A s \in Slots : s = newest => Unanswered(s) /\ TotalIsCurrent(s)
WaitingIsNewest == newest \in Slots \cup {NoSlot} /\ waiting \in {newest, NoSlot}

AcknowledgedInOrder == \A r \in Acknowledged, q \in Rows : q < r => q \in Acknowledged
UnusedIsBlank == \A r \in Rows \ Captured : total[r] = 0

\* r is, or may become, the drop that follows q, and nothing has excused it.
ZerosBetween(q, r) ==
    \A m \in Rows : q < m /\ m < r => origin[m] # origin[q] \/ total[m] = 0
Falls(q, r) == origin[r] = origin[q] /\ total[r] # 0 /\ total[r] < total[q]
Awaited(q, r) ==
    /\ q < r /\ total[q] # 0 /\ q \notin skipped /\ r \notin skipped
    /\ origin[q] \notin counterReset /\ origin[q] \notin overtaken
    /\ r \notin AlertDue /\ r \notin lostAlerts
    /\ r \notin Captured \/ Falls(q, r)
    /\ ZerosBetween(q, r)
\* Readings of the handler in slot s whose device's row it wrote.
Past(s) == net[s].mapped \cup WrittenBy(s)
Dealt(q) == q \in Acknowledged \/ \E s \in Slots : s = newest /\ q \in Past(s)
NotPassed(q, r) ==
    /\ r \notin Stored /\ \A s \in Slots : r \notin Past(s)
    /\ Dealt(q) => deviceTotal[origin[q]] = total[q]
DropsAwaited == \A q, r \in Rows : Awaited(q, r) => NotPassed(q, r)
DropInv ==
    /\ OrderInv /\ WaitingIsNewest /\ AcknowledgedInOrder /\ UnusedIsBlank
    /\ NewestIsCurrent /\ DropsAwaited
    /\ \A s \in Slots : InOrder(s)

\* At first nothing is queued or in flight.
LEMMA DropInit == DropsInit => DropInv
<1> SUFFICES ASSUME DropsInit PROVE DropInv
    OBVIOUS
<1>0. Init /\ newest = NoSlot /\ NoSlot \notin Slots
    BY QueueAssumption DEF DropsInit
<1> USE DEF Init, QueueInit, IngestInit
<1>1. OrderInv
    BY <1>0, OrderInit
<1>2. AcknowledgedInOrder /\ UnusedIsBlank
    BY <1>0 DEF AcknowledgedInOrder, UnusedIsBlank, Acknowledged
<1>3. DropsAwaited
    BY <1>0 DEF DropsAwaited, Awaited
<1>4. \A s \in Slots : InOrder(s)
    BY <1>0 DEF InOrder, InLine, InTurn, Whole, InProgress, Free
<1>5. NewestIsCurrent /\ WaitingIsNewest
    BY <1>0 DEF NewestIsCurrent, WaitingIsNewest
<1> QED BY <1>1, <1>2, <1>3, <1>4, <1>5 DEF DropInv

----------------------------------------------------------------------------
(* What a step does to the histories *)

\* The exchange the agent waits on is the newest, and only a new one changes it.
LEMMA NewestStep ==
    ASSUME WaitingIsNewest, HistoryStep, waiting' \in {waiting, NoSlot}
    PROVE  newest' = newest /\ WaitingIsNewest'
BY DEF WaitingIsNewest, HistoryStep

\* A handler that writes a device's row after a newer exchange began overtakes it.
LEMMA OvertakenStep ==
    ASSUME HistoryStep, NEW s \in Slots, s # newest, NEW r, r \in WrittenBy(s)', r \notin WrittenBy(s)
    PROVE  origin[r] \in overtaken'
BY DEF HistoryStep

LEMMA HistoriesGrow ==
    ASSUME HistoryStep
    PROVE  /\ overtaken \subseteq overtaken' /\ lostAlerts \subseteq lostAlerts'
           /\ \A r \in AlertDue : r \in AlertDue' \/ r \in lostAlerts' \/ origin[r] \in counterReset'
BY DEF HistoryStep

\* An alert that is due is the one of a row in use.
LEMMA DueIsCaptured == TypeInv => AlertDue \subseteq Captured
BY DEF TypeInv, CarriesCaptured, InProgress, AlertDue, Handles

\* What a step that captures nothing leaves awaited was awaited before it.
LEMMA AwaitedBefore ==
    ASSUME DropInv, HistoryStep, UNCHANGED <<origin, total>>, UNCHANGED Captured,
           skipped \subseteq skipped', counterReset \subseteq counterReset',
           NEW q \in Rows, NEW r \in Rows, Awaited(q, r)'
    PROVE  Awaited(q, r)
<1>1. r \notin lostAlerts /\ origin[q] \notin overtaken /\ origin[q] \notin counterReset
    BY HistoriesGrow DEF Awaited
<1>2. r \notin AlertDue
    <2> SUFFICES ASSUME r \in AlertDue PROVE FALSE
        OBVIOUS
    <2>1. r \in Captured
        BY DueIsCaptured DEF DropInv, OrderInv, DeliveryInv
    <2>2. origin[r] = origin[q]
        BY <2>1 DEF Awaited, Falls
    <2> QED BY <2>2, HistoriesGrow DEF Awaited
<1>3. (r \notin Captured \/ Falls(q, r)) /\ ZerosBetween(q, r)
    BY DEF Awaited, Falls, ZerosBetween
<1> QED BY <1>1, <1>2, <1>3 DEF Awaited

\* A step that deals with nothing more keeps the drops awaited.
LEMMA SameAwaited ==
    ASSUME DropInv, HistoryStep, UNCHANGED <<origin, total, deviceTotal>>, UNCHANGED Captured,
           skipped \subseteq skipped', counterReset \subseteq counterReset',
           Stored' \subseteq Stored \cup UNION {Past(s) : s \in Slots},
           \A s \in Slots : Past(s)' \subseteq Past(s),
           \A q \in Rows \ skipped : Dealt(q)' => Dealt(q)
    PROVE  DropsAwaited'
<1> SUFFICES ASSUME NEW q \in Rows, NEW r \in Rows, Awaited(q, r)' PROVE NotPassed(q, r)'
    BY DEF DropsAwaited
<1>1. Awaited(q, r)
    BY AwaitedBefore
<1>2. NotPassed(q, r) /\ q \notin skipped
    BY <1>1 DEF DropInv, DropsAwaited, Awaited
<1>3. Dealt(q)' => deviceTotal[origin[q]] = total[q]
    BY <1>2 DEF NotPassed
<1>4. r \notin Stored' /\ \A s \in Slots : r \notin Past(s)'
    BY <1>2 DEF NotPassed
<1> QED BY <1>3, <1>4 DEF NotPassed

----------------------------------------------------------------------------
(* The kinds of step *)

\* What becomes of an exchange nobody advances: it stays, is answered, ends or
\* begins again.
Stays(s) ==
    \/ net'[s] \in {Free, Request(net[s].batch)}
    \/ /\ SameBatch(s) /\ net'[s].todo = net[s].todo /\ net'[s].seen = net[s].seen
       /\ net'[s].mapped = net[s].mapped
       /\ net'[s].phase \in {"stored", "ok"} =>
             net[s].phase \in {"stored", "ok"} \/ AllProcessed(s)
\* The answer, the INSERT, the end or the repetition of an exchange.
Stands ==
    /\ UNCHANGED <<row, origin, total, deviceTotal, counterReset, skipped, newest>>
    /\ Stored' \subseteq Stored \cup UNION {net[s].mapped : s \in Slots}
    /\ \A s \in Slots : Stays(s)
Enqueues(d, pages) == enqueueReading(d, pages) /\ UNCHANGED <<net, cloudVars, newest>>
OnlySlot(s) == \A t \in Slots \ {s} : net'[t] = net[t]
Posts(s) ==
    /\ row' = purgeOld /\ UNCHANGED <<origin, total, cloudVars>>
    /\ OnlySlot(s)
    /\ \/ net'[s] = net[s] /\ newest' = newest
       \/ net'[s] = Request(getPendingReadings) /\ newest' = s
Acknowledges(s) ==
    /\ s = newest /\ net[s].phase = "ok" /\ net'[s] = Free /\ OnlySlot(s)
    /\ row' = markSynced(net[s].batch) /\ UNCHANGED <<origin, total, cloudVars, newest>>

\* A step of the agent is one of four kinds.
LEMMA AgentKinds ==
    ASSUME TypeInv, WaitingIsNewest, HistoryStep, AgentStep, UNCHANGED cloudVars
    PROVE  /\ WaitingIsNewest'
           /\ \/ Stands \/ \E s \in Slots : Posts(s) \/ Acknowledges(s)
              \/ \E d \in Devices : \E pages : Enqueues(d, pages)
<1> USE DEF TypeInv, TypeOK
<1> DEFINE Kind == /\ WaitingIsNewest'
                   /\ \/ Stands \/ \E s \in Slots : Posts(s) \/ Acknowledges(s)
                      \/ \E d \in Devices : \E pages : Enqueues(d, pages)
<1>0. ASSUME UNCHANGED <<row, origin, total>>, waiting' \in {waiting, NoSlot},
             \A s \in Slots : net'[s] \in {net[s], Free, Request(net[s].batch)}
      PROVE  Kind
    <2>1. newest' = newest /\ WaitingIsNewest'
        BY <1>0, NewestStep
    <2>2. \A s \in Slots : Stays(s)
        BY <1>0 DEF Stays, SameBatch
    <2>3. UNCHANGED <<deviceTotal, counterReset, skipped>> /\ Stored' = Stored
        BY DEF cloudVars, Stored
    <2> QED BY <1>0, <2>1, <2>2, <2>3 DEF Stands
<1>1. ASSUME NEW d \in Devices, NEW pages, enqueueReading(d, pages), UNCHANGED <<net, waiting>>
      PROVE  Kind
    <2>1. newest' = newest /\ WaitingIsNewest'
        BY <1>1, NewestStep
    <2> QED BY <1>1, <2>1 DEF Enqueues
<1>2. ASSUME NEW d \in Devices, CaptureScanned(d) PROVE Kind
    BY <1>1, <1>2 DEF CaptureScanned, syncVars
<1>3. ASSUME NEW d \in Devices, NEW w \in BOOLEAN, CaptureKnown(d, w) PROVE Kind
    <2>1. CASE enqueueReading(d, pagesRead(d))
        BY <1>1, <1>3, <2>1 DEF CaptureKnown, syncVars
    <2>2. CASE UNCHANGED queueVars
        BY <1>0, <1>3, <2>2 DEF CaptureKnown, queueVars, syncVars
    <2> QED BY <1>3, <2>1, <2>2 DEF CaptureKnown
<1>4. ASSUME NEW s \in Slots, SyncPost(s) PROVE Kind
    <2>1. row' = purgeOld /\ UNCHANGED <<origin, total>> /\ s # NoSlot
        BY <1>4, QueueAssumption DEF SyncPost
    <2>2. CASE UNCHANGED <<waiting, net>>
        <3>1. newest' = newest /\ WaitingIsNewest'
            BY <2>2, NewestStep
        <3> QED BY <2>1, <2>2, <3>1 DEF Posts, OnlySlot
    <2>3. CASE waiting' = s /\ net' = [net EXCEPT ![s] = Request(getPendingReadings)]
        <3>1. newest' = s /\ WaitingIsNewest'
            BY <2>1, <2>3 DEF HistoryStep, WaitingIsNewest
        <3>2. OnlySlot(s) /\ net'[s] = Request(getPendingReadings)
            BY <2>3 DEF OnlySlot
        <3>3. Posts(s)
            BY ONLY <2>1, <3>1, <3>2, UNCHANGED cloudVars DEF Posts
        <3> QED BY <3>1, <3>3
    <2> QED BY <1>4, <2>2, <2>3 DEF SyncPost
<1>5. ASSUME SyncSucceeds PROVE Kind
    <2>1. waiting = newest /\ waiting \in Slots /\ waiting' = NoSlot
        BY <1>5 DEF SyncEnds, SyncSucceeds, WaitingIsNewest
    <2>2. newest' = newest /\ WaitingIsNewest'
        BY <2>1, NewestStep
    <2>3. OnlySlot(waiting) /\ net'[waiting] = Free
        BY <1>5, <2>1 DEF SyncSucceeds, OnlySlot
    <2>4. /\ row' = markSynced(net[waiting].batch) /\ UNCHANGED <<origin, total>>
          /\ net[waiting].phase = "ok"
        BY <1>5 DEF SyncSucceeds
    <2>5. Acknowledges(waiting)
        BY ONLY <2>1, <2>2, <2>3, <2>4, UNCHANGED cloudVars DEF Acknowledges
    <2> QED BY <2>1, <2>2, <2>5
<1>6. ASSUME SyncRefused \/ SyncRepost \/ SyncAborts PROVE Kind
    <2>1. waiting \in Slots /\ waiting' \in {waiting, NoSlot} /\ UNCHANGED <<row, origin, total>>
        BY <1>6 DEF SyncEnds, SyncRefused, SyncRepost, SyncAborts, queueVars
    <2>2. net'[waiting] \in {net[waiting], Free, Request(net[waiting].batch)}
        BY <1>6, <2>1 DEF SyncRefused, SyncRepost, SyncAborts, Abandon
    <2>3. \A s \in Slots \ {waiting} : net'[s] = net[s]
        BY <1>6, <2>1 DEF SyncRefused, SyncRepost, SyncAborts
    <2> QED BY <1>0, <2>1, <2>2, <2>3
<1>7. ASSUME AgentRestart PROVE Kind
    <2>1. UNCHANGED <<row, origin, total>> /\ waiting' = NoSlot
        BY <1>7 DEF SyncEnds, AgentRestart, queueVars
    <2>2. \A s \in Slots : net'[s] \in {net[s], Free}
        BY <1>7 DEF AgentRestart, Abandon
    <2> QED BY <1>0, <2>1, <2>2
<1>8. ASSUME NEW d \in Devices, PrintPages(d) \/ ReplaceBoard(d) \/ CaptureNothing(d) PROVE Kind
    BY <1>0, <1>8 DEF PrintPages, ReplaceBoard, CaptureNothing, queueVars, syncVars
<1>9. ASSUME NEW scopes, StartKnownDevicesTask(scopes) PROVE Kind
    BY <1>0, <1>9 DEF StartKnownDevicesTask, queueVars, syncVars
<1>10. ASSUME NEW by, NEW probes, StartScanChunk(by, probes) PROVE Kind
    BY <1>0, <1>10 DEF StartScanChunk, queueVars, syncVars
<1> HIDE DEF Kind
<1>11. Kind
    BY <1>2, <1>3, <1>4, <1>5, <1>6, <1>7, <1>8, <1>9, <1>10 DEF AgentStep
<1> QED BY <1>11 DEF Kind

\* A step of the cloud stands, or works on one reading.
LEMMA CloudKinds ==
    ASSUME TypeInv, WaitingIsNewest, HistoryStep, NEW s \in Slots,
           \/ HandlerStep(s) \/ RequestUnauthorized(s) \/ ExchangeLost(s)
           \/ InsertFails(s) \/ PublishJobs(s, "error")
    PROVE  /\ newest' = newest /\ WaitingIsNewest'
           /\ \/ Stands
              \/ \E r \in Rows : ResolveDevice(s, r)
              \/ \E e \in net[s].seen :
                    \/ WriteDevice(s, e) \/ openCounterResetAlert(s, e)
                    \/ MapReading(s, e) \/ SkipReading(s, e)
<1> USE DEF TypeInv, TypeOK, agentVars, queueVars, cloudVars
<1>0. newest' = newest /\ WaitingIsNewest'
    <2>1. waiting' = waiting
        BY DEF HandlerStep, RequestArrives, RequestUnauthorized, ExchangeLost, ResolveDevice,
               WriteDevice, openCounterResetAlert, MapReading, SkipReading, InsertReadings,
               InsertFails, PublishJobs, syncVars
    <2> QED BY <2>1, NewestStep
<1>1. ASSUME UNCHANGED <<row, origin, total, deviceTotal, counterReset, skipped>>,
             Stored' \subseteq Stored \cup net[s].mapped, Stays(s), OthersSame(s)
      PROVE  Stands
    <2>1. \A t \in Slots \ {s} : Stays(t)
        BY <1>1 DEF OthersSame, Stays, SameBatch
    <2> QED BY <1>0, <1>1, <2>1 DEF Stands
<1>2. CASE RequestArrives(s)
    <2>1. UNCHANGED <<agentVars, cloudVars>>
        BY <1>2 DEF RequestArrives
    <2>2. Stays(s) /\ OthersSame(s)
        BY <1>2, ArrivesSlot DEF Stays
    <2> QED BY <1>0, <1>1, <2>1, <2>2 DEF Stored
<1>3. ASSUME NEW phase \in {"lost", "error", "unauthorized"}, Answer(s, phase),
             UNCHANGED <<row, origin, total, deviceTotal, counterReset, skipped, stored>>
      PROVE  Stands
    <2>1. Stays(s) /\ OthersSame(s)
        BY <1>3, AnswerSlot DEF Stays, Phases
    <2> QED BY <1>1, <1>3, <2>1 DEF Stored
<1>4. ASSUME NEW a \in {"ok", "error"}, PublishJobs(s, a) PROVE Stands
    <2>1. UNCHANGED <<row, origin, total, deviceTotal, counterReset, skipped, stored>>
        BY <1>4 DEF PublishJobs
    <2>2. Answer(s, a) /\ net[s].phase = "stored"
        BY <1>4 DEF PublishJobs
    <2>3. Stays(s) /\ OthersSame(s)
        BY <2>2, AnswerSlot DEF Stays, Phases
    <2> QED BY <1>1, <2>1, <2>3 DEF Stored
<1>5. CASE InsertReadings(s)
    <2>1. /\ UNCHANGED <<row, origin, total, deviceTotal, counterReset, skipped>>
          /\ AllProcessed(s) /\ stored' = insertReadings(net[s].mapped)
        BY <1>5 DEF InsertReadings
    <2>2. Stored' \subseteq Stored \cup net[s].mapped
        BY <2>1 DEF insertReadings, Stored
    <2>3. Stays(s) /\ OthersSame(s)
        BY <1>5, <2>1, InsertSlot DEF Stays
    <2> QED BY <1>0, <1>1, <2>1, <2>2, <2>3
<1> QED
    BY <1>0, <1>2, <1>3, <1>4, <1>5
       DEF HandlerStep, RequestUnauthorized, ExchangeLost, InsertFails

----------------------------------------------------------------------------
(* The order of the readings is kept *)

\* A new exchange, or none, is in order.
LEMMA NothingDone ==
    ASSUME NEW s \in Slots, NEW b, net'[s] \in {Free, Request(b)},
           net'[s] = Request(b) => InTurn(s)'
    PROVE  InOrder(s)' /\ TotalIsCurrent(s)' /\ Past(s)' = {}
<1>1. /\ net'[s].seen = {} /\ net'[s].mapped = {} /\ net'[s].todo = net'[s].batch
      /\ net'[s].phase \notin {"stored", "ok"}
    <2>1. CASE net'[s] = Free
        BY <2>1 DEF Free
    <2>2. CASE net'[s] = Request(b)
        BY <2>2, RequestFields
    <2> QED BY <2>1, <2>2
<1>2. InTurn(s)'
    BY DEF InTurn, Free
<1>3. InLine(s)' /\ Whole(s)' /\ TotalIsCurrent(s)'
    BY <1>1 DEF InLine, Whole, TotalIsCurrent, InProgress
<1>4. Past(s)' = {}
    BY <1>1 DEF Past, WrittenBy
<1> QED BY <1>2, <1>3, <1>4 DEF InOrder

\* An exchange that stays keeps its order while the rows in use keep their printers.
LEMMA StaysInOrder ==
    ASSUME DropInv, NEW s \in Slots, Stays(s),
           \A r \in Captured : origin'[r] = origin[r],
           skipped \subseteq skipped', Acknowledged \subseteq Acknowledged'
    PROVE  InOrder(s)' /\ Past(s)' \subseteq Past(s)
<1>1. InOrder(s) /\ CarriesCaptured(s) /\ OfBatch(s)
    BY DEF DropInv, OrderInv, DeliveryInv, TypeInv
<1>2. CASE net'[s] \in {Free, Request(net[s].batch)}
    <2>1. net'[s] = Request(net[s].batch) => net'[s].batch = net[s].batch
        BY RequestFields
    <2>2. net'[s] = Request(net[s].batch) => InTurn(s)'
        BY <1>1, <2>1 DEF InOrder, InTurn
    <2> QED BY <1>2, <2>2, NothingDone
<1>3. CASE /\ SameBatch(s) /\ net'[s].todo = net[s].todo /\ net'[s].seen = net[s].seen
           /\ net'[s].mapped = net[s].mapped
           /\ net'[s].phase \in {"stored", "ok"} =>
                 net[s].phase \in {"stored", "ok"} \/ AllProcessed(s)
    <2>1. InProgress(s)' = InProgress(s) /\ Past(s)' = Past(s)
        BY <1>3 DEF InProgress, Past, WrittenBy
    <2>2. \A q \in net[s].todo \cup InProgress(s) \cup net[s].mapped : origin'[q] = origin[q]
        BY <1>1 DEF CarriesCaptured, OfBatch
    <2>3. \A e \in net[s].seen : origin'[e.row] = origin[e.row]
        BY <2>2 DEF InProgress
    <2>4. InLine(s)'
        BY <1>1, <1>3, <2>1, <2>2, <2>3 DEF InOrder, InLine
    <2>5. InTurn(s)'
        BY <1>1, <1>3 DEF InOrder, InTurn, SameBatch
    <2>6. Whole(s)'
        BY <1>1, <1>3, <2>1 DEF InOrder, Whole, SameBatch, AllProcessed
    <2> QED BY <2>1, <2>4, <2>5, <2>6 DEF InOrder
<1> QED BY <1>2, <1>3 DEF Stays

\* So it stays current while the devices' rows do.
LEMMA StaysCurrent ==
    ASSUME DropInv, HistoryStep, NEW s \in Slots, Stays(s), TotalIsCurrent(s),
           \A r \in Captured : origin'[r] = origin[r],
           \A d \in Devices : deviceTotal'[d] = deviceTotal[d] \/ d \in overtaken'
    PROVE  TotalIsCurrent(s)'
<1>1. CASE net'[s] \in {Free, Request(net[s].batch)}
    <2>1. net'[s].seen = {}
        BY <1>1, RequestFields DEF Free
    <2> QED BY <2>1 DEF TotalIsCurrent
<1>2. CASE net'[s].seen = net[s].seen
    <2>1. \A e \in net[s].seen : origin'[e.row] = origin[e.row] /\ origin[e.row] \in Devices
        BY DEF DropInv, OrderInv, DeliveryInv, TypeInv, CarriesCaptured, InProgress, OriginKnown
    <2>2. overtaken \subseteq overtaken'
        BY HistoriesGrow
    <2> QED BY <1>2, <2>1, <2>2 DEF TotalIsCurrent
<1> QED BY <1>1, <1>2 DEF Stays

\* Nobody touches an exchange that is left alone.
LEMMA AloneStays == \A s \in Slots : net'[s] = net[s] => Stays(s)
BY DEF Stays, SameBatch

\* A step that works on the exchange in slot s keeps the invariant when that exchange
\* stays in order, and current if it is the newest.
LEMMA WorkOnOne ==
    ASSUME DropInv, HistoryStep, NEW s \in Slots, OnlySlot(s), SameBatch(s), InOrder(s)',
           newest' = newest, s = newest /\ TotalIsCurrent(s) => TotalIsCurrent(s)',
           UNCHANGED <<row, origin, total>>, skipped \subseteq skipped',
           \A d \in Devices : deviceTotal'[d] = deviceTotal[d] \/ d \in overtaken' \/ s = newest
    PROVE  /\ AcknowledgedInOrder' /\ UnusedIsBlank' /\ NewestIsCurrent'
           /\ \A t \in Slots : InOrder(t)'
<1>1. UNCHANGED Acknowledged /\ UNCHANGED Captured
    BY DEF Acknowledged, Captured
<1>2. AcknowledgedInOrder' /\ UnusedIsBlank'
    BY <1>1 DEF DropInv, AcknowledgedInOrder, UnusedIsBlank
<1>3. \A t \in Slots \ {s} : Stays(t)
    BY AloneStays DEF OnlySlot
<1>4. \A t \in Slots : InOrder(t)'
    BY <1>1, <1>3, StaysInOrder
<1>5. NewestIsCurrent'
    <2> SUFFICES ASSUME NEW t \in Slots, t = newest PROVE Unanswered(t)' /\ TotalIsCurrent(t)'
        BY DEF NewestIsCurrent
    <2>1. Unanswered(t) /\ TotalIsCurrent(t)
        BY DEF DropInv, NewestIsCurrent
    <2>2. net'[t].batch = net[t].batch
        BY DEF OnlySlot, SameBatch
    <2>3. Unanswered(t)'
        BY <1>1, <2>1, <2>2 DEF Unanswered
    <2>4. CASE t = s
        BY <2>1, <2>3, <2>4
    <2>5. CASE t # s
        BY <1>3, <2>1, <2>3, <2>5, StaysCurrent
    <2> QED BY <2>4, <2>5
<1> QED BY <1>2, <1>4, <1>5

----------------------------------------------------------------------------
(* The steps that work on one reading *)

\* A reading that is taken up is the oldest left of its printer.
LEMMA Resolving ==
    ASSUME DropInv, HistoryStep, NEW s \in Slots, NEW r \in Rows, ResolveDevice(s, r),
           newest' = newest
    PROVE  /\ AcknowledgedInOrder' /\ UnusedIsBlank' /\ NewestIsCurrent' /\ DropsAwaited'
           /\ \A t \in Slots : InOrder(t)'
<1> USE DEF DropInv, OrderInv, DeliveryInv, TypeInv, TypeOK
<1>1. /\ net[s].phase = "processing" /\ r \in net[s].todo
      /\ UNCHANGED <<row, origin, total, deviceTotal, counterReset, stored, skipped>>
      /\ \A q \in net[s].todo \cup InProgress(s) : origin[q] = origin[r] => q >= r
    BY DEF ResolveDevice, nextOfItsDevice, agentVars, queueVars, cloudVars
<1>2. deviceTotal[origin[r]] \in Counters \cup {Absent}
    BY <1>1 DEF CarriesCaptured, OriginKnown
<1>3. PICK x : x = [row |-> r, total |-> deviceTotal[origin[r]], at |-> "read"]
    OBVIOUS
<1>4. x.row = r /\ x.total = deviceTotal[origin[r]] /\ x.at = "read"
    BY <1>3
<1>5. /\ OnlySlot(s) /\ SameBatch(s) /\ net'[s].phase = net[s].phase
      /\ net'[s].todo = net[s].todo \ {r} /\ net'[s].seen = net[s].seen \cup {x}
      /\ net'[s].mapped = net[s].mapped
    BY <1>2, <1>3, ResolveSlot DEF OnlySlot, OthersSame
<1>6. InProgress(s)' = InProgress(s) \cup {r}
    BY <1>4, <1>5 DEF InProgress
<1>7. net[s].todo \cup InProgress(s) \subseteq Nat
    BY QueueAssumption DEF Exchange, InProgress, Rows
<1>8. \A q \in InProgress(s) : origin[q] # origin[r]
    BY <1>1, <1>7 DEF InOrder, InLine
<1>9. InLine(s)'
    <2>1. \A e, f \in net'[s].seen : origin[e.row] = origin[f.row] => e = f
        BY <1>4, <1>5, <1>8 DEF InOrder, InLine, InProgress
    <2>2. \A q \in net[s].todo \ {r} : origin[r] = origin[q] => r < q
        BY <1>1, <1>7
    <2>3. \A q \in InProgress(s)', y \in net'[s].todo : origin[q] = origin[y] => q < y
        BY <1>5, <1>6, <2>2 DEF InOrder, InLine
    <2>4. \A q \in net'[s].mapped, y \in net'[s].todo \cup InProgress(s)' :
              origin[q] = origin[y] => q < y
        BY <1>1, <1>5, <1>6 DEF InOrder, InLine
    <2> QED BY <1>1, <2>1, <2>3, <2>4 DEF InLine
<1>10. InTurn(s)'
    BY <1>1, <1>5 DEF InOrder, InTurn, Acknowledged, SameBatch
<1>11. Whole(s)'
    BY <1>1, <1>5, <1>6 DEF InOrder, Whole, SameBatch
<1>12. InOrder(s)'
    BY <1>9, <1>10, <1>11 DEF InOrder
<1>13. TotalIsCurrent(s) => TotalIsCurrent(s)'
    <2>1. overtaken \subseteq overtaken'
        BY HistoriesGrow
    <2> QED BY <1>1, <1>4, <1>5, <2>1 DEF TotalIsCurrent
<1>14. Past(s)' = Past(s)
    BY <1>4, <1>5 DEF Past, WrittenBy
<1>15. UNCHANGED Acknowledged /\ UNCHANGED Captured /\ Stored' = Stored
    BY <1>1 DEF Acknowledged, Captured, Stored
<1>16. \A t \in Slots : Past(t)' = Past(t)
    BY <1>5, <1>14 DEF OnlySlot, Past, WrittenBy
<1>17. \A q \in Rows : Dealt(q)' => Dealt(q)
    BY <1>15, <1>16 DEF Dealt
<1>18. DropsAwaited'
    BY <1>1, <1>15, <1>16, <1>17, SameAwaited
<1> QED BY <1>1, <1>5, <1>12, <1>13, <1>18, WorkOnOne

\* One that is done leaves those in progress, mapped or skipped.
LEMMA Finishing ==
    ASSUME DropInv, HistoryStep, NEW s \in Slots, NEW e \in net[s].seen,
           \/ MapReading(s, e) \/ SkipReading(s, e),
           newest' = newest
    PROVE  /\ AcknowledgedInOrder' /\ UnusedIsBlank' /\ NewestIsCurrent' /\ DropsAwaited'
           /\ \A t \in Slots : InOrder(t)'
<1> USE DEF DropInv, OrderInv, DeliveryInv, TypeInv, TypeOK
<1>1. /\ net[s].phase = "processing"
      /\ UNCHANGED <<row, origin, total, deviceTotal, counterReset, stored>>
      /\ \/ e.at = "done" /\ skipped' = skipped
         \/ skipped' = skipped \cup {e.row}
    BY DEF MapReading, SkipReading, Handles, agentVars, queueVars, cloudVars
<1>2. /\ OnlySlot(s) /\ SameBatch(s) /\ net'[s].phase = net[s].phase
      /\ net'[s].todo = net[s].todo /\ net'[s].seen = net[s].seen \ {e}
      /\ \/ net'[s].mapped = net[s].mapped /\ skipped' = skipped \cup {e.row}
         \/ net'[s].mapped = net[s].mapped \cup {e.row} /\ e.at = "done"
    BY MapSlot, SkipSlot DEF OnlySlot, OthersSame, MapReading, SkipReading, Handles
<1>3. /\ InProgress(s)' \subseteq InProgress(s) /\ e.row \in InProgress(s)
      /\ InProgress(s) \subseteq InProgress(s)' \cup {e.row}
    BY <1>2 DEF InProgress
<1>4. \A f \in net'[s].seen : origin[f.row] # origin[e.row]
    BY <1>2 DEF InOrder, InLine
<1>5. \A q \in InProgress(s)' : origin[q] # origin[e.row]
    BY <1>4 DEF InProgress
<1>6. InLine(s)'
    <2>1. \A f, g \in net'[s].seen : origin[f.row] = origin[g.row] => f = g
        BY <1>2 DEF InOrder, InLine
    <2>2. \A q \in InProgress(s)', y \in net'[s].todo : origin[q] = origin[y] => q < y
        BY <1>2, <1>3 DEF InOrder, InLine
    <2>3. \A q \in net'[s].mapped, y \in net'[s].todo \cup InProgress(s)' :
              origin[q] = origin[y] => q < y
        BY <1>2, <1>3, <1>5 DEF InOrder, InLine
    <2> QED BY <1>1, <2>1, <2>2, <2>3 DEF InLine
<1>7. InTurn(s)'
    BY <1>1, <1>2 DEF InOrder, InTurn, Acknowledged, SameBatch
<1>8. Whole(s)'
    BY <1>1, <1>2, <1>3 DEF InOrder, Whole, SameBatch
<1>9. InOrder(s)'
    BY <1>6, <1>7, <1>8 DEF InOrder
<1>10. TotalIsCurrent(s) => TotalIsCurrent(s)'
    <2>1. overtaken \subseteq overtaken'
        BY HistoriesGrow
    <2> QED BY <1>1, <1>2, <2>1 DEF TotalIsCurrent
<1>11. Past(s)' \subseteq Past(s)
    BY <1>2 DEF Past, WrittenBy
<1>12. UNCHANGED Acknowledged /\ UNCHANGED Captured /\ Stored' = Stored
    BY <1>1 DEF Acknowledged, Captured, Stored
<1>13. \A t \in Slots : Past(t)' \subseteq Past(t)
    BY <1>2, <1>11 DEF OnlySlot, Past, WrittenBy
<1>14. \A q \in Rows : Dealt(q)' => Dealt(q)
    BY <1>12, <1>13 DEF Dealt
<1>15. skipped \subseteq skipped'
    BY <1>1
<1>16. DropsAwaited'
    BY <1>1, <1>12, <1>13, <1>14, <1>15, SameAwaited
<1> QED BY <1>1, <1>2, <1>9, <1>10, <1>15, <1>16, WorkOnOne

----------------------------------------------------------------------------
(* The steps that write: a reading moves on without leaving its place *)

\* What the UPDATE and the opening of the alert have in common.
LEMMA Advancing ==
    ASSUME DropInv, HistoryStep, NEW s \in Slots, NEW e,
           WriteDevice(s, e) \/ openCounterResetAlert(s, e), newest' = newest
    PROVE  /\ e \in net[s].seen /\ OnlySlot(s) /\ SameBatch(s) /\ InOrder(s)'
           /\ UNCHANGED <<row, origin, total, skipped>> /\ Stored' = Stored
           /\ UNCHANGED Acknowledged /\ UNCHANGED Captured
           /\ counterReset \subseteq counterReset'
           /\ Past(s)' = Past(s) \cup {e.row}
           /\ \A t \in Slots \ {s} : Past(t)' = Past(t)
           /\ \A d \in Devices : d # origin[e.row] => deviceTotal'[d] = deviceTotal[d]
           /\ TotalIsCurrent(s) => TotalIsCurrent(s)'
<1> USE DEF DropInv, OrderInv, DeliveryInv, TypeInv, TypeOK
<1>0. \A d \in Devices : d # origin[e.row] => deviceTotal'[d] = deviceTotal[d]
    <2>1. CASE UNCHANGED deviceTotal
        BY <2>1
    <2>2. CASE deviceTotal' = [deviceTotal EXCEPT ![origin[e.row]] = nextTotal(e)]
        BY <2>2
    <2> QED BY <2>1, <2>2 DEF WriteDevice, openCounterResetAlert
<1>1. /\ UNCHANGED <<row, origin, total, stored, skipped>>
      /\ counterReset \subseteq counterReset'
      /\ \A d \in Devices : d # origin[e.row] => deviceTotal'[d] = deviceTotal[d]
    BY <1>0 DEF WriteDevice, openCounterResetAlert, agentVars, queueVars
<1>2. /\ e \in net[s].seen /\ OnlySlot(s) /\ SameBatch(s)
      /\ net'[s].phase = net[s].phase /\ net[s].phase = "processing"
      /\ net'[s].todo = net[s].todo /\ net'[s].mapped = net[s].mapped
      /\ InProgress(s)' = InProgress(s)
    BY WriteSlot DEF OnlySlot, OthersSame
<1>3. PICK f : /\ f.row = e.row /\ f.at \in {"written", "done"}
               /\ net'[s].seen = (net[s].seen \ {e}) \cup {f}
    BY WriteSlot
<1>4. \A g \in net[s].seen \ {e} : origin[g.row] # origin[e.row] /\ origin[g.row] \in Devices
    BY <1>2 DEF InOrder, InLine, CarriesCaptured, InProgress, OriginKnown
<1>5. InLine(s)'
    <2>1. \A g, h \in net'[s].seen : origin[g.row] = origin[h.row] => g = h
        BY <1>2, <1>3, <1>4 DEF InOrder, InLine
    <2> QED BY <1>1, <1>2, <2>1 DEF InOrder, InLine
<1>6. UNCHANGED Acknowledged /\ UNCHANGED Captured /\ Stored' = Stored
    BY <1>1 DEF Acknowledged, Captured, Stored
<1>7. InTurn(s)' /\ Whole(s)'
    BY <1>1, <1>2, <1>6 DEF InOrder, InTurn, Whole, SameBatch
<1>8. Past(s)' = Past(s) \cup {e.row}
    <2>1. WrittenBy(s)' = WrittenBy(s) \cup {e.row}
        BY <1>2, <1>3 DEF WrittenBy
    <2> QED BY <1>2, <2>1 DEF Past
<1>9. \A t \in Slots \ {s} : Past(t)' = Past(t)
    BY <1>2 DEF OnlySlot, Past, WrittenBy
<1>10. TotalIsCurrent(s) => TotalIsCurrent(s)'
    <2>1. overtaken \subseteq overtaken'
        BY HistoriesGrow
    <2> QED BY <1>1, <1>3, <1>4, <2>1 DEF TotalIsCurrent
<1>11. InOrder(s)'
    BY <1>5, <1>7 DEF InOrder
<1> QED BY <1>1, <1>2, <1>6, <1>8, <1>9, <1>10, <1>11

\* The alert is opened for a device whose row was written before.
LEMMA Opening ==
    ASSUME DropInv, HistoryStep, NEW s \in Slots, NEW e \in net[s].seen,
           openCounterResetAlert(s, e), newest' = newest
    PROVE  /\ AcknowledgedInOrder' /\ UnusedIsBlank' /\ NewestIsCurrent' /\ DropsAwaited'
           /\ \A t \in Slots : InOrder(t)'
<1>1. UNCHANGED deviceTotal /\ e.at = "written"
    BY DEF openCounterResetAlert, Handles
<1>2. /\ OnlySlot(s) /\ SameBatch(s) /\ InOrder(s)'
      /\ UNCHANGED <<row, origin, total, skipped>> /\ Stored' = Stored
      /\ UNCHANGED Acknowledged /\ UNCHANGED Captured
      /\ counterReset \subseteq counterReset'
      /\ Past(s)' = Past(s) \cup {e.row}
      /\ \A t \in Slots \ {s} : Past(t)' = Past(t)
      /\ TotalIsCurrent(s) => TotalIsCurrent(s)'
    BY Advancing
<1>3. e.row \in Past(s)
    BY <1>1 DEF Past, WrittenBy
<1>4. \A t \in Slots : Past(t)' = Past(t)
    BY <1>2, <1>3
<1>5. \A q \in Rows : Dealt(q)' => Dealt(q)
    BY <1>2, <1>4 DEF Dealt
<1>6. DropsAwaited'
    BY <1>1, <1>2, <1>4, <1>5, SameAwaited
<1> QED BY <1>1, <1>2, <1>6, WorkOnOne

\* While r is awaited and q is dealt with, the newest handler, about to write the row of
\* their printer, is between the two.
LEMMA BetweenTheTwo ==
    ASSUME DropInv, NEW s \in Slots, s = newest, NEW e \in net[s].seen, e.at = "read",
           NEW q \in Rows, NEW r \in Rows, Awaited(q, r), origin[e.row] = origin[q], Dealt(q)
    PROVE  q < e.row /\ ~(r < e.row)
<1> USE DEF DropInv, OrderInv, DeliveryInv, TypeInv, TypeOK, InOrder
<1>1. /\ e.row \in InProgress(s) /\ e.row \in net[s].batch /\ e.row \in Rows
      /\ Rows \subseteq Nat
    BY QueueAssumption DEF InProgress, OfBatch, Exchange, Rows
<1>2. q < e.row
    <2>1. CASE q \in net[s].mapped
        BY <1>1, <2>1 DEF InLine
    <2>2. CASE q \in Acknowledged
        <3>1. e.row \notin Acknowledged
            BY <1>1 DEF NewestIsCurrent, Unanswered
        <3>2. ~(e.row < q) /\ e.row # q
            BY <1>1, <2>2, <3>1 DEF AcknowledgedInOrder
        <3> QED BY <1>1, <3>2
    <2>3. CASE q \in WrittenBy(s)
        <3>1. PICK f \in net[s].seen : f.at # "read" /\ f.row = q
            BY <2>3 DEF WrittenBy
        <3>2. f = e
            BY <3>1 DEF InLine
        <3> QED BY <3>1, <3>2
    <2> QED BY <2>1, <2>2, <2>3 DEF Dealt, Past
<1>3. ASSUME r < e.row PROVE FALSE
    <2>1. r \notin skipped /\ r \notin Stored /\ r \notin net[s].mapped
        BY DEF DropsAwaited, Awaited, NotPassed, Past
    <2>2. r \in net[s].batch
        <3>1. r \in net[s].batch \cup Acknowledged
            BY <1>1, <1>3 DEF InTurn
        <3> QED BY <2>1, <3>1 DEF AcknowledgedIsSettled, Settled, Handled
    <2>3. origin[r] = origin[e.row]
        BY <2>2 DEF Awaited, Falls, CarriesCaptured
    <2>4. r \in net[s].todo \cup InProgress(s)
        BY <2>1, <2>2 DEF Whole
    <2>5. r \notin net[s].todo
        <3> SUFFICES ASSUME r \in net[s].todo PROVE FALSE
            OBVIOUS
        <3>1. e.row < r
            BY <1>1, <2>3 DEF InLine
        <3>2. e.row \in Nat /\ r \in Nat
            BY <1>1
        <3> QED BY ONLY <1>3, <3>1, <3>2
    <2>6. PICK f \in net[s].seen : f.row = r
        BY <2>4, <2>5 DEF InProgress
    <2>7. r = e.row
        BY <2>3, <2>6 DEF InLine
    <2> QED BY <1>1, <1>3, <2>7
<1> QED BY <1>2, <1>3

\* When r itself is in progress there, q was dealt with.
LEMMA DealtBefore ==
    ASSUME DropInv, NEW s \in Slots, s = newest, NEW e \in net[s].seen, NEW q \in Rows,
           NEW r \in Rows, Awaited(q, r), e.row = r
    PROVE  Dealt(q) /\ Falls(q, r)
<1> USE DEF DropInv, OrderInv, DeliveryInv, TypeInv, TypeOK, InOrder
<1>1. /\ r \in InProgress(s) /\ r \in net[s].batch /\ Rows \subseteq Nat /\ q < r
    BY QueueAssumption DEF InProgress, OfBatch, Rows, Awaited
<1>2. Falls(q, r)
    BY <1>1 DEF Awaited, CarriesCaptured
<1>3. q \in net[s].batch \cup Acknowledged
    BY <1>1 DEF InTurn
<1>4. q \notin net[s].todo
    <2> SUFFICES ASSUME q \in net[s].todo PROVE FALSE
        OBVIOUS
    <2>1. r < q
        BY <1>1, <1>2 DEF InLine, Falls
    <2> QED BY <1>1, <2>1
<1>5. q \notin InProgress(s)
    <2> SUFFICES ASSUME NEW f \in net[s].seen, f.row = q PROVE FALSE
        BY DEF InProgress
    <2>1. q = r
        BY <1>2 DEF InLine, Falls
    <2> QED BY <1>1, <2>1
<1>6. q \notin skipped
    BY DEF Awaited
<1>7. q \in net[s].mapped \cup Acknowledged
    BY <1>3, <1>4, <1>5, <1>6 DEF Whole
<1> QED BY <1>2, <1>7 DEF Dealt, Past

\* A handler that is not the newest writes the row of a printer that is no longer awaited.
LEMMA WritingLate ==
    ASSUME DropInv, HistoryStep, NEW s \in Slots, s # newest, NEW e \in net[s].seen,
           WriteDevice(s, e), newest' = newest
    PROVE  origin[e.row] \in overtaken' /\ DropsAwaited'
<1> USE DEF DropInv, OrderInv, DeliveryInv, TypeInv, TypeOK
<1>1. e.at = "read" /\ UNCHANGED <<origin, total, skipped, counterReset>>
    BY DEF WriteDevice, Handles, agentVars, queueVars
<1>2. /\ Stored' = Stored /\ UNCHANGED Acknowledged /\ UNCHANGED Captured
      /\ Past(s)' = Past(s) \cup {e.row} /\ \A t \in Slots \ {s} : Past(t)' = Past(t)
      /\ \A d \in Devices : d # origin[e.row] => deviceTotal'[d] = deviceTotal[d]
    BY Advancing
<1>3. e.row \notin WrittenBy(s)
    BY <1>1 DEF WrittenBy, InOrder, InLine
<1>4. e.row \in WrittenBy(s)'
    <2>1. PICK f : /\ f.row = e.row /\ f.at \in {"written", "done"}
                   /\ net'[s].seen = (net[s].seen \ {e}) \cup {f}
        BY WriteSlot
    <2> QED BY <2>1 DEF WrittenBy
<1>5. origin[e.row] \in overtaken'
    BY <1>3, <1>4, OvertakenStep
<1> SUFFICES ASSUME NEW q \in Rows, NEW r \in Rows, Awaited(q, r)' PROVE NotPassed(q, r)'
    BY <1>5 DEF DropsAwaited
<1>6. Awaited(q, r)
    BY <1>1, <1>2, AwaitedBefore
<1>7. NotPassed(q, r)
    BY <1>6 DEF DropsAwaited
<1>8. origin[q] # origin[e.row] /\ e.row # r
    <2>1. origin[q] # origin[e.row]
        BY <1>1, <1>5 DEF Awaited
    <2>2. e.row \in Captured
        BY DEF CarriesCaptured, InProgress
    <2> QED BY <1>6, <2>1, <2>2 DEF Awaited, Falls
<1>9. r \notin Stored' /\ \A t \in Slots : r \notin Past(t)'
    BY <1>2, <1>7, <1>8 DEF NotPassed
<1>10. ASSUME Dealt(q)' PROVE deviceTotal'[origin[q]] = total[q]
    <2>1. Dealt(q)
        BY <1>2, <1>10 DEF Dealt
    <2>2. q \in Captured
        <3>1. Acknowledged \subseteq Captured
            BY DEF Acknowledged, Captured
        <3>2. \A t \in Slots : Past(t) \subseteq Captured
            BY DEF Past, WrittenBy, CarriesCaptured, OfBatch, InProgress
        <3> QED BY <2>1, <3>1, <3>2 DEF Dealt
    <2> QED BY <1>2, <1>7, <1>8, <2>1, <2>2 DEF NotPassed, OriginKnown
<1> QED BY <1>1, <1>9, <1>10 DEF NotPassed

\* The newest handler notices the drop when it writes the second of the two readings, and
\* otherwise keeps the total of the last one that was dealt with.
LEMMA WritingInTime ==
    ASSUME DropInv, HistoryStep, NEW s \in Slots, s = newest, NEW e \in net[s].seen,
           WriteDevice(s, e), newest' = newest
    PROVE  DropsAwaited'
<1> USE DEF DropInv, OrderInv, DeliveryInv, TypeInv, TypeOK
<1>1. /\ e.at = "read" /\ net[s].phase = "processing"
      /\ UNCHANGED <<origin, total, skipped, counterReset>>
      /\ deviceTotal' = [deviceTotal EXCEPT ![origin[e.row]] = nextTotal(e)]
    BY DEF WriteDevice, Handles, agentVars, queueVars
<1>2. /\ Stored' = Stored /\ UNCHANGED Acknowledged /\ UNCHANGED Captured
      /\ Past(s)' = Past(s) \cup {e.row} /\ \A t \in Slots \ {s} : Past(t)' = Past(t)
      /\ \A d \in Devices : d # origin[e.row] => deviceTotal'[d] = deviceTotal[d]
    BY Advancing
<1> SUFFICES ASSUME NEW q \in Rows, NEW r \in Rows, Awaited(q, r)' PROVE NotPassed(q, r)'
    BY DEF DropsAwaited
<1>3. Awaited(q, r) /\ NotPassed(q, r)
    <2>1. Awaited(q, r)
        BY <1>1, <1>2, AwaitedBefore
    <2> QED BY <2>1 DEF DropsAwaited
<1>4. /\ e.row \in Rows /\ origin[e.row] \in Devices /\ Rows \subseteq Nat
      /\ total[q] \in Counters /\ total[r] \in Counters /\ Absent \notin Counters
      /\ Counters \subseteq Nat /\ total[q] # 0
    <2>1. e.row \in Captured
        BY DEF CarriesCaptured, InProgress
    <2>2. e.row \in Rows /\ origin[e.row] \in Devices
        BY <2>1 DEF OriginKnown, Captured
    <2>3. Absent \notin Counters /\ Rows \subseteq Nat /\ Counters \subseteq Nat
        BY QueueAssumption DEF Counters, Rows
    <2> QED BY <1>3, <2>2, <2>3 DEF Awaited
<1>5. origin[e.row] = origin[q] => e.total = deviceTotal[origin[q]]
    <2>1. origin[q] \notin overtaken
        BY <1>3 DEF Awaited
    <2> QED BY <1>1, <2>1 DEF NewestIsCurrent, TotalIsCurrent
<1>6. e.row # r
    <2> SUFFICES ASSUME e.row = r PROVE FALSE
        OBVIOUS
    <2>1. Dealt(q) /\ Falls(q, r)
        BY <1>3, DealtBefore
    <2>2. e.total = total[q]
        BY <1>3, <1>5, <2>1 DEF NotPassed, Falls
    <2>3. detectCounterResets(e)
        BY <1>4, <2>1, <2>2 DEF Falls, detectCounterResets
    <2>4. MovesTo(s, e, "written") /\ net \in [Slots -> Exchange] /\ "written" \in Stages
        BY <2>3 DEF WriteDevice, Stages
    <2>5. net'[s].phase = "processing" /\ \E f \in net'[s].seen : f.row = r /\ f.at = "written"
        BY <1>1, <2>4, MoveSlot
    <2>6. r \in AlertDue'
        BY <2>5 DEF AlertDue, Handles
    <2> QED BY <2>6 DEF Awaited
<1>7. r \notin Stored' /\ \A t \in Slots : r \notin Past(t)'
    BY <1>2, <1>3, <1>6 DEF NotPassed
<1>8. ASSUME Dealt(q)' PROVE deviceTotal'[origin[q]] = total[q]
    <2>1. CASE e.row = q
        BY <1>1, <1>4, <2>1 DEF nextTotal
    <2>2. CASE e.row # q
        <3>1. Dealt(q)
            BY <1>2, <1>8, <2>2 DEF Dealt
        <3>2. q \in Captured
            <4>1. Acknowledged \subseteq Captured
                BY DEF Acknowledged, Captured
            <4>2. \A t \in Slots : Past(t) \subseteq Captured
                BY DEF Past, WrittenBy, CarriesCaptured, OfBatch, InProgress
            <4> QED BY <3>1, <4>1, <4>2 DEF Dealt
        <3>3. deviceTotal[origin[q]] = total[q] /\ origin[q] \in Devices
            BY <1>3, <3>1, <3>2 DEF NotPassed, OriginKnown
        <3>4. CASE origin[e.row] # origin[q]
            BY <1>2, <3>3, <3>4
        <3>5. CASE origin[e.row] = origin[q]
            <4>1. q < e.row /\ ~(r < e.row)
                BY <1>1, <1>3, <3>1, <3>5, BetweenTheTwo
            <4>2. e.row < r
                <5>1. e.row \in Nat /\ r \in Nat /\ e.row # r
                    BY <1>4, <1>6
                <5> QED BY ONLY <4>1, <5>1
            <4>3. total[e.row] = 0
                BY <1>3, <1>4, <3>5, <4>1, <4>2 DEF Awaited, ZerosBetween
            <4>4. nextTotal(e) = total[q]
                BY <1>4, <1>5, <3>3, <3>5, <4>3 DEF nextTotal
            <4> QED BY <1>1, <1>4, <3>5, <4>4
        <3> QED BY <3>4, <3>5
    <2> QED BY <2>1, <2>2
<1> QED BY <1>1, <1>7, <1>8 DEF NotPassed

LEMMA Writing ==
    ASSUME DropInv, HistoryStep, NEW s \in Slots, NEW e \in net[s].seen, WriteDevice(s, e),
           newest' = newest
    PROVE  /\ AcknowledgedInOrder' /\ UnusedIsBlank' /\ NewestIsCurrent' /\ DropsAwaited'
           /\ \A t \in Slots : InOrder(t)'
<1>1. /\ OnlySlot(s) /\ SameBatch(s) /\ InOrder(s)'
      /\ UNCHANGED <<row, origin, total, skipped>>
      /\ \A d \in Devices : d # origin[e.row] => deviceTotal'[d] = deviceTotal[d]
      /\ TotalIsCurrent(s) => TotalIsCurrent(s)'
    BY Advancing
<1>2. DropsAwaited' /\ (s # newest => origin[e.row] \in overtaken')
    BY WritingLate, WritingInTime
<1>3. \A d \in Devices : deviceTotal'[d] = deviceTotal[d] \/ d \in overtaken' \/ s = newest
    BY <1>1, <1>2
<1> QED BY <1>1, <1>2, <1>3, WorkOnOne

----------------------------------------------------------------------------
(* The other steps *)

\* Steps that stand keep every exchange in order, or forget it, or begin it again.
LEMMA Standing ==
    ASSUME DropInv, HistoryStep, Stands
    PROVE  /\ AcknowledgedInOrder' /\ UnusedIsBlank' /\ NewestIsCurrent' /\ DropsAwaited'
           /\ \A t \in Slots : InOrder(t)'
<1>1. /\ UNCHANGED <<row, origin, total, deviceTotal, counterReset, skipped, newest>>
      /\ Stored' \subseteq Stored \cup UNION {net[s].mapped : s \in Slots}
      /\ \A s \in Slots : Stays(s)
    BY DEF Stands
<1>2. UNCHANGED Acknowledged /\ UNCHANGED Captured
    BY <1>1 DEF Acknowledged, Captured
<1>3. AcknowledgedInOrder' /\ UnusedIsBlank'
    BY <1>1, <1>2 DEF DropInv, AcknowledgedInOrder, UnusedIsBlank
<1>4. \A t \in Slots : InOrder(t)' /\ Past(t)' \subseteq Past(t)
    BY <1>1, <1>2, StaysInOrder
<1>5. NewestIsCurrent'
    <2> SUFFICES ASSUME NEW t \in Slots, t = newest PROVE Unanswered(t)' /\ TotalIsCurrent(t)'
        BY <1>1 DEF NewestIsCurrent
    <2>1. Unanswered(t) /\ TotalIsCurrent(t)
        BY DEF DropInv, NewestIsCurrent
    <2>2. net'[t].batch \subseteq net[t].batch
        BY <1>1, RequestFields DEF Stays, SameBatch, Free
    <2> QED BY <1>1, <1>2, <2>1, <2>2, StaysCurrent DEF Unanswered
<1>6. Stored' \subseteq Stored \cup UNION {Past(s) : s \in Slots}
    BY <1>1 DEF Past
<1>7. \A q \in Rows : Dealt(q)' => Dealt(q)
    BY <1>1, <1>2, <1>4 DEF Dealt
<1>8. DropsAwaited'
    BY <1>1, <1>2, <1>4, <1>6, <1>7, SameAwaited
<1> QED BY <1>3, <1>4, <1>5, <1>8

\* What is posted is the oldest pending rows, in an exchange that becomes the newest.
LEMMA Posting ==
    ASSUME DropInv, HistoryStep, NEW s \in Slots, Posts(s)
    PROVE  /\ AcknowledgedInOrder' /\ UnusedIsBlank' /\ NewestIsCurrent' /\ DropsAwaited'
           /\ \A t \in Slots : InOrder(t)'
<1> USE DEF DropInv, OrderInv, DeliveryInv, TypeInv, TypeOK
<1>1. UNCHANGED Acknowledged /\ UNCHANGED Captured
    BY DEF Posts, purgeOld, Acknowledged, Captured
<1>2. /\ UNCHANGED <<origin, total, deviceTotal, counterReset, skipped>> /\ Stored' = Stored
      /\ OnlySlot(s)
    BY DEF Posts, cloudVars, Stored
<1>3. AcknowledgedInOrder' /\ UnusedIsBlank'
    BY <1>1, <1>2 DEF AcknowledgedInOrder, UnusedIsBlank
<1>4. \A t \in Slots : net'[t] = net[t] => Stays(t) /\ InOrder(t)' /\ Past(t)' \subseteq Past(t)
    BY <1>1, <1>2, AloneStays, StaysInOrder
<1>5. CASE net'[s] = net[s] /\ newest' = newest
    <2>1. \A t \in Slots : net'[t] = net[t]
        BY <1>2, <1>5 DEF OnlySlot
    <2>2. NewestIsCurrent'
        <3> SUFFICES ASSUME NEW t \in Slots, t = newest PROVE Unanswered(t)' /\ TotalIsCurrent(t)'
            BY <1>5 DEF NewestIsCurrent
        <3>1. Unanswered(t) /\ TotalIsCurrent(t) /\ net'[t] = net[t]
            BY <2>1 DEF NewestIsCurrent
        <3> QED BY <1>1, <1>2, <1>4, <3>1, StaysCurrent DEF Unanswered
    <2>3. \A q \in Rows : Dealt(q)' => Dealt(q)
        BY <1>1, <1>4, <1>5, <2>1 DEF Dealt
    <2>4. DropsAwaited'
        BY <1>1, <1>2, <1>4, <2>1, <2>3, SameAwaited
    <2> QED BY <1>3, <1>4, <2>1, <2>2, <2>4
<1>6. CASE net'[s] = Request(getPendingReadings) /\ newest' = s
    <2>1. net'[s].batch = getPendingReadings
        BY <1>6, RequestFields
    <2>2. InTurn(s)'
        BY <1>1, <2>1, OlderIsSent DEF InTurn
    <2>3. InOrder(s)' /\ TotalIsCurrent(s)' /\ Past(s)' = {}
        BY <1>6, <2>2, NothingDone
    <2>4. Unanswered(s)'
        <3>1. getPendingReadings \cap Acknowledged = {}
            BY DEF getPendingReadings, Pending, Acknowledged
        <3> QED BY <1>1, <2>1, <3>1 DEF Unanswered
    <2>5. NewestIsCurrent'
        BY <1>6, <2>3, <2>4 DEF NewestIsCurrent
    <2>6. \A t \in Slots : InOrder(t)' /\ Past(t)' \subseteq Past(t)
        BY <1>2, <1>4, <2>3 DEF OnlySlot
    <2>7. \A q \in Rows : Dealt(q)' => Dealt(q)
        BY <1>1, <1>6, <2>3 DEF Dealt
    <2>8. DropsAwaited'
        BY <1>1, <1>2, <2>6, <2>7, SameAwaited
    <2> QED BY <1>3, <2>5, <2>6, <2>8
<1> QED BY <1>5, <1>6 DEF Posts

\* The acknowledged rows are those of the newest exchange, all older ones among them.
LEMMA Acknowledging ==
    ASSUME DropInv, HistoryStep, NEW s \in Slots, Acknowledges(s)
    PROVE  /\ AcknowledgedInOrder' /\ UnusedIsBlank' /\ NewestIsCurrent' /\ DropsAwaited'
           /\ \A t \in Slots : InOrder(t)'
<1> USE DEF DropInv, OrderInv, DeliveryInv, TypeInv, TypeOK
<1>1. /\ UNCHANGED <<origin, total, deviceTotal, counterReset, skipped, newest>>
      /\ Stored' = Stored /\ OnlySlot(s) /\ s = newest /\ net'[s] = Free
    BY DEF Acknowledges, cloudVars, Stored
<1>2. UNCHANGED Captured
    BY DEF Acknowledges, markSynced, Captured, CarriesCaptured
<1>3. Acknowledged' = Acknowledged \cup net[s].batch
    <2>1. net[s].batch \subseteq Rows
        BY DEF Exchange
    <2> QED BY <2>1 DEF Acknowledges, markSynced, Acknowledged
<1>4. AcknowledgedInOrder' /\ UnusedIsBlank'
    BY <1>1, <1>2, <1>3 DEF AcknowledgedInOrder, InOrder, InTurn, UnusedIsBlank
<1>5. \A t \in Slots : Stays(t)
    BY <1>1, AloneStays DEF OnlySlot, Stays
<1>6. \A t \in Slots : InOrder(t)' /\ Past(t)' \subseteq Past(t)
    BY <1>1, <1>3, <1>5, StaysInOrder
<1>7. NewestIsCurrent'
    BY <1>1 DEF NewestIsCurrent, Unanswered, TotalIsCurrent, Free
<1>8. net[s].batch \subseteq net[s].mapped \cup skipped
    BY DEF Acknowledges, InOrder, Whole, InProgress
<1>9. \A q \in Rows \ skipped : Dealt(q)' => Dealt(q)
    BY <1>1, <1>3, <1>6, <1>8 DEF Dealt, Past
<1>10. DropsAwaited'
    BY <1>1, <1>2, <1>6, <1>9, SameAwaited
<1> QED BY <1>4, <1>6, <1>7, <1>10

\* A new row may be the awaited one, and follows those in use.
LEMMA Enqueueing ==
    ASSUME DropInv, HistoryStep, NEW d \in Devices, NEW pages, Enqueues(d, pages)
    PROVE  /\ AcknowledgedInOrder' /\ UnusedIsBlank' /\ NewestIsCurrent' /\ DropsAwaited'
           /\ \A t \in Slots : InOrder(t)'
<1> USE DEF DropInv, OrderInv, DeliveryInv, TypeInv, TypeOK
<1>1. /\ NextRow \in Rows /\ NextRow \notin Captured
      /\ \A r \in Captured : r < NextRow
    <2> DEFINE c == Cardinality(Captured)
    <2>1. c \in Nat /\ NextRow = 1 + c /\ Captured = 1 .. c /\ NextRow \notin Captured
        BY NextRowIsNext
    <2>2. \A r \in Captured : r < NextRow
        <3> HIDE DEF c
        <3> QED BY <2>1
    <2> QED BY <2>1, <2>2 DEF Enqueues, enqueueReading
<1>2. PICK n \in Rows : n = NextRow /\ n \notin Captured /\ \A r \in Captured : r < n
    BY <1>1
<1>3. /\ row' = [row EXCEPT ![n] = "pending"] /\ origin' = [origin EXCEPT ![n] = d]
      /\ total' = [total EXCEPT ![n] = pages] /\ UNCHANGED <<net, cloudVars, newest>>
    BY <1>2 DEF Enqueues, enqueueReading
<1>4. UNCHANGED Acknowledged /\ Captured' = Captured \cup {n}
    BY <1>2, <1>3 DEF Acknowledged, Captured
<1>5. \A m \in Rows \ {n} : origin'[m] = origin[m] /\ total'[m] = total[m]
    BY <1>3
<1>6. \A m \in Captured : origin'[m] = origin[m]
    BY <1>2, <1>5 DEF Captured
<1>7. AcknowledgedInOrder' /\ UnusedIsBlank'
    BY <1>3, <1>4 DEF AcknowledgedInOrder, UnusedIsBlank
<1>8. /\ UNCHANGED <<deviceTotal, counterReset, skipped>> /\ Stored' = Stored
      /\ \A t \in Slots : net'[t] = net[t] /\ Stays(t)
    BY <1>3, AloneStays DEF cloudVars, Stored
<1>9. \A t \in Slots : InOrder(t)' /\ Past(t)' = Past(t)
    <2>1. \A t \in Slots : Past(t)' = Past(t)
        BY <1>8 DEF Past, WrittenBy
    <2> QED BY <1>4, <1>6, <1>8, <2>1, StaysInOrder
<1>10. NewestIsCurrent'
    <2> SUFFICES ASSUME NEW t \in Slots, t = newest PROVE Unanswered(t)' /\ TotalIsCurrent(t)'
        BY <1>3 DEF NewestIsCurrent
    <2>1. Unanswered(t) /\ TotalIsCurrent(t) /\ net'[t] = net[t]
        BY <1>8 DEF NewestIsCurrent
    <2> QED BY <1>4, <1>6, <1>8, <2>1, StaysCurrent DEF Unanswered
<1>11. \A t \in Slots : Past(t) \subseteq Captured
    BY DEF Past, WrittenBy, CarriesCaptured, OfBatch, InProgress
<1> SUFFICES ASSUME NEW q \in Rows, NEW r \in Rows, Awaited(q, r)' PROVE NotPassed(q, r)'
    BY <1>7, <1>9, <1>10 DEF DropsAwaited
<1>12. q < r /\ Rows \subseteq Nat
    BY QueueAssumption DEF Awaited, Rows
<1>13. CASE q = n
    <2>1. r \notin Captured
        BY <1>2, <1>12, <1>13
    <2>2. r \notin Stored' /\ \A t \in Slots : r \notin Past(t)'
        BY <1>8, <1>9, <1>11, <2>1 DEF HandledIsCaptured, Handled
    <2>3. ~Dealt(q)'
        BY <1>2, <1>3, <1>4, <1>9, <1>11, <1>13 DEF Dealt, Acknowledged, Captured
    <2> QED BY <2>2, <2>3 DEF NotPassed
<1>14. CASE q # n
    <2>1. r \notin Captured \/ Falls(q, r)
        BY <1>2, <1>4, <1>5, <1>14 DEF Awaited, Falls
    <2>2. ZerosBetween(q, r)
        <3> SUFFICES ASSUME NEW m \in Rows, q < m, m < r PROVE origin[m] # origin[q] \/ total[m] = 0
            BY DEF ZerosBetween
        <3>1. CASE m = n
            BY <1>2, <3>1 DEF UnusedIsBlank
        <3>2. CASE m # n
            BY <1>5, <1>14, <3>2 DEF Awaited, ZerosBetween
        <3> QED BY <3>1, <3>2
    <2>3. origin[q] \notin counterReset /\ origin[q] \notin overtaken /\ r \notin lostAlerts
        BY <1>5, <1>8, <1>14, HistoriesGrow DEF Awaited
    <2>4. r \notin AlertDue
        BY <1>8 DEF Awaited, AlertDue, Handles
    <2>5. Awaited(q, r)
        BY <1>5, <1>8, <1>12, <1>14, <2>1, <2>2, <2>3, <2>4 DEF Awaited
    <2>6. NotPassed(q, r)
        BY <2>5 DEF DropsAwaited
    <2>7. Dealt(q)' => Dealt(q)
        BY <1>3, <1>4, <1>9 DEF Dealt
    <2> QED BY <1>5, <1>8, <1>9, <1>14, <2>6, <2>7 DEF NotPassed
<1> QED BY <1>13, <1>14

\* Nothing changes when nothing does.
LEMMA DropUntouched == DropInv /\ UNCHANGED dropVars => DropInv'
<1> SUFFICES ASSUME DropInv, UNCHANGED dropVars PROVE DropInv'
    OBVIOUS
<1>1. /\ UNCHANGED <<row, origin, total, waiting, net, newest, overtaken, lostAlerts>>
      /\ UNCHANGED <<deviceTotal, counterReset, stored, skipped>> /\ UNCHANGED vars
    BY DEF dropVars, vars, agentVars, queueVars, syncVars, cloudVars
<1>2. OrderInv'
    BY <1>1, OrderStep DEF DropInv
<1>3. UNCHANGED Acknowledged /\ UNCHANGED Captured /\ Stored' = Stored /\ AlertDue' = AlertDue
    BY <1>1 DEF Acknowledged, Captured, Stored, AlertDue, Handles
<1>4. \A s \in Slots : InOrder(s)' /\ Past(s)' = Past(s)
    BY <1>1, <1>3
       DEF DropInv, InOrder, InLine, InTurn, Whole, InProgress, Past, WrittenBy
<1>5. AcknowledgedInOrder' /\ UnusedIsBlank' /\ WaitingIsNewest' /\ NewestIsCurrent'
    BY <1>1, <1>3
       DEF DropInv, AcknowledgedInOrder, UnusedIsBlank, WaitingIsNewest, NewestIsCurrent,
           Unanswered, TotalIsCurrent
<1>6. \A q, r \in Rows : (Awaited(q, r)' <=> Awaited(q, r)) /\ (Dealt(q)' <=> Dealt(q))
    BY <1>1, <1>3, <1>4 DEF Awaited, Falls, ZerosBetween, Dealt
<1>7. DropsAwaited'
    BY <1>1, <1>3, <1>4, <1>6 DEF DropInv, DropsAwaited, NotPassed
<1> QED BY <1>2, <1>4, <1>5, <1>7 DEF DropInv

\* Every step keeps the drops awaited.
LEMMA DropStep == DropInv /\ [DropsNext]_dropVars => DropInv'
<1> SUFFICES ASSUME DropInv, [DropsNext]_dropVars PROVE DropInv'
    OBVIOUS
<1> DEFINE Kept == /\ AcknowledgedInOrder' /\ UnusedIsBlank' /\ NewestIsCurrent' /\ DropsAwaited'
                   /\ \A t \in Slots : InOrder(t)'
<1>1. OrderInv /\ TypeInv /\ WaitingIsNewest /\ [Next]_vars
    BY DEF DropInv, OrderInv, DeliveryInv, DropsNext, dropVars
<1>2. OrderInv'
    BY <1>1, OrderStep
<1>3. ASSUME AgentStep, UNCHANGED cloudVars, HistoryStep PROVE Kept /\ WaitingIsNewest'
    <2>1. /\ WaitingIsNewest'
          /\ \/ Stands \/ \E s \in Slots : Posts(s) \/ Acknowledges(s)
             \/ \E d \in Devices : \E pages : Enqueues(d, pages)
        BY <1>1, <1>3, AgentKinds
    <2> QED BY <1>3, <2>1, Standing, Posting, Acknowledging, Enqueueing
<1>4. ASSUME IngestStep, HistoryStep PROVE Kept /\ WaitingIsNewest'
    <2>1. PICK s \in Slots : \/ HandlerStep(s) \/ RequestUnauthorized(s) \/ ExchangeLost(s)
                             \/ InsertFails(s) \/ PublishJobs(s, "error")
        BY <1>4 DEF IngestStep
    <2>2. /\ newest' = newest /\ WaitingIsNewest'
          /\ \/ Stands
             \/ \E r \in Rows : ResolveDevice(s, r)
             \/ \E e \in net[s].seen :
                   \/ WriteDevice(s, e) \/ openCounterResetAlert(s, e)
                   \/ MapReading(s, e) \/ SkipReading(s, e)
        BY <1>1, <1>4, <2>1, CloudKinds
    <2>3. CASE Stands
        BY <1>4, <2>2, <2>3, Standing
    <2>4. ASSUME NEW r \in Rows, ResolveDevice(s, r) PROVE Kept
        BY <1>4, <2>2, <2>4, Resolving
    <2>5. ASSUME NEW e \in net[s].seen, WriteDevice(s, e) PROVE Kept
        BY <1>4, <2>2, <2>5, Writing
    <2>6. ASSUME NEW e \in net[s].seen, openCounterResetAlert(s, e) PROVE Kept
        BY <1>4, <2>2, <2>6, Opening
    <2>7. ASSUME NEW e \in net[s].seen, MapReading(s, e) \/ SkipReading(s, e) PROVE Kept
        BY <1>4, <2>2, <2>7, Finishing
    <2> HIDE DEF Kept
    <2> QED BY <2>2, <2>3, <2>4, <2>5, <2>6, <2>7
<1>5. ASSUME UNCHANGED dropVars PROVE DropInv'
    BY <1>5, DropUntouched
<1>6. ASSUME Kept, WaitingIsNewest' PROVE DropInv'
    BY <1>2, <1>6 DEF DropInv
<1> HIDE DEF Kept
<1> QED BY <1>3, <1>4, <1>5, <1>6 DEF DropsNext, Next

\* A printer whose counter really went down between two consecutive readings with counters
\* has its counter_reset alert once both are stored, through any number of retries, lost
\* answers, restarts and overlapping handlers, with the excuses the property names: the
\* handler of the newest exchange reads the total that the first reading left, unless one
\* that it overtook wrote the row (process-reading.ts upsertExisting, detectCounterResets,
\* openCounterResetAlert).
THEOREM DropsAreAlerted == DropsSpec => []DropIsAlerted
<1>1. DropInv => DropIsAlerted
    <2> SUFFICES ASSUME DropInv, NEW q \in Stored \ skipped, NEW r \in Stored \ skipped,
                        RealDrop(q, r), r \notin AlertDue \cup lostAlerts,
                        origin[r] \notin overtaken
                 PROVE  origin[r] \in counterReset
        BY DEF DropIsAlerted
    <2>1. q \in Rows /\ r \in Rows /\ total[q] \in Nat /\ total[r] \in Nat
        BY QueueAssumption
        DEF Stored, DropInv, OrderInv, DeliveryInv, TypeInv, TypeOK, Counters
    <2>2. total[q] # 0 /\ total[r] # 0 /\ q < r /\ Falls(q, r) /\ ZerosBetween(q, r)
        BY <2>1 DEF RealDrop, Falls, ZerosBetween
    <2>3. ~Awaited(q, r)
        BY <2>1 DEF DropInv, DropsAwaited, NotPassed
    <2> QED BY <2>1, <2>2, <2>3 DEF Awaited, Falls
<1>2. DropInv /\ [DropsNext]_dropVars => DropInv'
    BY DropStep
<1> QED BY <1>1, <1>2, DropInit, PTL DEF DropsSpec

=============================================================================

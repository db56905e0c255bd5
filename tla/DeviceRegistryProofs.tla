------------------------ MODULE DeviceRegistryProofs ------------------------
(***************************************************************************)
(* What holds of the devices table for any agents, clients, printers and   *)
(* handlers and any number of rows, requests and operations: types, that   *)
(* tombstones lead to a live row and rows to the client of their agent,    *)
(* that only readings at work during a merge rest on a tombstone, that a   *)
(* reading is filed under its own printer, and that issued closure lines   *)
(* keep their device.                                                      *)
(***************************************************************************)
EXTENDS DeviceRegistry, TLAPS

----------------------------------------------------------------------------
(* The invariant.                                                          *)

RowsOK ==
    /\ inserted \in 0 .. MaxRows
    /\ DOMAIN rows \subseteq 1 .. inserted
    /\ rows \in [DOMAIN rows -> Row]

\* What a handler holds: a row it means to insert has not been changed, a row it means
\* to rebind is of the client of its agent, and one that was merged since it was found
\* has made its reading a late one.
GoodHand(hd) ==
    /\ hd \in Hand /\ hd.n <= requests
    /\ hd.id = None => hd.at \in {"found", "retry"}
    /\ hd.id = None /\ hd.at = "found" => hd.row = NewRow(hd.q)
    /\ hd.at = "rebind" => hd.row.client = ClientOf[hd.q.agent]
    /\ hd.id \in DOMAIN rows /\ rows[hd.id].into # None => hd.n \in late
HandsOK ==
    /\ DOMAIN hand \subseteq Handlers
    /\ hand \in [DOMAIN hand -> Hand]
    /\ \A h \in DOMAIN hand : GoodHand(hand[h])

HomeOK == home \in [Numbers -> DOMAIN rows \cup {None}] /\ LateReadingsOnly

\* A deletion that has passed its checks finds no line but those issued since, unless a
\* row was merged into its row since; then the table refuses it.
LinesOK ==
    /\ DOMAIN lines \subseteq Lines
    /\ lines \in [DOMAIN lines -> DOMAIN rows \cup {None}]
    /\ LinesKeepTheirDevice
    /\ deleting # None /\ ~PointsAt(rows, deleting) =>
           \A l \in DOMAIN lines : lines[l] = deleting => l \in raced

MiscOK ==
    /\ requests \in 0 .. MaxRequests /\ edits \in 0 .. MaxEdits
    /\ deleting \in Ids \cup {None}
    /\ said \in [Numbers -> SerialNumbers]
    /\ late \subseteq Numbers /\ mixed \subseteq Ids /\ unnamed \subseteq Ids /\ raced \subseteq Lines

RegistryInv == RowsOK /\ RowsAreCoherent /\ HandsOK /\ HomeOK /\ LinesOK /\ MiscOK

LEMMA RegistryInvTypes == RegistryInv => DeviceTypeOK
<1> SUFFICES ASSUME RegistryInv PROVE DeviceTypeOK
    OBVIOUS
<1>1. /\ inserted \in 0 .. MaxRows /\ DOMAIN rows \subseteq 1 .. inserted
      /\ \A d \in DOMAIN rows : rows[d] \in Row
    BY DEF RegistryInv, RowsOK
<1>2. /\ DOMAIN hand \subseteq Handlers
      /\ \A h \in DOMAIN hand : hand[h] \in Hand /\ hand[h].n <= requests
    BY DEF RegistryInv, HandsOK, GoodHand
<1>3. /\ DOMAIN lines \subseteq Lines
      /\ \A l \in DOMAIN lines : lines[l] \in DOMAIN rows \cup {None}
    BY DEF RegistryInv, LinesOK
<1>4. home \in [Numbers -> DOMAIN rows \cup {None}]
    BY DEF RegistryInv, HomeOK
<1> QED BY <1>1, <1>2, <1>3, <1>4 DEF RegistryInv, MiscOK, DeviceTypeOK

----------------------------------------------------------------------------
(* Maps that grow and shrink.                                              *)

LEMMA PutTyped ==
    ASSUME NEW f, NEW x, NEW S, NEW v \in S, \A y \in DOMAIN f \ {x} : f[y] \in S
    PROVE  Put(f, x, v) \in [DOMAIN f \cup {x} -> S]
BY DEF Put

LEMMA DropFacts ==
    ASSUME NEW f, NEW x
    PROVE  /\ DOMAIN Drop(f, x) = DOMAIN f \ {x}
           /\ \A y \in DOMAIN f \ {x} : Drop(f, x)[y] = f[y]
BY DEF Drop

LEMMA DropTyped ==
    ASSUME NEW f, NEW x, NEW S, \A y \in DOMAIN f \ {x} : f[y] \in S
    PROVE  Drop(f, x) \in [DOMAIN f \ {x} -> S]
BY DEF Drop

LEMMA NewRowIsRow ==
    ASSUME NEW q \in Request
    PROVE  /\ NewRow(q) \in Row
           /\ NewRow(q).into = None
           /\ NewRow(q).client = ClientOf[NewRow(q).agent]
           /\ NewRow(q).client = ClientOf[q.agent]
BY RegistryAssumption DEF NewRow, Row, Request, None

----------------------------------------------------------------------------
(* Most steps are gentle on the rows: they neither merge nor delete one.    *)

GentleRows ==
    /\ RowsOK' /\ ClientFollowsAgent'
    /\ DOMAIN rows \subseteq DOMAIN rows'
    /\ \A d \in DOMAIN rows : rows'[d].into = rows[d].into
    /\ \A d \in DOMAIN rows' \ DOMAIN rows : rows'[d].into = None

LEMMA RowsUntouched ==
    ASSUME RegistryInv, rows' = rows, inserted' = inserted PROVE GentleRows
BY DEF RegistryInv, RowsAreCoherent, RowsOK, ClientFollowsAgent, GentleRows

LEMMA RowChanged ==
    ASSUME RegistryInv, inserted' = inserted, NEW d \in DOMAIN rows,
           NEW r \in Row, r.into = rows[d].into, r.client = ClientOf[r.agent],
           rows' = [rows EXCEPT ![d] = r]
    PROVE  GentleRows
<1>1. RowsOK /\ ClientFollowsAgent
    BY DEF RegistryInv, RowsAreCoherent
<1>2. /\ DOMAIN rows' = DOMAIN rows
      /\ rows'[d] = r /\ \A e \in DOMAIN rows \ {d} : rows'[e] = rows[e]
    BY <1>1 DEF RowsOK
<1>3. rows' \in [DOMAIN rows' -> Row]
    BY <1>1, <1>2 DEF RowsOK
<1> QED BY <1>1, <1>2, <1>3 DEF RowsOK, ClientFollowsAgent, GentleRows

LEMMA RowInserted ==
    ASSUME RegistryInv, NEW q \in Request, inserted + 1 \in Ids, inserted' = inserted + 1,
           rows' = Put(rows, inserted + 1, NewRow(q))
    PROVE  GentleRows
<1>1. RowsOK /\ ClientFollowsAgent
    BY DEF RegistryInv, RowsAreCoherent
<1>2. /\ DOMAIN rows' = DOMAIN rows \cup {inserted + 1}
      /\ rows'[inserted + 1] = NewRow(q)
      /\ \A e \in DOMAIN rows \ {inserted + 1} : rows'[e] = rows[e]
    BY DEF Put
<1>3. inserted + 1 \notin DOMAIN rows
    BY <1>1, RegistryAssumption DEF RowsOK
<1>4. inserted' \in 0 .. MaxRows /\ DOMAIN rows' \subseteq 1 .. inserted'
    BY <1>1, <1>2, RegistryAssumption DEF RowsOK, Ids
<1>5. rows' \in [DOMAIN rows' -> Row]
    BY <1>1, <1>2, NewRowIsRow, PutTyped DEF RowsOK
<1> QED BY <1>1, <1>2, <1>3, <1>4, <1>5, NewRowIsRow DEF RowsOK, ClientFollowsAgent, GentleRows

\* A gentle step keeps what the rest of the invariant says of the rows.
LEMMA GentleCoherent == ASSUME RegistryInv, GentleRows PROVE RowsOK' /\ RowsAreCoherent'
BY DEF RegistryInv, GentleRows, RowsAreCoherent, TombstonesPointHome

LEMMA GentleHome ==
    ASSUME RegistryInv, GentleRows, home' = home, late' = late PROVE HomeOK'
BY DEF RegistryInv, GentleRows, HomeOK, LateReadingsOnly, Live

LEMMA GentleLines ==
    ASSUME RegistryInv, GentleRows, lines' = lines, raced' = raced, deleting' = deleting
    PROVE  LinesOK'
<1>1. ~PointsAt(rows', deleting) => ~PointsAt(rows, deleting)
    BY DEF GentleRows, PointsAt
<1> QED BY <1>1 DEF RegistryInv, GentleRows, LinesOK, LinesKeepTheirDevice

LEMMA GentleHand ==
    ASSUME RegistryInv, GentleRows, requests' \in Nat, requests <= requests', late' = late,
           NEW hd, GoodHand(hd)
    PROVE  GoodHand(hd)'
<1>1. hd.n \in Nat /\ requests \in Nat
    BY RegistryAssumption DEF RegistryInv, MiscOK, GoodHand, Hand, Numbers
<1>2. hd.n <= requests'
    BY <1>1 DEF GoodHand
<1> QED BY <1>2 DEF GentleRows, GoodHand

----------------------------------------------------------------------------
(* Handlers.                                                               *)

\* The table of handlers when one of them starts, goes on or ends.
StillGood == \A g \in DOMAIN hand : \A hd \in Hand : hd = hand[g] => GoodHand(hd)'

LEMMA HandPut ==
    ASSUME HandsOK, StillGood,
           NEW h \in Handlers, NEW hd, GoodHand(hd)', hand' = Put(hand, h, hd)
    PROVE  HandsOK'
<1>1. /\ DOMAIN hand' = DOMAIN hand \cup {h}
      /\ hand'[h] = hd /\ \A g \in DOMAIN hand \ {h} : hand'[g] = hand[g]
    BY DEF Put
<1>2. hd \in Hand
    BY DEF GoodHand
<1>3. hand' \in [DOMAIN hand' -> Hand]
    BY <1>1, <1>2, PutTyped DEF HandsOK
<1>4. ASSUME NEW g \in DOMAIN hand', NEW x, x = hand'[g] PROVE GoodHand(x)'
    BY <1>1, <1>4 DEF HandsOK, StillGood
<1>5. ASSUME NEW g \in DOMAIN hand' PROVE GoodHand(hand[g])'
    BY <1>4
<1> QED BY <1>1, <1>3, <1>5 DEF HandsOK

LEMMA HandStep ==
    ASSUME HandsOK, StillGood,
           NEW h \in DOMAIN hand, NEW hd, GoodHand(hd)', hand' = [hand EXCEPT ![h] = hd]
    PROVE  HandsOK'
<1>1. /\ DOMAIN hand' = DOMAIN hand
      /\ hand'[h] = hd /\ \A g \in DOMAIN hand \ {h} : hand'[g] = hand[g]
    BY DEF HandsOK
<1>2. hd \in Hand
    BY DEF GoodHand
<1>3. hand' \in [DOMAIN hand' -> Hand]
    BY <1>1, <1>2 DEF HandsOK
<1>4. ASSUME NEW g \in DOMAIN hand', NEW x, x = hand'[g] PROVE GoodHand(x)'
    BY <1>1, <1>4 DEF HandsOK, StillGood
<1>5. ASSUME NEW g \in DOMAIN hand' PROVE GoodHand(hand[g])'
    BY <1>4
<1> QED BY <1>1, <1>3, <1>5 DEF HandsOK

LEMMA HandDrop ==
    ASSUME HandsOK, StillGood,
           NEW h, hand' = Drop(hand, h)
    PROVE  HandsOK'
<1>1. /\ DOMAIN hand' = DOMAIN hand \ {h}
      /\ \A g \in DOMAIN hand \ {h} : hand'[g] = hand[g]
    BY DropFacts
<1>2. hand' \in [DOMAIN hand' -> Hand]
    BY <1>1, DropTyped DEF HandsOK
<1>3. ASSUME NEW g \in DOMAIN hand', NEW x, x = hand'[g] PROVE GoodHand(x)'
    BY <1>1, <1>3 DEF HandsOK, StillGood
<1>4. ASSUME NEW g \in DOMAIN hand' PROVE GoodHand(hand[g])'
    BY <1>3
<1> QED BY <1>1, <1>2, <1>4 DEF HandsOK

LEMMA HandSame ==
    ASSUME HandsOK, StillGood, hand' = hand PROVE HandsOK'
<1>1. ASSUME NEW g \in DOMAIN hand', NEW x, x = hand'[g] PROVE GoodHand(x)'
    BY <1>1 DEF HandsOK, StillGood
<1>2. ASSUME NEW g \in DOMAIN hand' PROVE GoodHand(hand[g])'
    BY <1>1
<1> QED BY <1>2 DEF HandsOK

LEMMA RegistryInit == Init => RegistryInv
<1> SUFFICES ASSUME Init PROVE RegistryInv
    OBVIOUS
<1>1. RowsOK /\ RowsAreCoherent /\ \A d \in DOMAIN rows : rows[d].into = None
    <2>1. CASE rows = <<>> /\ inserted = 0
        <3>1. DOMAIN rows = {} /\ rows \in [{} -> Row]
            BY <2>1
        <3>2. RowsOK
            BY <2>1, <3>1, RegistryAssumption DEF RowsOK
        <3> QED BY <3>1, <3>2 DEF RowsAreCoherent, TombstonesPointHome, ClientFollowsAgent
    <2>2. ASSUME NEW q \in Request, NEW out \in BOOLEAN,
                 rows = <<[NewRow(q) EXCEPT !.out = out]>>, inserted = 1, 1 \in Ids
          PROVE  RowsOK /\ RowsAreCoherent /\ \A d \in DOMAIN rows : rows[d].into = None
        <3> DEFINE r == [NewRow(q) EXCEPT !.out = out]
        <3>1. r \in Row /\ r.into = None /\ r.client = ClientOf[r.agent]
            BY NewRowIsRow DEF Row
        <3> HIDE DEF r
        <3>2. DOMAIN rows = {1} /\ rows[1] = r /\ rows \in [{1} -> Row]
            BY <2>2, <3>1 DEF r
        <3>3. RowsOK
            BY <2>2, <3>2, RegistryAssumption DEF RowsOK, Ids
        <3> QED BY <3>1, <3>2, <3>3 DEF RowsAreCoherent, TombstonesPointHome, ClientFollowsAgent
    <2> QED BY <2>1, <2>2 DEF Init
<1>2. HandsOK
    BY DEF Init, HandsOK
<1>3. HomeOK
    BY DEF Init, HomeOK, LateReadingsOnly
<1>4. LinesOK
    BY DEF Init, LinesOK, LinesKeepTheirDevice
<1>5. MiscOK
    BY RegistryAssumption DEF Init, MiscOK, SerialNumbers
<1> QED BY <1>1, <1>2, <1>3, <1>4, <1>5 DEF RegistryInv

----------------------------------------------------------------------------
(* The steps of a handler, up to the merging of ghosts.                    *)

\* A gentle step that leaves readings, lines and the deletion alone.
ElseUntouched ==
    /\ UNCHANGED <<home, lines, deleting, said, late, raced, edits>>
    /\ requests' \in 0 .. MaxRequests /\ requests <= requests'
    /\ mixed' \subseteq Ids /\ unnamed' \subseteq Ids

LEMMA GentleStep ==
    ASSUME RegistryInv, GentleRows, ElseUntouched, StillGood => HandsOK' PROVE RegistryInv'
<1>1. RowsOK' /\ RowsAreCoherent' /\ HomeOK' /\ LinesOK'
    BY GentleCoherent, GentleHome, GentleLines DEF ElseUntouched
<1>2. MiscOK'
    BY DEF RegistryInv, MiscOK, ElseUntouched
<1>3. requests' \in Nat /\ late' = late /\ requests <= requests'
    BY RegistryAssumption DEF ElseUntouched
<1>4. StillGood
    BY <1>3, GentleHand DEF StillGood, RegistryInv, HandsOK
<1> QED BY <1>1, <1>2, <1>4 DEF RegistryInv

\* resolveDeviceIdentity hands over a live row of the agent's client, or a row to insert.
Fresh(hd) == hd.at = "found" /\ hd.id = None /\ hd.row = NewRow(hd.q)
Match(hd) == hd.at \in {"found", "rebind"} /\ Live(hd.id) /\ hd.row.client = ClientOf[hd.q.agent]

LEMMA ResolveStep ==
    ASSUME RegistryInv, NEW h \in Handlers, NEW q \in Request, NEW n \in Numbers,
           NEW again \in BOOLEAN, Resolve(h, q, n, again), inserted' = inserted
    PROVE  /\ GentleRows /\ mixed' \subseteq Ids
           /\ \E hd \in Hand : hand' = Put(hand, h, hd) /\ hd.n = n /\ (Fresh(hd) \/ Match(hd))
<1> DEFINE Goal == /\ GentleRows /\ mixed' \subseteq Ids
                   /\ \E hd \in Hand : hand' = Put(hand, h, hd) /\ hd.n = n /\ (Fresh(hd) \/ Match(hd))
           found(d, at) == [q |-> q, n |-> n, again |-> again, at |-> at, id |-> d,
                            row |-> rows[d], ghosts |-> {}]
           notFound == [q |-> q, n |-> n, again |-> again, at |-> "found", id |-> None,
                        row |-> NewRow(q), ghosts |-> {}]
<1>0. /\ RowsOK /\ ClientFollowsAgent /\ mixed \subseteq Ids
      /\ \A d \in DOMAIN rows : rows[d] \in Row /\ d \in Ids
    BY RegistryAssumption DEF RegistryInv, RowsAreCoherent, RowsOK, MiscOK, Ids
<1>1. notFound \in Hand /\ notFound.n = n /\ Fresh(notFound)
    BY NewRowIsRow DEF Hand, Fresh
<1>2. ASSUME NEW d \in Rows(ClientOf[q.agent]), NEW at \in {"found", "rebind"}
      PROVE  found(d, at) \in Hand /\ found(d, at).n = n /\ Match(found(d, at))
    BY <1>0, <1>2 DEF Hand, Match, Rows, Live
<1> HIDE DEF found, notFound
<1>3. ASSUME NEW d \in Rows(ClientOf[q.agent]), NEW at \in {"found", "rebind"},
             rows' = rows, hand' = Put(hand, h, found(d, at)),
             mixed' = mixed \cup {d} \/ mixed' = mixed
      PROVE  Goal
    <2>1. mixed' \subseteq Ids
        BY <1>0, <1>3 DEF Rows
    <2> QED BY <1>2, <1>3, <2>1, RowsUntouched
<1>4. ASSUME GentleRows, hand' = Put(hand, h, notFound), mixed' = mixed PROVE Goal
    BY <1>0, <1>1, <1>4
<1>5. ASSUME NEW d \in matchBySerial(q), NEW at \in {"found", "rebind"},
             rows' = rows, hand' = Put(hand, h, found(d, at)),
             mixed' = IF Holding(h, d) THEN mixed \cup {d} ELSE mixed
      PROVE  Goal
    <2>1. d \in Rows(ClientOf[q.agent])
        BY DEF matchBySerial
    <2> QED BY <1>3, <1>5, <2>1
<1>6. ASSUME NEW d \in matchByIp(q), rows' = rows, hand' = Put(hand, h, found(d, "found")),
             mixed' = IF Holding(h, d) THEN mixed \cup {d} ELSE mixed
      PROVE  Goal
    <2>1. d \in Rows(ClientOf[q.agent])
        BY DEF matchByIp
    <2> QED BY <1>3, <1>6, <2>1
<1>7. ASSUME NEW d \in matchByIp(q), rows' = [rows EXCEPT ![d].ip = NoIp],
             hand' = Put(hand, h, notFound), mixed' = mixed
      PROVE  Goal
    <2>1. d \in DOMAIN rows
        BY DEF matchByIp, Rows
    <2> DEFINE r == [rows[d] EXCEPT !.ip = NoIp]
    <2>2. r \in Row /\ r.into = rows[d].into /\ r.client = ClientOf[r.agent]
        BY <1>0, <2>1 DEF Row, ClientFollowsAgent
    <2>3. rows' = [rows EXCEPT ![d] = r]
        BY <1>7
    <2> HIDE DEF r
    <2>4. GentleRows
        BY <2>1, <2>2, <2>3, RowChanged
    <2> QED BY <1>4, <1>7, <2>4
<1>8. ASSUME rows' = rows, hand' = Put(hand, h, notFound), mixed' = mixed PROVE Goal
    BY <1>4, <1>8, RowsUntouched
<1> HIDE DEF Goal
<1>9. Goal
    BY <1>5, <1>6, <1>7, <1>8 DEF Resolve, found, notFound
<1> QED BY <1>9 DEF Goal

\* What it hands over is good after the step too.
LEMMA ResolvedIsGood ==
    ASSUME RegistryInv, GentleRows, late' = late, NEW hd \in Hand, hd.n <= requests',
           Fresh(hd) \/ Match(hd)
    PROVE  GoodHand(hd)'
<1>1. None \notin DOMAIN rows' /\ None \notin DOMAIN rows
    BY RegistryAssumption DEF RegistryInv, GentleRows, RowsOK, None
<1>2. CASE Fresh(hd)
    BY <1>1, <1>2 DEF Fresh, GoodHand
<1>3. CASE Match(hd)
    BY <1>1, <1>3 DEF Match, Live, GentleRows, GoodHand
<1> QED BY <1>2, <1>3

LEMMA TakeStep == ASSUME RegistryInv, NEW h \in Handlers, Take(h) \/ Retry(h) PROVE RegistryInv'
<1>1. requests \in 0 .. MaxRequests /\ requests \in Nat /\ MaxRequests \in Nat
    BY RegistryAssumption DEF RegistryInv, MiscOK
<1>2. PICK q \in Request, n \in Numbers, again \in BOOLEAN :
        Resolve(h, q, n, again) /\ n <= requests'
    <2>1. CASE Take(h)
        <3>1. requests' = requests + 1 /\ requests < MaxRequests
            BY <2>1 DEF Take
        <3>2. requests + 1 \in Numbers /\ requests + 1 <= requests'
            BY <1>1, <3>1 DEF Numbers
        <3> QED BY <2>1, <3>2 DEF Take
    <2>2. CASE Retry(h)
        <3>1. hand[h] \in Hand /\ hand[h].n <= requests
            BY <2>2 DEF Retry, RegistryInv, HandsOK, GoodHand
        <3>2. hand[h].q \in Request /\ hand[h].n \in Numbers
            BY <3>1 DEF Hand
        <3>3. requests' = requests
            BY <2>2 DEF Retry
        <3> QED BY <2>2, <3>1, <3>2, <3>3 DEF Retry
    <2> QED BY <2>1, <2>2
<1>3. inserted' = inserted /\ UNCHANGED <<home, lines, deleting, said, late, unnamed, raced, edits>>
    BY DEF Take, Retry
<1>4. requests' \in 0 .. MaxRequests /\ requests <= requests'
    <2>1. (requests' = requests + 1 /\ requests < MaxRequests) \/ requests' = requests
        BY DEF Take, Retry
    <2> QED BY <1>1, <2>1
<1>5. /\ GentleRows /\ mixed' \subseteq Ids
      /\ \E hd \in Hand : hand' = Put(hand, h, hd) /\ hd.n = n /\ (Fresh(hd) \/ Match(hd))
    BY <1>2, <1>3, ResolveStep
<1>6. PICK hd \in Hand : hand' = Put(hand, h, hd) /\ hd.n = n /\ (Fresh(hd) \/ Match(hd))
    BY <1>5
<1>7. GoodHand(hd)'
    BY <1>2, <1>3, <1>5, <1>6, ResolvedIsGood
<1>8. StillGood => HandsOK'
    BY <1>6, <1>7, HandPut DEF RegistryInv
<1>9. unnamed' \subseteq Ids
    BY <1>3 DEF RegistryInv, MiscOK
<1> QED BY <1>3, <1>4, <1>5, <1>8, <1>9, GentleStep DEF ElseUntouched

\* A statement that fails leaves the rows alone.
LEMMA FailsStep ==
    ASSUME RegistryInv, NEW h \in DOMAIN hand, Fails(h), ElseUntouched PROVE RegistryInv'
<1>0. PICK hd : hd = [hand[h] EXCEPT !.at = "retry", !.id = None]
    OBVIOUS
<1>1. GentleRows
    BY RowsUntouched DEF Fails
<1>2. hand[h] \in Hand /\ GoodHand(hand[h])
    BY DEF RegistryInv, HandsOK
<1>3. GoodHand(hd)
    <2>1. hd \in Hand /\ hd.id = None /\ hd.at = "retry" /\ hd.n = hand[h].n
        BY <1>0, <1>2 DEF Hand
    <2>2. None \notin DOMAIN rows
        BY RegistryAssumption DEF RegistryInv, RowsOK, None
    <2> QED BY <1>2, <2>1, <2>2 DEF GoodHand
<1>4. hand' = [hand EXCEPT ![h] = hd] \/ hand' = Drop(hand, h)
    BY <1>0 DEF Fails
<1>5. GoodHand(hd)'
    <2>1. requests' \in Nat /\ requests <= requests' /\ late' = late
        BY RegistryAssumption DEF ElseUntouched
    <2> QED BY <1>1, <1>3, <2>1, GentleHand
<1>6. StillGood => HandsOK'
    BY <1>4, <1>5, HandStep, HandDrop DEF RegistryInv
<1> QED BY <1>1, <1>6, GentleStep

LEMMA RebindStep == ASSUME RegistryInv, NEW h \in Handlers, Rebind(h) PROVE RegistryInv'
<1> DEFINE d == hand[h].id
           moved == IF d \in DOMAIN rows
                       THEN [rows EXCEPT ![d].agent = hand[h].q.agent, ![d].client = hand[h].row.client]
                       ELSE rows
<1>1. ElseUntouched
    BY DEF Rebind, ElseUntouched, RegistryInv, MiscOK, history
<1>2. h \in DOMAIN hand /\ hand[h].at = "rebind" /\ hand[h] \in Hand /\ GoodHand(hand[h])
    BY DEF Rebind, RegistryInv, HandsOK
<1>3. \/ rows' = moved /\ hand' = [hand EXCEPT ![h].at = "found"] /\ inserted' = inserted
      \/ Fails(h)
    BY DEF Rebind
<1>4. CASE Fails(h)
    BY <1>1, <1>2, <1>4, FailsStep
<1>5. CASE rows' = moved /\ hand' = [hand EXCEPT ![h].at = "found"] /\ inserted' = inserted
    <2>1. GentleRows
        <3>1. CASE d \in DOMAIN rows
            <4> DEFINE r == [rows[d] EXCEPT !.agent = hand[h].q.agent, !.client = hand[h].row.client]
            <4>1. rows[d] \in Row
                BY <3>1 DEF RegistryInv, RowsOK
            <4>2. hand[h].q.agent \in Agents /\ hand[h].row.client = ClientOf[hand[h].q.agent]
                  /\ hand[h].row.client \in Clients
                BY <1>2 DEF GoodHand, Hand, Request, Row
            <4>3. r \in Row /\ r.into = rows[d].into /\ r.client = ClientOf[r.agent]
                BY <4>1, <4>2 DEF Row
            <4>4. rows' = [rows EXCEPT ![d] = r]
                BY <1>5, <3>1
            <4> HIDE DEF r
            <4> QED BY <1>5, <3>1, <4>3, <4>4, RowChanged
        <3>2. CASE d \notin DOMAIN rows
            BY <1>5, <3>2, RowsUntouched
        <3> QED BY <3>1, <3>2
    <2>0. PICK hd : hd = [hand[h] EXCEPT !.at = "found"]
        OBVIOUS
    <2>2. GoodHand(hd)
        <3>1. /\ hd \in Hand /\ hd.at = "found" /\ hd.n = hand[h].n
              /\ hd.id = hand[h].id /\ hd.row = hand[h].row
            BY <1>2, <2>0 DEF Hand
        <3> QED BY <1>2, <3>1 DEF GoodHand
    <2>3. hand' = [hand EXCEPT ![h] = hd]
        BY <1>5, <2>0
    <2>4. requests' \in Nat /\ requests <= requests' /\ late' = late
        BY <1>1, RegistryAssumption DEF ElseUntouched
    <2>5. GoodHand(hd)'
        BY <2>1, <2>2, <2>4, GentleHand
    <2>6. StillGood => HandsOK'
        BY <1>2, <2>3, <2>5, HandStep DEF RegistryInv
    <2> QED BY <1>1, <2>1, <2>6, GentleStep
<1> QED BY <1>3, <1>4, <1>5

LEMMA WriteStep == ASSUME RegistryInv, NEW h \in Handlers, Write(h) PROVE RegistryInv'
<1> DEFINE hd == hand[h]
           d == IF hd.id = None THEN inserted + 1 ELSE hd.id
           written == IF hd.id = None THEN Put(rows, d, hd.row) ELSE updated(hd)
<1>1. h \in DOMAIN hand /\ hd.at = "found" /\ hd \in Hand /\ GoodHand(hd)
    BY DEF Write, RegistryInv, HandsOK
<1>2. hd.q \in Request /\ hd.n \in Numbers /\ hd.id \in Ids \cup {None}
    BY <1>1 DEF Hand
<1>3. d \in Ids /\ d # None
    BY RegistryAssumption DEF Write, Ids, None
<1>4. unnamed' = unnamed \cup {d} \/ unnamed' = unnamed
    BY DEF Write
<1>5. /\ UNCHANGED <<requests, home, lines, deleting, said, late, mixed, raced, edits>>
      /\ requests \in 0 .. MaxRequests /\ mixed \subseteq Ids /\ unnamed \subseteq Ids
    BY DEF Write, RegistryInv, MiscOK
<1>6. ElseUntouched
    BY <1>3, <1>4, <1>5, RegistryAssumption DEF ElseUntouched
<1>7. requests' \in Nat /\ requests <= requests' /\ late' = late
    BY <1>6, RegistryAssumption DEF ElseUntouched
<1>8. \/ /\ rows' = written /\ inserted' = IF hd.id = None THEN d ELSE inserted
         /\ \/ hand' = Drop(hand, h)
            \/ hand' = [hand EXCEPT ![h].at = "written", ![h].id = d, ![h].row = NewRow(hd.q)]
      \/ Fails(h)
    BY DEF Write
<1>9. CASE Fails(h)
    BY <1>6, <1>1, <1>9, FailsStep
<1>10. ASSUME rows' = written, inserted' = IF hd.id = None THEN d ELSE inserted,
             \/ hand' = Drop(hand, h)
             \/ hand' = [hand EXCEPT ![h].at = "written", ![h].id = d, ![h].row = NewRow(hd.q)]
      PROVE  RegistryInv'
    <2>0. PICK new : new = [hand[h] EXCEPT !.at = "written", !.id = d, !.row = NewRow(hd.q)]
        OBVIOUS
    <2>1. /\ new \in Hand /\ new.id = d /\ new.at = "written" /\ new.n = hd.n
        BY <1>1, <1>2, <1>3, <2>0, NewRowIsRow DEF Hand
    <2>2. hand' = Drop(hand, h) \/ hand' = [hand EXCEPT ![h] = new]
        BY <1>10, <2>0
    <2>3. GentleRows /\ GoodHand(new)'
        <3>1. CASE hd.id = None
            <4>1. hd.row = NewRow(hd.q) /\ d = inserted + 1
                BY <1>1, <3>1 DEF GoodHand
            <4>2. rows' = Put(rows, inserted + 1, NewRow(hd.q)) /\ inserted' = inserted + 1
                BY <1>10, <3>1, <4>1
            <4>3. inserted + 1 \in Ids
                BY <1>3, <4>1
            <4>4. GentleRows
                BY <1>2, <4>2, <4>3, RowInserted
            <4>5. d \notin DOMAIN rows
                BY <4>1, RegistryAssumption DEF RegistryInv, RowsOK
            <4>6. hd.n <= requests'
                BY <1>6, <1>1, <1>2, <1>7, RegistryAssumption DEF GoodHand, Numbers, RegistryInv, MiscOK
            <4>7. d \in DOMAIN rows' => rows'[d].into = None
                BY <4>4, <4>5 DEF GentleRows
            <4> QED BY <1>3, <2>1, <4>4, <4>6, <4>7 DEF GoodHand
        <3>2. CASE hd.id # None
            <4>1. d = hd.id /\ rows' = updated(hd) /\ inserted' = inserted
                BY <1>10, <3>2
            <4>2. GentleRows
                <5>1. CASE d \notin DOMAIN rows
                    BY <4>1, <5>1, RowsUntouched DEF updated
                <5>2. ASSUME d \in DOMAIN rows, NEW ser \in SerialNumbers,
                             rows' = [rows EXCEPT ![d].ip = hd.q.ip, ![d].serial = ser]
                      PROVE  GentleRows
                    <6> DEFINE r == [rows[d] EXCEPT !.ip = hd.q.ip, !.serial = ser]
                    <6>1. rows[d] \in Row /\ rows[d].client = ClientOf[rows[d].agent]
                        BY <5>2 DEF RegistryInv, RowsOK, RowsAreCoherent, ClientFollowsAgent
                    <6>2. r \in Row /\ r.into = rows[d].into /\ r.client = ClientOf[r.agent]
                        BY <1>2, <6>1 DEF Row, Request
                    <6>3. rows' = [rows EXCEPT ![d] = r]
                        BY <5>2
                    <6> HIDE DEF r
                    <6> QED BY <4>1, <5>2, <6>2, <6>3, RowChanged
                <5>3. ASSUME d \in DOMAIN rows, rows' = [rows EXCEPT ![d].ip = hd.q.ip]
                      PROVE  GentleRows
                    <6> DEFINE r == [rows[d] EXCEPT !.ip = hd.q.ip]
                    <6>1. rows[d] \in Row /\ rows[d].client = ClientOf[rows[d].agent]
                        BY <5>3 DEF RegistryInv, RowsOK, RowsAreCoherent, ClientFollowsAgent
                    <6>2. r \in Row /\ r.into = rows[d].into /\ r.client = ClientOf[r.agent]
                        BY <1>2, <6>1 DEF Row, Request
                    <6>3. rows' = [rows EXCEPT ![d] = r]
                        BY <5>3
                    <6> HIDE DEF r
                    <6> QED BY <4>1, <5>3, <6>2, <6>3, RowChanged
                <5>4. finalSerial(hd) \in SerialNumbers
                    BY <1>1 DEF finalSerial, Hand, Request, Row
                <5> HIDE DEF d, hd
                <5>5. CASE d \in DOMAIN rows
                    <6>1. \/ rows' = [rows EXCEPT ![d].ip = hd.q.ip]
                          \/ rows' = [rows EXCEPT ![d].ip = hd.q.ip, ![d].serial = finalSerial(hd)]
                        BY <4>1, <5>5 DEF updated
                    <6> QED BY <5>2, <5>3, <5>4, <5>5, <6>1
                <5> QED BY <5>1, <5>5
            <4>3. GoodHand(new)
                BY <1>1, <1>3, <2>1, <4>1 DEF GoodHand
            <4> QED BY <1>7, <4>2, <4>3, GentleHand
        <3> QED BY <3>1, <3>2
    <2>4. StillGood => HandsOK'
        BY <1>1, <2>2, <2>3, HandStep, HandDrop DEF RegistryInv
    <2> QED BY <1>6, <2>3, <2>4, GentleStep
<1> HIDE DEF hd, d, written
<1> QED BY <1>8, <1>9, <1>10

LEMMA ListGhostsStep ==
    ASSUME RegistryInv, NEW h \in Handlers, ListGhosts(h) PROVE RegistryInv'
<1>0. PICK hd : hd = [hand[h] EXCEPT !.at = "folding", !.ghosts = ghostIdsByIp(hand[h])]
    OBVIOUS
<1>1. ElseUntouched /\ rows' = rows /\ inserted' = inserted
    BY DEF ListGhosts, ElseUntouched, RegistryInv, MiscOK, history, tables
<1>2. h \in DOMAIN hand /\ hand[h].at = "written" /\ hand[h] \in Hand /\ GoodHand(hand[h])
    BY DEF ListGhosts, RegistryInv, HandsOK
<1>3. ghostIdsByIp(hand[h]) \in SUBSET Ids
    BY RegistryAssumption DEF ghostIdsByIp, RegistryInv, RowsOK, Ids
<1>4. /\ hd \in Hand /\ hd.at = "folding" /\ hd.n = hand[h].n
      /\ hd.id = hand[h].id /\ hd.row = hand[h].row
    BY <1>0, <1>2, <1>3 DEF Hand
<1>5. hand' = [hand EXCEPT ![h] = hd]
    BY <1>0 DEF ListGhosts
<1>6. GoodHand(hd)
    BY <1>2, <1>4 DEF GoodHand
<1>7. requests' \in Nat /\ requests <= requests' /\ late' = late
    BY <1>1, RegistryAssumption DEF ElseUntouched
<1>8. GentleRows /\ GoodHand(hd)'
    BY <1>1, <1>6, <1>7, RowsUntouched, GentleHand
<1>9. StillGood => HandsOK'
    BY <1>2, <1>5, <1>8, HandStep DEF RegistryInv
<1> QED BY <1>1, <1>8, <1>9, GentleStep

LEMMA CheckRowStep ==
    ASSUME RegistryInv, NEW h \in Handlers, CheckRow(h) PROVE RegistryInv'
<1>0. PICK hd : hd = [hand[h] EXCEPT !.at = "checked"]
    OBVIOUS
<1>1. ElseUntouched /\ rows' = rows /\ inserted' = inserted
    BY DEF CheckRow, ElseUntouched, RegistryInv, MiscOK, history, tables
<1>2. h \in DOMAIN hand /\ hand[h].at = "folding" /\ hand[h] \in Hand /\ GoodHand(hand[h])
    BY DEF CheckRow, RegistryInv, HandsOK
<1>3. /\ hd \in Hand /\ hd.at = "checked" /\ hd.n = hand[h].n
      /\ hd.id = hand[h].id /\ hd.row = hand[h].row
    BY <1>0, <1>2 DEF Hand
<1>4. hand' = [hand EXCEPT ![h] = hd] \/ hand' = Drop(hand, h)
    BY <1>0 DEF CheckRow
<1>5. GoodHand(hd)
    BY <1>2, <1>3 DEF GoodHand
<1>6. requests' \in Nat /\ requests <= requests' /\ late' = late
    BY <1>1, RegistryAssumption DEF ElseUntouched
<1>7. GentleRows /\ GoodHand(hd)'
    BY <1>1, <1>5, <1>6, RowsUntouched, GentleHand
<1>8. StillGood => HandsOK'
    BY <1>2, <1>4, <1>7, HandStep, HandDrop DEF RegistryInv
<1> QED BY <1>1, <1>7, <1>8, GentleStep

\* A reading is stored on a tombstone only when its row was merged while it was at work.
LEMMA StoreStep == ASSUME RegistryInv, NEW h \in Handlers, Store(h) PROVE RegistryInv'
<1> DEFINE hd == hand[h]
<1>1. /\ UNCHANGED <<rows, inserted, lines, requests, deleting, late, mixed, unnamed, raced, edits>>
      /\ hand' = Drop(hand, h)
    BY DEF Store
<1>2. h \in DOMAIN hand /\ hd \in Hand /\ GoodHand(hd)
    BY DEF Store, RegistryInv, HandsOK
<1>3. hd.n \in Numbers /\ hd.q.serial \in SerialNumbers
    BY <1>2 DEF Hand, Request
<1>4. GentleRows
    BY <1>1, RowsUntouched
<1>5. RowsOK' /\ RowsAreCoherent' /\ LinesOK'
    BY <1>1, <1>4, GentleCoherent, GentleLines
<1>6. requests \in Nat /\ requests' \in Nat /\ requests <= requests'
    BY <1>1, RegistryAssumption DEF RegistryInv, MiscOK
<1>7. StillGood
    BY <1>1, <1>4, <1>6, GentleHand DEF StillGood, RegistryInv, HandsOK
<1>8. HandsOK'
    BY <1>1, <1>7, HandDrop DEF RegistryInv
<1>9. \/ hd.id \in DOMAIN rows /\ home' = [home EXCEPT ![hd.n] = hd.id]
         /\ said' = [said EXCEPT ![hd.n] = hd.q.serial]
      \/ UNCHANGED <<home, said>>
    BY DEF Store
<1>10. HomeOK'
    <2>1. ~Live(hd.id) /\ hd.id \in DOMAIN rows => hd.n \in late
        BY <1>2 DEF Live, GoodHand
    <2>2. \A e : Live(e)' <=> Live(e)
        BY <1>1 DEF Live
    <2> HIDE DEF hd
    <2>3. home' \in [Numbers -> DOMAIN rows' \cup {None}]
        BY <1>1, <1>3, <1>9 DEF RegistryInv, HomeOK
    <2>4. \A n \in Numbers : home'[n] # None /\ ~Live(home'[n]) => n \in late
        BY <1>3, <1>9, <2>1 DEF RegistryInv, HomeOK, LateReadingsOnly
    <2> QED BY <1>1, <2>2, <2>3, <2>4 DEF HomeOK, LateReadingsOnly, Live
<1> HIDE DEF hd
<1>11. MiscOK'
    BY <1>1, <1>3, <1>9 DEF RegistryInv, MiscOK
<1> QED BY <1>5, <1>8, <1>10, <1>11 DEF RegistryInv

----------------------------------------------------------------------------
(* Merging.                                                                *)

\* A survivor keeps its serial when it identifies, or the source's does not.
KeepsSerial(t, s) ==
    Identifies(rows[t].serial) \/ (rows[t].serial # NoSerial /\ ~Identifies(rows[s].serial))

\* What a merge makes of each row: only links change, and one serial.
LEMMA MergedRows ==
    ASSUME RowsOK, NEW t \in DOMAIN rows, NEW s \in DOMAIN rows
    PROVE  /\ merged(t, s) \in [DOMAIN rows -> Row]
           /\ \A d \in DOMAIN rows :
                 /\ merged(t, s)[d].agent = rows[d].agent
                 /\ merged(t, s)[d].client = rows[d].client
                 /\ merged(t, s)[d].into = IF d = s \/ rows[d].into = s THEN t ELSE rows[d].into
                 /\ merged(t, s)[d].serial = IF d = t /\ ~KeepsSerial(t, s)
                                             THEN rows[s].serial ELSE rows[d].serial
<1>0. \A d \in DOMAIN rows : rows[d] \in Row /\ d \in Ids
    BY RegistryAssumption DEF RowsOK, Ids
<1>1. PICK u : u = survivorUpdated(t, s)
    OBVIOUS
<1>2. /\ DOMAIN u = DOMAIN rows
      /\ \A d \in DOMAIN rows : /\ u[d] \in Row /\ u[d].into = rows[d].into
                                /\ u[d].agent = rows[d].agent /\ u[d].client = rows[d].client
                                /\ u[d].serial = IF d = t /\ ~KeepsSerial(t, s)
                                                 THEN rows[s].serial ELSE rows[d].serial
    <2>1. PICK ser \in SerialNumbers :
              /\ u = [rows EXCEPT ![t].serial = ser]
              /\ ser = IF KeepsSerial(t, s) THEN rows[t].serial ELSE rows[s].serial
        <3>1. (IF KeepsSerial(t, s) THEN rows[t].serial ELSE rows[s].serial) \in SerialNumbers
            BY <1>0 DEF Row
        <3> QED BY <1>1, <3>1 DEF survivorUpdated, KeepsSerial
    <2>2. u = [rows EXCEPT ![t] = [rows[t] EXCEPT !.serial = ser]]
        BY <2>1
    <2>3. PICK r : r = [rows[t] EXCEPT !.serial = ser]
        OBVIOUS
    <2>4. /\ r \in Row /\ r.into = rows[t].into
          /\ r.agent = rows[t].agent /\ r.client = rows[t].client /\ r.serial = ser
        BY <1>0, <2>3 DEF Row
    <2>5. u = [rows EXCEPT ![t] = r]
        BY <2>2, <2>3
    <2> QED BY <1>0, <2>1, <2>4, <2>5
<1>3. PICK c : c = compressMergeChain(u, t, s)
    OBVIOUS
<1>4. /\ DOMAIN c = DOMAIN rows
      /\ \A d \in DOMAIN rows :
            /\ c[d] \in Row /\ c[d].agent = rows[d].agent /\ c[d].client = rows[d].client
            /\ c[d].into = IF rows[d].into = s THEN t ELSE rows[d].into
            /\ c[d].serial = u[d].serial
    <2>1. DOMAIN c = DOMAIN rows
        BY <1>2, <1>3 DEF compressMergeChain
    <2>2. ASSUME NEW d \in DOMAIN rows
          PROVE  /\ c[d] \in Row /\ c[d].agent = rows[d].agent /\ c[d].client = rows[d].client
                 /\ c[d].into = IF rows[d].into = s THEN t ELSE rows[d].into
                 /\ c[d].serial = u[d].serial
        <3>1. c[d] = IF u[d].into = s THEN [u[d] EXCEPT !.into = t] ELSE u[d]
            BY <1>2, <1>3 DEF compressMergeChain
        <3>2. t \in Ids
            BY <1>0
        <3> QED BY <1>2, <3>1, <3>2 DEF Row
    <2> QED BY <2>1, <2>2
<1>5. merged(t, s) = [c EXCEPT ![s].into = t]
    BY <1>1, <1>3 DEF merged, markTombstone
<1>6. PICK r : r = [c[s] EXCEPT !.into = t]
    OBVIOUS
<1>7. /\ r \in Row /\ r.into = t /\ r.agent = rows[s].agent /\ r.client = rows[s].client
      /\ r.serial = c[s].serial
    BY <1>0, <1>4, <1>6 DEF Row
<1>8. merged(t, s) = [c EXCEPT ![s] = r]
    BY <1>5, <1>6
<1>9. /\ DOMAIN merged(t, s) = DOMAIN rows /\ merged(t, s)[s] = r
      /\ \A d \in DOMAIN rows \ {s} : merged(t, s)[d] = c[d]
    BY <1>4, <1>8
<1>10. \A d \in DOMAIN rows : merged(t, s)[d] \in Row
    BY <1>4, <1>7, <1>9
<1>11. merged(t, s) \in [DOMAIN rows -> Row]
    <2>1. merged(t, s) = [d \in DOMAIN rows |-> merged(t, s)[d]]
        BY <1>4, <1>8, <1>9
    <2> QED BY <1>10, <2>1
<1> QED BY <1>2, <1>4, <1>7, <1>9, <1>11

\* A merge keeps the invariant, whoever runs it.
LEMMA MergeKeeps ==
    ASSUME RegistryInv, NEW t, NEW s, NEW force, NEW onOverlap,
           CanMerge(t, s, force, onOverlap), mergeRows(t, s, onOverlap),
           UNCHANGED <<inserted, requests, deleting, said, raced>>
    PROVE  /\ RowsOK' /\ RowsAreCoherent' /\ HomeOK' /\ LinesOK' /\ StillGood
           /\ late' \subseteq Numbers /\ mixed' \subseteq Ids /\ unnamed' \subseteq Ids
<1>1. /\ t \in DOMAIN rows /\ s \in DOMAIN rows /\ s # t
      /\ rows[s].into = None /\ rows[t].into = None
    BY DEF CanMerge, assertMergeGuards
<1>2. /\ RowsOK /\ RowsAreCoherent /\ HandsOK /\ HomeOK /\ LinesOK
      /\ late \subseteq Numbers /\ mixed \subseteq Ids /\ unnamed \subseteq Ids
    BY DEF RegistryInv, MiscOK
<1>3. \A d \in DOMAIN rows : d \in Ids /\ d # None
    BY <1>2, RegistryAssumption DEF RowsOK, Ids, None
<1>4. rows' = merged(t, s)
    BY DEF mergeRows
<1>5. /\ DOMAIN rows' = DOMAIN rows /\ \A d \in DOMAIN rows : rows'[d] \in Row
      /\ \A d \in DOMAIN rows :
            /\ rows'[d].agent = rows[d].agent /\ rows'[d].client = rows[d].client
            /\ rows'[d].into = IF d = s \/ rows[d].into = s THEN t ELSE rows[d].into
    BY <1>1, <1>2, <1>4, MergedRows
<1>6. RowsOK'
    <2>1. rows' \in [DOMAIN rows -> Row]
        BY <1>1, <1>2, <1>4, MergedRows
    <2> QED BY <1>2, <1>5, <2>1 DEF RowsOK
<1>7. rows'[t].into = None
    BY <1>1, <1>3, <1>5
<1>8. RowsAreCoherent'
    <2>1. ASSUME NEW d \in DOMAIN rows, rows'[d].into # None
          PROVE  rows'[d].into \in DOMAIN rows /\ rows'[rows'[d].into].into = None
        <3>1. CASE d = s \/ rows[d].into = s
            BY <1>1, <1>5, <1>7, <3>1
        <3>2. CASE ~(d = s \/ rows[d].into = s)
            <4>1. rows'[d].into = rows[d].into
                BY <1>5, <3>2
            <4>2. rows[d].into \in DOMAIN rows /\ rows[rows[d].into].into = None
                BY <1>2, <2>1, <4>1 DEF RowsAreCoherent, TombstonesPointHome
            <4>3. rows'[rows[d].into].into = None
                BY <1>1, <1>3, <1>5, <3>2, <4>2
            <4> QED BY <4>1, <4>2, <4>3
        <3> QED BY <3>1, <3>2
    <2>2. TombstonesPointHome'
        BY <1>5, <2>1 DEF TombstonesPointHome
    <2>3. ClientFollowsAgent'
        BY <1>2, <1>5 DEF RowsAreCoherent, ClientFollowsAgent
    <2> QED BY <2>2, <2>3 DEF RowsAreCoherent
<1>9. late' = late \cup {hand[g].n : g \in {g \in DOMAIN hand : hand[g].id = s}}
    BY DEF mergeRows
<1>10. HomeOK'
    <2>1. \A n \in Numbers : home'[n] \in {home[n], t, None} /\ (home'[n] = s => FALSE)
        <3>1. home' = movedReadings(t, s, onOverlap)
            BY DEF mergeRows
        <3> QED BY <1>1, <1>3, <3>1 DEF movedReadings
    <2>2. home' \in [Numbers -> DOMAIN rows' \cup {None}]
        <3>1. home' = movedReadings(t, s, onOverlap)
            BY DEF mergeRows
        <3>2. DOMAIN home' = Numbers /\ home' = [n \in Numbers |-> home'[n]]
            BY <3>1 DEF movedReadings
        <3>3. \A n \in Numbers : home'[n] \in DOMAIN rows' \cup {None}
            BY <1>1, <1>2, <1>5, <2>1 DEF HomeOK
        <3> QED BY <3>2, <3>3
    <2>3. ASSUME NEW n \in Numbers, home'[n] # None, rows'[home'[n]].into # None
          PROVE  n \in late'
        <3>1. home'[n] = home[n] /\ home[n] # s /\ home[n] \in DOMAIN rows
            BY <1>2, <1>7, <2>1, <2>3 DEF HomeOK
        <3>2. rows[home[n]].into # None
            BY <1>3, <1>1, <1>5, <2>3, <3>1
        <3>3. n \in late
            BY <1>2, <2>3, <3>1, <3>2 DEF HomeOK, LateReadingsOnly, Live
        <3> QED BY <1>9, <3>3
    <2>4. LateReadingsOnly'
        BY <2>2, <2>3 DEF LateReadingsOnly, Live
    <2> QED BY <2>2, <2>4 DEF HomeOK
<1>11. LinesOK'
    <2>1. lines' = [l \in DOMAIN lines |-> IF lines[l] = s THEN t ELSE lines[l]]
        BY DEF mergeRows
    <2>2. /\ DOMAIN lines' = DOMAIN lines
          /\ \A l \in DOMAIN lines : lines'[l] = IF lines[l] = s THEN t ELSE lines[l]
        BY <2>1
    <2>3. \A l \in DOMAIN lines : lines'[l] \in DOMAIN rows \cup {None}
        BY <1>1, <1>2, <2>2 DEF LinesOK
    <2>4. lines' \in [DOMAIN lines' -> DOMAIN rows' \cup {None}]
        BY <1>5, <2>1, <2>2, <2>3
    <2>5. LinesKeepTheirDevice'
        BY <1>1, <1>2, <1>3, <2>2 DEF LinesOK, LinesKeepTheirDevice
    <2>6. ASSUME deleting # None, ~PointsAt(rows', deleting),
                 NEW l \in DOMAIN lines, lines'[l] = deleting
          PROVE  l \in raced
        <3>1. deleting # t
            BY <1>1, <1>5, <2>6 DEF PointsAt
        <3>2. lines[l] = deleting /\ deleting # s
            BY <2>2, <2>6, <3>1
        <3>3. ~PointsAt(rows, deleting)
            BY <1>1, <1>5, <2>6, <3>2 DEF PointsAt
        <3> QED BY <1>2, <2>6, <3>2, <3>3 DEF LinesOK
    <2> QED BY <1>2, <2>2, <2>4, <2>5, <2>6 DEF LinesOK
<1>12. StillGood
    <2> SUFFICES ASSUME NEW g \in DOMAIN hand, NEW hd \in Hand, hd = hand[g] PROVE GoodHand(hd)'
        BY DEF StillGood
    <2>1. GoodHand(hd)
        BY <1>2 DEF HandsOK
    <2>2. ASSUME hd.id \in DOMAIN rows, rows'[hd.id].into # None PROVE hd.n \in late'
        <3>1. CASE hd.id = s
            BY <1>9, <3>1
        <3>2. CASE hd.id # s
            <4>1. rows[hd.id].into # None
                BY <1>1, <1>3, <1>5, <2>2, <3>2
            <4> QED BY <1>9, <2>1, <2>2, <4>1 DEF GoodHand
        <3> QED BY <3>1, <3>2
    <2> QED BY <1>5, <2>1, <2>2 DEF GoodHand
<1>13. late' \subseteq Numbers
    BY <1>2, <1>9 DEF HandsOK, GoodHand, Hand
<1>14. mixed' \subseteq Ids /\ unnamed' \subseteq Ids
    BY <1>1, <1>2, <1>3 DEF mergeRows
<1> QED BY <1>6, <1>8, <1>10, <1>11, <1>12, <1>13, <1>14

LEMMA MergeGhostStep ==
    ASSUME RegistryInv, NEW h \in Handlers, NEW s, MergeGhost(h, s) PROVE RegistryInv'
<1>0. PICK hd : hd = [hand[h] EXCEPT !.ghosts = hand[h].ghosts \ {s}]
    OBVIOUS
<1>1. h \in DOMAIN hand /\ hand[h].at = "folding" /\ hand[h] \in Hand /\ GoodHand(hand[h])
    BY DEF MergeGhost, RegistryInv, HandsOK
<1>2. UNCHANGED <<inserted, requests, deleting, said, raced, edits>>
    BY DEF MergeGhost
<1>3. hand' = [hand EXCEPT ![h] = hd]
    BY <1>0 DEF MergeGhost
<1>4. /\ hd \in Hand /\ hd.at = "folding" /\ hd.n = hand[h].n
      /\ hd.id = hand[h].id /\ hd.row = hand[h].row
    BY <1>0, <1>1 DEF Hand
<1>5. \/ mergeRows(hand[h].id, s, "keep_target") /\ CanMerge(hand[h].id, s, FALSE, "keep_target")
      \/ UNCHANGED <<rows, home, lines, late, mixed, unnamed>>
    BY DEF MergeGhost
<1>6. /\ RowsOK' /\ RowsAreCoherent' /\ HomeOK' /\ LinesOK' /\ StillGood
      /\ late' \subseteq Numbers /\ mixed' \subseteq Ids /\ unnamed' \subseteq Ids
    <2>1. CASE mergeRows(hand[h].id, s, "keep_target") /\ CanMerge(hand[h].id, s, FALSE, "keep_target")
        BY <1>2, <2>1, MergeKeeps
    <2>2. CASE UNCHANGED <<rows, home, lines, late, mixed, unnamed>>
        <3>1. GentleRows /\ requests' \in Nat /\ requests <= requests'
            BY <1>2, <2>2, RowsUntouched, RegistryAssumption DEF RegistryInv, MiscOK
        <3>2. RowsOK' /\ RowsAreCoherent' /\ HomeOK' /\ LinesOK'
            BY <1>2, <2>2, <3>1, GentleCoherent, GentleHome, GentleLines
        <3>3. StillGood
            BY <2>2, <3>1, GentleHand DEF StillGood, RegistryInv, HandsOK
        <3> QED BY <2>2, <3>2, <3>3 DEF RegistryInv, MiscOK
    <2> QED BY <1>5, <2>1, <2>2
<1>7. GoodHand(hd)'
    <2>1. GoodHand(hand[h]) /\ \A x \in Hand : x = hand[h] => GoodHand(x)'
        BY <1>1, <1>6 DEF StillGood
    <2>2. PICK x \in Hand : x = hand[h]
        BY <1>1
    <2>3. GoodHand(x)'
        BY <2>1, <2>2
    <2> QED BY <1>1, <1>4, <2>2, <2>3 DEF GoodHand
<1>8. HandsOK'
    BY <1>1, <1>3, <1>6, <1>7, HandStep DEF RegistryInv
<1>9. MiscOK'
    BY <1>2, <1>6 DEF RegistryInv, MiscOK
<1> QED BY <1>6, <1>8, <1>9 DEF RegistryInv

----------------------------------------------------------------------------
(* The portal.                                                             *)

LEMMA EditStep ==
    ASSUME RegistryInv, GentleRows, edits' \in 0 .. MaxEdits,
           UNCHANGED <<inserted, home, lines, hand, requests, deleting, history>>
    PROVE  RegistryInv'
<1>1. UNCHANGED <<inserted, home, lines, hand, requests, deleting, said, late, mixed, unnamed, raced>>
    BY DEF history
<1>2. RowsOK' /\ RowsAreCoherent' /\ HomeOK' /\ LinesOK'
    BY <1>1, GentleCoherent, GentleHome, GentleLines
<1>3. MiscOK'
    BY <1>1 DEF RegistryInv, MiscOK
<1>4. requests' \in Nat /\ requests <= requests'
    BY <1>1, RegistryAssumption DEF RegistryInv, MiscOK
<1>5. StillGood
    BY <1>1, <1>4, GentleHand DEF StillGood, RegistryInv, HandsOK
<1>6. HandsOK'
    BY <1>1, <1>5, HandSame DEF RegistryInv
<1> QED BY <1>2, <1>3, <1>6 DEF RegistryInv

LEMMA EditCounts == ASSUME RegistryInv, Edit PROVE edits' \in 0 .. MaxEdits
<1>1. edits \in 0 .. MaxEdits /\ edits < MaxEdits /\ edits' = edits + 1
    BY DEF RegistryInv, MiscOK, Edit
<1> QED BY <1>1, RegistryAssumption

LEMMA MergeStep == ASSUME RegistryInv, NEW t, NEW s, Merge(t, s) PROVE RegistryInv'
<1>1. PICK force \in BOOLEAN, onOverlap \in {"abort", "keep_target", "keep_source"} :
          CanMerge(t, s, force, onOverlap) /\ mergeRows(t, s, onOverlap)
    BY DEF Merge
<1>2. UNCHANGED <<inserted, hand, requests, deleting, said, raced>> /\ Edit
    BY DEF Merge
<1>3. /\ RowsOK' /\ RowsAreCoherent' /\ HomeOK' /\ LinesOK' /\ StillGood
      /\ late' \subseteq Numbers /\ mixed' \subseteq Ids /\ unnamed' \subseteq Ids
    BY <1>1, <1>2, MergeKeeps
<1>4. HandsOK'
    BY <1>2, <1>3, HandSame DEF RegistryInv
<1>5. edits' \in 0 .. MaxEdits
    BY <1>2, EditCounts
<1>6. MiscOK'
    BY <1>2, <1>3, <1>5 DEF RegistryInv, MiscOK
<1> QED BY <1>3, <1>4, <1>6 DEF RegistryInv

LEMMA RowEditStep ==
    ASSUME RegistryInv, NEW d, NEW a \in Agents,
           Decommission(d) \/ Recommission(d) \/ Ignore(d) \/ Move(d, a)
    PROVE  RegistryInv'
<1>1. /\ UNCHANGED <<inserted, home, lines, hand, requests, deleting, history>> /\ Edit
      /\ d \in DOMAIN rows
    BY DEF Decommission, Recommission, Ignore, Move, Live
<1>2. rows[d] \in Row /\ rows[d].client = ClientOf[rows[d].agent]
    BY <1>1 DEF RegistryInv, RowsOK, RowsAreCoherent, ClientFollowsAgent
<1>3. PICK r \in Row : /\ rows' = [rows EXCEPT ![d] = r]
                       /\ r.into = rows[d].into /\ r.client = ClientOf[r.agent]
    <2>1. CASE Decommission(d)
        <3>1. PICK r : r = [rows[d] EXCEPT !.out = TRUE]
            OBVIOUS
        <3>2. r \in Row /\ r.into = rows[d].into /\ r.client = ClientOf[r.agent]
            BY <1>2, <3>1 DEF Row
        <3>3. rows' = [rows EXCEPT ![d] = r]
            BY <2>1, <3>1 DEF Decommission
        <3> QED BY <3>2, <3>3
    <2>2. CASE Recommission(d)
        <3>1. PICK r : r = [rows[d] EXCEPT !.out = FALSE]
            OBVIOUS
        <3>2. r \in Row /\ r.into = rows[d].into /\ r.client = ClientOf[r.agent]
            BY <1>2, <3>1 DEF Row
        <3>3. rows' = [rows EXCEPT ![d] = r]
            BY <2>2, <3>1 DEF Recommission
        <3> QED BY <3>2, <3>3
    <2>3. CASE Ignore(d)
        <3>1. PICK r : r = [rows[d] EXCEPT !.ignored = ~rows[d].ignored]
            OBVIOUS
        <3>2. r \in Row /\ r.into = rows[d].into /\ r.client = ClientOf[r.agent]
            BY <1>2, <3>1 DEF Row
        <3>3. rows' = [rows EXCEPT ![d] = r]
            BY <2>3, <3>1 DEF Ignore
        <3> QED BY <3>2, <3>3
    <2>4. CASE Move(d, a)
        <3>1. PICK r : r = [rows[d] EXCEPT !.agent = a, !.client = ClientOf[a]]
            OBVIOUS
        <3>2. r \in Row /\ r.into = rows[d].into /\ r.client = ClientOf[r.agent]
            BY <1>2, <3>1, RegistryAssumption DEF Row
        <3>3. rows' = [rows EXCEPT ![d] = r]
            BY <2>4, <3>1 DEF Move, reassigned
        <3> QED BY <3>2, <3>3
    <2> QED BY <2>1, <2>2, <2>3, <2>4
<1>4. GentleRows
    BY <1>1, <1>3, RowChanged
<1> QED BY <1>1, <1>4, EditCounts, EditStep

LEMMA DeleteChecksStep ==
    ASSUME RegistryInv, NEW d \in Ids, DeleteChecks(d) PROVE RegistryInv'
<1>1. /\ UNCHANGED <<rows, inserted, home, lines, hand, requests, said, late, mixed, unnamed, raced>>
      /\ Edit /\ deleting' = d /\ \A l \in DOMAIN lines : lines[l] # d
    BY DEF DeleteChecks, tables, history
<1>2. GentleRows
    BY <1>1, RowsUntouched
<1>3. RowsOK' /\ RowsAreCoherent' /\ HomeOK'
    BY <1>1, <1>2, GentleCoherent, GentleHome
<1>4. LinesOK'
    BY <1>1 DEF RegistryInv, LinesOK, LinesKeepTheirDevice
<1>5. MiscOK'
    BY <1>1, EditCounts DEF RegistryInv, MiscOK
<1>6. requests' \in Nat /\ requests <= requests'
    BY <1>1, RegistryAssumption DEF RegistryInv, MiscOK
<1>7. StillGood
    BY <1>1, <1>2, <1>6, GentleHand DEF StillGood, RegistryInv, HandsOK
<1>8. HandsOK'
    BY <1>1, <1>7, HandSame DEF RegistryInv
<1> QED BY <1>3, <1>4, <1>5, <1>8 DEF RegistryInv

\* A row that others point to stays, so no link is cut and no line is lost unless it was
\* issued meanwhile.
LEMMA HardDeleteStep == ASSUME RegistryInv, hardDelete PROVE RegistryInv'
<1>1. /\ UNCHANGED <<inserted, hand, requests, said, late, mixed, unnamed, raced, edits>>
      /\ deleting' = None /\ deleting # None
    BY DEF hardDelete, history
<1>2. MiscOK'
    BY <1>1 DEF RegistryInv, MiscOK
<1>3. CASE UNCHANGED <<rows, home, lines>>
    <2>1. GentleRows
        BY <1>1, <1>3, RowsUntouched
    <2>2. RowsOK' /\ RowsAreCoherent' /\ HomeOK'
        BY <1>1, <1>3, <2>1, GentleCoherent, GentleHome
    <2>3. LinesOK'
        BY <1>1, <1>3 DEF RegistryInv, LinesOK, LinesKeepTheirDevice
    <2>4. requests' \in Nat /\ requests <= requests'
        BY <1>1, RegistryAssumption DEF RegistryInv, MiscOK
    <2>5. StillGood
        BY <1>1, <2>1, <2>4, GentleHand DEF StillGood, RegistryInv, HandsOK
    <2>6. HandsOK'
        BY <1>1, <2>5, HandSame DEF RegistryInv
    <2> QED BY <1>2, <2>2, <2>3, <2>6 DEF RegistryInv
<1>4. ASSUME deleting \in DOMAIN rows, ~PointsAt(rows, deleting), rows' = Drop(rows, deleting),
             home' = [n \in Numbers |-> IF home[n] = deleting THEN None ELSE home[n]],
             lines' = [l \in DOMAIN lines |-> IF lines[l] = deleting THEN None ELSE lines[l]]
      PROVE  RegistryInv'
    <2>1. RowsOK /\ RowsAreCoherent /\ HandsOK /\ HomeOK /\ LinesOK
        BY DEF RegistryInv
    <2>2. /\ DOMAIN rows' = DOMAIN rows \ {deleting}
          /\ \A e \in DOMAIN rows' : rows'[e] = rows[e]
        BY <1>4, DropFacts
    <2>3. rows' \in [DOMAIN rows' -> Row]
        BY <1>4, <2>1, <2>2, DropTyped DEF RowsOK
    <2>4. RowsOK'
        BY <1>1, <2>1, <2>2, <2>3 DEF RowsOK
    <2>5. RowsAreCoherent'
        BY <1>4, <2>1, <2>2 DEF RowsAreCoherent, TombstonesPointHome, ClientFollowsAgent, PointsAt
    <2>6. HomeOK'
        <3>1. \A n \in Numbers : home'[n] = IF home[n] = deleting THEN None ELSE home[n]
            BY <1>4
        <3>2. \A n \in Numbers : home'[n] \in DOMAIN rows' \cup {None}
            BY <2>1, <2>2, <3>1 DEF HomeOK
        <3>3. home' \in [Numbers -> DOMAIN rows' \cup {None}]
            BY <1>4, <3>2
        <3>4. LateReadingsOnly'
            BY <1>1, <2>1, <2>2, <3>1 DEF HomeOK, LateReadingsOnly, Live
        <3> QED BY <3>3, <3>4 DEF HomeOK
    <2>7. LinesOK'
        <3>1. /\ DOMAIN lines' = DOMAIN lines
              /\ \A l \in DOMAIN lines : lines'[l] = IF lines[l] = deleting THEN None ELSE lines[l]
            BY <1>4
        <3>2. \A l \in DOMAIN lines' : lines'[l] \in DOMAIN rows' \cup {None}
            BY <2>1, <2>2, <3>1 DEF LinesOK
        <3>3. lines' \in [DOMAIN lines' -> DOMAIN rows' \cup {None}]
            BY <1>4, <3>1, <3>2
        <3>4. LinesKeepTheirDevice'
            BY <1>1, <1>4, <2>1, <3>1 DEF LinesOK, LinesKeepTheirDevice
        <3> QED BY <1>1, <2>1, <3>1, <3>3, <3>4 DEF LinesOK
    <2>8. StillGood
        BY <1>1, <2>1, <2>2 DEF StillGood, HandsOK, GoodHand
    <2>9. HandsOK'
        BY <1>1, <2>1, <2>8, HandSame
    <2> QED BY <1>2, <2>4, <2>5, <2>6, <2>7, <2>9 DEF RegistryInv
<1> QED BY <1>3, <1>4 DEF hardDelete

LEMMA IssueLineStep ==
    ASSUME RegistryInv, NEW l \in Lines, NEW d \in Ids, IssueLine(l, d) PROVE RegistryInv'
<1>1. /\ UNCHANGED <<rows, inserted, home, hand, requests, deleting, said, late, mixed, unnamed, edits>>
      /\ l \notin DOMAIN lines /\ d \in DOMAIN rows /\ lines' = Put(lines, l, d)
      /\ raced' = IF deleting = d THEN raced \cup {l} ELSE raced
    BY DEF IssueLine, Live
<1>2. GentleRows
    BY <1>1, RowsUntouched
<1>3. RowsOK' /\ RowsAreCoherent' /\ HomeOK'
    BY <1>1, <1>2, GentleCoherent, GentleHome
<1>4. LinesOK'
    <2>1. /\ DOMAIN lines' = DOMAIN lines \cup {l}
          /\ lines'[l] = d /\ \A k \in DOMAIN lines : lines'[k] = lines[k]
        BY <1>1 DEF Put
    <2>2. lines' \in [DOMAIN lines' -> DOMAIN rows' \cup {None}]
        BY <1>1, <2>1, PutTyped DEF RegistryInv, LinesOK
    <2>3. d # None
        BY <1>1, RegistryAssumption DEF Ids, None
    <2> QED BY <1>1, <2>1, <2>2, <2>3 DEF RegistryInv, LinesOK, LinesKeepTheirDevice
<1>5. MiscOK'
    BY <1>1 DEF RegistryInv, MiscOK
<1>6. requests' \in Nat /\ requests <= requests'
    BY <1>1, RegistryAssumption DEF RegistryInv, MiscOK
<1>7. StillGood
    BY <1>1, <1>2, <1>6, GentleHand DEF StillGood, RegistryInv, HandsOK
<1>8. HandsOK'
    BY <1>1, <1>7, HandSame DEF RegistryInv
<1> QED BY <1>3, <1>4, <1>5, <1>8 DEF RegistryInv

LEMMA IdleStep == ASSUME RegistryInv, UNCHANGED vars PROVE RegistryInv'
<1>1. UNCHANGED <<rows, inserted, home, lines, hand, requests, deleting, said, late, mixed, unnamed, raced, edits>>
    BY DEF vars, tables, history
<1>2. GentleRows
    BY <1>1, RowsUntouched
<1>3. edits' \in 0 .. MaxEdits
    BY <1>1 DEF RegistryInv, MiscOK
<1> QED BY <1>1, <1>2, <1>3, EditStep DEF history

LEMMA RegistryStep == RegistryInv /\ [Next]_vars => RegistryInv'
<1> SUFFICES ASSUME RegistryInv, [Next]_vars PROVE RegistryInv'
    OBVIOUS
<1>1. ASSUME NEW h \in Handlers, HandlerStep(h) PROVE RegistryInv'
    BY <1>1, TakeStep, RebindStep, WriteStep, ListGhostsStep, MergeGhostStep, CheckRowStep,
       StoreStep DEF HandlerStep
<1>2. CASE PortalStep
    <2>1. ASSUME NEW t \in Ids, NEW s \in Ids, Merge(t, s) PROVE RegistryInv'
        BY <2>1, MergeStep
    <2>2. ASSUME NEW d \in Ids, Decommission(d) \/ Recommission(d) \/ Ignore(d) PROVE RegistryInv'
        <3>1. PICK a \in Agents : TRUE
            BY <2>2 DEF Decommission, Recommission, Ignore, Live, RegistryInv, RowsOK, Row
        <3> QED BY <2>2, <3>1, RowEditStep
    <2>3. ASSUME NEW d \in Ids, DeleteChecks(d) PROVE RegistryInv'
        BY <2>3, DeleteChecksStep
    <2>4. ASSUME NEW d \in Ids, NEW a \in Agents, Move(d, a) PROVE RegistryInv'
        BY <2>4, RowEditStep
    <2>5. ASSUME NEW l \in Lines, NEW d \in Ids, IssueLine(l, d) PROVE RegistryInv'
        BY <2>5, IssueLineStep
    <2> QED BY <1>2, <2>1, <2>2, <2>3, <2>4, <2>5, HardDeleteStep DEF PortalStep
<1> QED BY <1>1, <1>2, IdleStep DEF Next

----------------------------------------------------------------------------
(* Serials.  What matters of a serial is the printer it names, if it names   *)
(* one.  A row changes that only under the one request that has read it and *)
(* not yet written it; that request agrees with what it read, and leaves    *)
(* the row with the serial of both or, recorded, with one that names        *)
(* nobody.  A merge never gives the survivor a name it did not have, since  *)
(* the source, still live, would share it.                                  *)

Name(serial) == IF Identifies(serial) THEN serial ELSE NoSerial

Holds(hd) == hd.at \in {"rebind", "found"}
Agrees(q, row) == ~Identifies(q.serial) \/ ~Identifies(row.serial) \/ row.serial = q.serial

\* What a handler knows of the serial of its row, unless the row is mixed.
SerialHand(hd) ==
    /\ hd.id \in 0 .. inserted
    /\ Holds(hd) => Agrees(hd.q, hd.row)
    /\ Holds(hd) /\ hd.id \in DOMAIN rows \ mixed => Name(rows[hd.id].serial) = Name(hd.row.serial)
    /\ hd.at \in {"written", "folding", "checked"} /\ hd.id \in DOMAIN rows \ (mixed \cup unnamed) =>
           (Identifies(hd.q.serial) => rows[hd.id].serial = hd.q.serial)
SerialHands == \A h \in DOMAIN hand : SerialHand(hand[h])

\* Two requests that hold a row have mixed it.
HeldOnce ==
    \A g, h \in DOMAIN hand :
        Holds(hand[g]) /\ Holds(hand[h]) /\ hand[g].id = hand[h].id /\ hand[g].id \in Ids \ mixed
            => g = h

\* ReadingsStayWithTheirPrinter, also of the tombstones.
SerialHome ==
    \A n \in Numbers :
        home[n] # None /\ home[n] \notin mixed \cup unnamed /\ Identifies(said[n])
            => rows[home[n]].serial = said[n]

SerialInv == SerialsUnique(rows) /\ SerialHands /\ HeldOnce /\ SerialHome

\* A step that renames no printer and inserts no row.
SerialsStay ==
    /\ inserted' = inserted /\ mixed \subseteq mixed' /\ unnamed \subseteq unnamed'
    /\ \A d \in DOMAIN rows' : d \in DOMAIN rows /\ Name(rows'[d].serial) = Name(rows[d].serial)

\* A row that names the printer of a serial goes on naming it.
LEMMA NameStays ==
    ASSUME NEW new, NEW old, Name(new) = Name(old), NEW serial, Identifies(serial), old = serial
    PROVE  new = serial
BY RegistryAssumption DEF Name, Identifies

LEMMA StayHand ==
    ASSUME SerialsStay, NEW hd, SerialHand(hd) PROVE SerialHand(hd)'
BY NameStays DEF SerialsStay, SerialHand

LEMMA StayHome ==
    ASSUME RegistryInv', SerialsStay, SerialHome,
           \A n \in Numbers : home'[n] \in {home[n], None}, said' = said
    PROVE  SerialHome'
<1> SUFFICES ASSUME NEW n \in Numbers,
                    home'[n] # None, home'[n] \notin mixed' \cup unnamed', Identifies(said'[n])
             PROVE  rows'[home'[n]].serial = said'[n]
    BY DEF SerialHome
<1>1. home'[n] = home[n] /\ home'[n] \in DOMAIN rows'
    BY DEF RegistryInv, HomeOK
<1> QED BY <1>1, NameStays DEF SerialsStay, SerialHome

\* Handlers of which none begins to hold a row.
LEMMA StayHands ==
    ASSUME SerialsStay, SerialHands, HeldOnce, DOMAIN hand' \subseteq DOMAIN hand,
           \A h \in DOMAIN hand' : \E hd :
               /\ hand'[h] = hd
               /\ hd = hand[h] \/ SerialHand(hd)'
               /\ Holds(hd) => Holds(hand[h]) /\ hd.id = hand[h].id
    PROVE  SerialHands' /\ HeldOnce'
<1>1. ASSUME NEW h \in DOMAIN hand', NEW x, x = hand'[h] PROVE SerialHand(x)'
    <2>1. CASE x = hand[h]
        <3>1. SerialHand(x)
            BY <2>1 DEF SerialHands
        <3> QED BY <3>1, StayHand
    <2> QED BY <1>1, <2>1
<1>2. SerialHands'
    <2> SUFFICES ASSUME NEW h \in DOMAIN hand' PROVE SerialHand(hand[h])'
        BY DEF SerialHands
    <2> QED BY <1>1
<1>3. \A h \in DOMAIN hand' :
          h \in DOMAIN hand /\ (Holds(hand'[h]) => Holds(hand[h]) /\ hand'[h].id = hand[h].id)
    OBVIOUS
<1>4. HeldOnce'
    BY <1>3 DEF HeldOnce, SerialsStay
<1> QED BY <1>2, <1>4

LEMMA UniqueStays ==
    ASSUME SerialsUnique(rows), NEW table,
           \A d \in DOMAIN table : /\ d \in DOMAIN rows
                                   /\ Name(table[d].serial) = Name(rows[d].serial)
                                   /\ table[d].client = rows[d].client
                                   /\ table[d].into = None => rows[d].into = None
    PROVE  SerialsUnique(table)
BY RegistryAssumption DEF SerialsUnique, Name, Identifies

\* A request that finds a row reads its serial, and mixes the row if another has read it.
LEMMA ResolveSerials ==
    ASSUME RegistryInv, SerialsUnique(rows), NEW h, NEW q \in Request, NEW n, NEW again,
           Resolve(h, q, n, again), inserted' = inserted, unnamed' = unnamed
    PROVE  /\ SerialsStay /\ SerialsUnique(rows')
           /\ \E hd : /\ hand' = Put(hand, h, hd) /\ SerialHand(hd)'
                      /\ Holding(h, hd.id) => hd.id \in mixed' \cup {None}
<1> DEFINE Goal ==
               /\ SerialsStay /\ SerialsUnique(rows')
               /\ \E hd : /\ hand' = Put(hand, h, hd) /\ SerialHand(hd)'
                          /\ Holding(h, hd.id) => hd.id \in mixed' \cup {None}
           found(d, at) == [q |-> q, n |-> n, again |-> again, at |-> at, id |-> d,
                            row |-> rows[d], ghosts |-> {}]
           notFound == [q |-> q, n |-> n, again |-> again, at |-> "found", id |-> None,
                        row |-> NewRow(q), ghosts |-> {}]
<1>0. /\ inserted \in Nat /\ DOMAIN rows \subseteq 1 .. inserted /\ rows \in [DOMAIN rows -> Row]
    BY RegistryAssumption DEF RegistryInv, RowsOK
<1>1. ASSUME NEW d \in DOMAIN rows, NEW at \in {"found", "rebind"}, Agrees(q, rows[d]),
             rows' = rows, hand' = Put(hand, h, found(d, at)),
             mixed' = IF Holding(h, d) THEN mixed \cup {d} ELSE mixed
      PROVE  Goal
    <2>1. SerialsStay
        BY <1>1 DEF SerialsStay
    <2>2. PICK hd : hd = found(d, at)
        OBVIOUS
    <2>3. hd.id = d /\ hd.q = q /\ hd.row = rows[d] /\ hd.at \in {"found", "rebind"}
        BY <2>2
    <2>4. SerialHand(hd)'
        BY <1>0, <1>1, <2>3 DEF SerialHand, Holds
    <2>5. Holding(h, d) => d \in mixed'
        BY <1>1
    <2> HIDE DEF found
    <2> QED BY <1>1, <2>1, <2>2, <2>3, <2>4, <2>5
<1>2. ASSUME SerialsStay, SerialsUnique(rows'), hand' = Put(hand, h, notFound) PROVE Goal
    <2>1. PICK hd : hd = notFound
        OBVIOUS
    <2>2. hd.id = None /\ hd.q = q /\ hd.row = NewRow(q) /\ hd.at = "found"
        BY <2>1
    <2>3. NewRow(q).serial = q.serial
        BY DEF NewRow
    <2>4. None \notin DOMAIN rows'
        BY <1>0, <1>2 DEF SerialsStay, None
    <2>5. SerialHand(hd)'
        BY <1>0, <1>2, <2>2, <2>3, <2>4 DEF SerialHand, Agrees, None, SerialsStay
    <2> HIDE DEF notFound
    <2> QED BY <1>2, <2>1, <2>2, <2>5
<1>3. ASSUME NEW d \in matchBySerial(q)
      PROVE  d \in DOMAIN rows /\ Agrees(q, rows[d])
    BY DEF matchBySerial, Rows, Agrees
<1>4. ASSUME NEW d \in matchByIp(q)
      PROVE  d \in DOMAIN rows /\ (~OtherPrinter(q, d) => Agrees(q, rows[d]))
    BY DEF matchByIp, Rows, Agrees, OtherPrinter
<1>5. ASSUME NEW d \in matchByIp(q), rows' = [rows EXCEPT ![d].ip = NoIp], mixed' = mixed
      PROVE  SerialsStay /\ SerialsUnique(rows')
    <2>1. d \in DOMAIN rows /\ rows[d] \in Row
        BY <1>0, <1>4
    <2>2. PICK r : r = [rows[d] EXCEPT !.ip = NoIp]
        OBVIOUS
    <2>3. r.serial = rows[d].serial /\ r.client = rows[d].client /\ r.into = rows[d].into
        BY <2>1, <2>2 DEF Row
    <2>4. rows' = [rows EXCEPT ![d] = r]
        BY <1>5, <2>2
    <2>5. \A e \in DOMAIN rows' : /\ e \in DOMAIN rows
                                  /\ rows'[e].serial = rows[e].serial
                                  /\ rows'[e].client = rows[e].client
                                  /\ rows'[e].into = None => rows[e].into = None
        BY <2>1, <2>3, <2>4
    <2>6. SerialsUnique(rows')
        BY <2>5, UniqueStays
    <2> QED BY <1>5, <2>5, <2>6 DEF SerialsStay
<1>6. ASSUME rows' = rows, mixed' = mixed PROVE SerialsStay /\ SerialsUnique(rows')
    BY <1>6 DEF SerialsStay
<1>7. \/ \E d \in matchBySerial(q), at \in {"found", "rebind"} :
             /\ rows' = rows /\ hand' = Put(hand, h, found(d, at))
             /\ mixed' = IF Holding(h, d) THEN mixed \cup {d} ELSE mixed
      \/ \E d \in matchByIp(q) :
             /\ ~OtherPrinter(q, d) /\ rows' = rows /\ hand' = Put(hand, h, found(d, "found"))
             /\ mixed' = IF Holding(h, d) THEN mixed \cup {d} ELSE mixed
      \/ \E d \in matchByIp(q) :
             rows' = [rows EXCEPT ![d].ip = NoIp] /\ hand' = Put(hand, h, notFound) /\ mixed' = mixed
      \/ rows' = rows /\ hand' = Put(hand, h, notFound) /\ mixed' = mixed
    BY DEF Resolve
<1> HIDE DEF found, notFound, Goal
<1>8. Goal
    BY <1>1, <1>2, <1>3, <1>4, <1>5, <1>6, <1>7
<1> QED BY <1>8 DEF Goal

LEMMA TakeSerials ==
    ASSUME RegistryInv, RegistryInv', SerialInv, NEW h \in Handlers, Take(h) \/ Retry(h)
    PROVE  SerialInv'
<1>0. PICK q \in Request : \E n, again : Resolve(h, q, n, again)
    BY DEF Take, Retry, RegistryInv, HandsOK, Hand
<1>1. PICK n, again : Resolve(h, q, n, again)
    BY <1>0
<1>2. inserted' = inserted /\ unnamed' = unnamed /\ home' = home /\ said' = said
    BY DEF Take, Retry
<1>3. SerialsStay /\ SerialsUnique(rows')
    BY <1>1, <1>2, ResolveSerials DEF SerialInv
<1>4. PICK hd : /\ hand' = Put(hand, h, hd) /\ SerialHand(hd)'
                /\ Holding(h, hd.id) => hd.id \in mixed' \cup {None}
    BY <1>1, <1>2, ResolveSerials DEF SerialInv
<1>5. /\ DOMAIN hand' = DOMAIN hand \cup {h}
      /\ hand'[h] = hd /\ \A g \in DOMAIN hand \ {h} : hand'[g] = hand[g]
    BY <1>4 DEF Put
<1>6. ASSUME NEW g \in DOMAIN hand', NEW x, x = hand'[g] PROVE SerialHand(x)'
    <2>1. CASE g # h
        <3>1. SerialHand(x)
            BY <1>5, <1>6, <2>1 DEF SerialInv, SerialHands
        <3> QED BY <1>3, <3>1, StayHand
    <2> QED BY <1>4, <1>5, <1>6, <2>1
<1>7. SerialHands'
    <2> SUFFICES ASSUME NEW g \in DOMAIN hand' PROVE SerialHand(hand[g])'
        BY DEF SerialHands
    <2> QED BY <1>6
<1>8. HeldOnce'
    <2> SUFFICES ASSUME NEW f \in DOMAIN hand', NEW g \in DOMAIN hand',
                        Holds(hand'[f]), Holds(hand'[g]), hand'[f].id = hand'[g].id,
                        hand'[f].id \in Ids \ mixed', f # g
                 PROVE  FALSE
        BY DEF HeldOnce
    <2>0. None \notin Ids /\ mixed \subseteq mixed'
        BY <1>3 DEF None, Ids, SerialsStay
    <2>1. CASE f # h /\ g # h
        BY <1>5, <2>0, <2>1 DEF SerialInv, HeldOnce
    <2>2. ASSUME NEW e \in DOMAIN hand \ {h}, Holds(hand[e]), hand[e].id = hd.id PROVE Holding(h, hd.id)
        BY <2>2 DEF Holding, Holds
    <2>3. CASE f = h
        BY <1>4, <1>5, <2>0, <2>2, <2>3
    <2>4. CASE g = h
        BY <1>4, <1>5, <2>0, <2>2, <2>4
    <2> QED BY <2>1, <2>3, <2>4
<1>9. SerialHome'
    BY <1>2, <1>3, StayHome DEF SerialInv
<1> QED BY <1>3, <1>7, <1>8, <1>9 DEF SerialInv

\* The request that alone has read row d writes it, or inserts it: a serial that was
\* known stays, and the row carries the serial of the request.
LEMMA WrittenSerials ==
    ASSUME RegistryInv, RegistryInv', SerialInv, NEW h \in DOMAIN hand, Holds(hand[h]),
           NEW d \in 1 .. inserted', inserted <= inserted',
           mixed' = mixed, unnamed \subseteq unnamed', home' = home, said' = said, SerialsUnique(rows'),
           \A e \in DOMAIN rows' \ {d} : e \in DOMAIN rows /\ rows'[e].serial = rows[e].serial,
           d \in DOMAIN rows \ (mixed \cup unnamed') /\ Identifies(rows[d].serial) =>
               rows'[d].serial = rows[d].serial,
           (d = hand[h].id /\ DOMAIN rows' = DOMAIN rows) \/ d = inserted + 1,
           NEW x, x.at = "written" /\ x.id = d,
           d \in DOMAIN rows' \ unnamed' => (Identifies(x.q.serial) => rows'[d].serial = x.q.serial),
           hand' = Drop(hand, h) \/ hand' = [hand EXCEPT ![h] = x]
    PROVE  SerialInv'
<1>1. /\ DOMAIN hand' \subseteq DOMAIN hand
      /\ \A g \in DOMAIN hand' : g # h => hand'[g] = hand[g]
      /\ h \in DOMAIN hand' => hand'[h] = x
    <2>1. CASE hand' = Drop(hand, h)
        <3>1. /\ DOMAIN hand' = DOMAIN hand \ {h}
              /\ \A g \in DOMAIN hand \ {h} : hand'[g] = hand[g]
            BY <2>1 DEF Drop
        <3> QED BY <3>1
    <2>2. CASE hand' = [hand EXCEPT ![h] = x]
        BY <2>2 DEF RegistryInv, HandsOK
    <2> QED BY <2>1, <2>2
<1>2. /\ inserted \in Nat /\ inserted' \in Nat /\ DOMAIN rows \subseteq 1 .. inserted
      /\ DOMAIN rows' \subseteq 1 .. inserted'
    BY RegistryAssumption DEF RegistryInv, RowsOK
<1>3. \A g \in DOMAIN hand : SerialHand(hand[g])
    BY DEF SerialInv, SerialHands
<1>4. d \in Ids
    BY RegistryAssumption DEF RegistryInv, RowsOK, Ids
<1>5. ASSUME NEW g \in DOMAIN hand', NEW y, y = hand'[g] PROVE SerialHand(y)'
    <2>1. CASE g = h
        BY <1>1, <1>2, <1>5, <2>1 DEF SerialHand, Holds
    <2>2. CASE g # h
        <3>1. y = hand[g] /\ SerialHand(y)
            BY <1>1, <1>3, <1>5, <2>2
        <3>2. y.id \in 0 .. inserted'
            BY <1>2, <3>1 DEF SerialHand
        <3>3. CASE y.id # d
            BY <3>1, <3>2, <3>3 DEF SerialHand
        <3>4. CASE y.id = d
            <4>1. d = hand[h].id /\ DOMAIN rows' = DOMAIN rows
                BY <1>2, <3>1, <3>4 DEF SerialHand
            <4>2. d \notin mixed => ~Holds(y)
                BY <1>1, <1>4, <2>2, <3>1, <3>4, <4>1 DEF SerialInv, HeldOnce
            <4> QED BY <3>1, <3>2, <3>4, <4>1, <4>2 DEF SerialHand
        <3> QED BY <3>3, <3>4
    <2> QED BY <2>1, <2>2
<1>6. SerialHands'
    <2> SUFFICES ASSUME NEW g \in DOMAIN hand' PROVE SerialHand(hand[g])'
        BY DEF SerialHands
    <2> QED BY <1>5
<1>7. HeldOnce'
    BY <1>1 DEF SerialInv, HeldOnce, Holds
<1>8. SerialHome'
    <2> SUFFICES ASSUME NEW n \in Numbers, home[n] # None, home[n] \notin mixed \cup unnamed', Identifies(said[n])
                 PROVE  rows'[home[n]].serial = said[n]
        BY DEF SerialHome
    <2>1. rows[home[n]].serial = said[n]
        BY DEF SerialInv, SerialHome
    <2>2. home[n] \in DOMAIN rows /\ home[n] \in DOMAIN rows'
        BY DEF RegistryInv, HomeOK
    <2> QED BY <2>1, <2>2
<1> QED BY <1>6, <1>7, <1>8 DEF SerialInv

\* Steps of a handler that begins to hold no row, and changes no serial.
LEMMA HandlerSerials ==
    ASSUME RegistryInv, RegistryInv', SerialInv, SerialsStay, SerialsUnique(rows'),
           NEW h \in DOMAIN hand, NEW x, SerialHand(x)',
           Holds(x) => Holds(hand[h]) /\ x.id = hand[h].id,
           hand' = Drop(hand, h) \/ hand' = [hand EXCEPT ![h] = x],
           SerialHome'
    PROVE  SerialInv'
<1>1. /\ DOMAIN hand' \subseteq DOMAIN hand
      /\ \A g \in DOMAIN hand' : g # h => hand'[g] = hand[g]
      /\ h \in DOMAIN hand' => hand'[h] = x
    <2>1. CASE hand' = Drop(hand, h)
        <3>1. /\ DOMAIN hand' = DOMAIN hand \ {h}
              /\ \A g \in DOMAIN hand \ {h} : hand'[g] = hand[g]
            BY <2>1 DEF Drop
        <3> QED BY <3>1
    <2>2. CASE hand' = [hand EXCEPT ![h] = x]
        BY <2>2 DEF RegistryInv, HandsOK
    <2> QED BY <2>1, <2>2
<1>2. \A g \in DOMAIN hand' : \E hd :
          /\ hand'[g] = hd
          /\ hd = hand[g] \/ SerialHand(hd)'
          /\ Holds(hd) => Holds(hand[g]) /\ hd.id = hand[g].id
    BY <1>1
<1>3. SerialHands' /\ HeldOnce'
    BY <1>1, <1>2, StayHands DEF SerialInv
<1> QED BY <1>3 DEF SerialInv

LEMMA FailsSerials ==
    ASSUME RegistryInv, RegistryInv', SerialInv, NEW h \in DOMAIN hand, Fails(h),
           UNCHANGED <<home, said, mixed, unnamed>>
    PROVE  SerialInv'
<1>1. SerialsStay /\ rows' = rows
    BY DEF Fails, SerialsStay
<1>2. SerialHome'
    BY <1>1, StayHome DEF SerialInv
<1>3. PICK x : x = [hand[h] EXCEPT !.at = "retry", !.id = None]
    OBVIOUS
<1>4. x.at = "retry" /\ x.id = None
    BY <1>3 DEF RegistryInv, HandsOK, Hand
<1>5. inserted' \in Nat
    BY RegistryAssumption DEF RegistryInv, RowsOK
<1>6. SerialHand(x)' /\ ~Holds(x)
    BY <1>4, <1>5 DEF SerialHand, Holds, None
<1>7. hand' = Drop(hand, h) \/ hand' = [hand EXCEPT ![h] = x]
    BY <1>3 DEF Fails
<1> QED BY <1>1, <1>2, <1>6, <1>7, HandlerSerials DEF SerialInv

LEMMA RebindSerials ==
    ASSUME RegistryInv, RegistryInv', SerialInv, NEW h \in Handlers, Rebind(h)
    PROVE  SerialInv'
<1>1. /\ h \in DOMAIN hand /\ hand[h].at = "rebind" /\ UNCHANGED <<home, said, mixed, unnamed>>
      /\ hand[h] \in Hand /\ SerialHand(hand[h])
    BY DEF Rebind, history, RegistryInv, HandsOK, SerialInv, SerialHands
<1> DEFINE d == hand[h].id
           moved == IF d \in DOMAIN rows
                    THEN [rows EXCEPT ![d].agent = hand[h].q.agent, ![d].client = hand[h].row.client]
                    ELSE rows
<1>2. CASE Fails(h)
    BY <1>1, <1>2, FailsSerials
<1>3. CASE /\ SerialsUnique(moved) /\ rows' = moved /\ inserted' = inserted
           /\ hand' = [hand EXCEPT ![h].at = "found"]
    <2>1. \A e \in DOMAIN rows' : e \in DOMAIN rows /\ rows'[e].serial = rows[e].serial
        <3>1. CASE d \in DOMAIN rows
            <4>1. PICK r : r = [rows[d] EXCEPT !.agent = hand[h].q.agent, !.client = hand[h].row.client]
                OBVIOUS
            <4>2. rows' = [rows EXCEPT ![d] = r]
                BY <1>3, <3>1, <4>1
            <4>3. r.serial = rows[d].serial /\ rows \in [DOMAIN rows -> Row]
                BY <3>1, <4>1 DEF Row, RegistryInv, RowsOK
            <4> QED BY <4>2, <4>3
        <3>2. CASE d \notin DOMAIN rows
            BY <1>3, <3>2
        <3> QED BY <3>1, <3>2
    <2>2. SerialsStay /\ SerialsUnique(rows')
        BY <1>1, <1>3, <2>1 DEF SerialsStay
    <2>3. PICK x : x = [hand[h] EXCEPT !.at = "found"]
        OBVIOUS
    <2>4. x.at = "found" /\ x.id = hand[h].id /\ x.q = hand[h].q /\ x.row = hand[h].row
        BY <1>1, <2>3 DEF Hand
    <2>5. SerialHand(x) /\ Holds(x) /\ Holds(hand[h])
        BY <1>1, <2>4 DEF SerialHand, Holds
    <2>6. SerialHand(x)'
        BY <2>2, <2>5, StayHand
    <2>7. hand' = [hand EXCEPT ![h] = x]
        BY <1>3, <2>3
    <2>8. SerialHome'
        BY <1>1, <2>2, StayHome DEF SerialInv
    <2> HIDE DEF d, moved
    <2> QED BY <1>1, <2>2, <2>4, <2>5, <2>6, <2>7, <2>8, HandlerSerials
<1> QED BY <1>2, <1>3 DEF Rebind

LEMMA WriteSerials ==
    ASSUME RegistryInv, RegistryInv', SerialInv, NEW h \in Handlers, Write(h)
    PROVE  SerialInv'
<1> DEFINE hd == hand[h]
           d == IF hd.id = None THEN inserted + 1 ELSE hd.id
           written == IF hd.id = None THEN Put(rows, d, hd.row) ELSE updated(hd)
<1>1. /\ h \in DOMAIN hand /\ hd.at = "found" /\ hd \in Hand /\ GoodHand(hd) /\ SerialHand(hd)
      /\ UNCHANGED <<home, said, mixed>>
    BY DEF Write, RegistryInv, HandsOK, SerialInv, SerialHands, history
<1>2. /\ inserted \in Nat /\ DOMAIN rows \subseteq 1 .. inserted /\ rows \in [DOMAIN rows -> Row]
    BY RegistryAssumption DEF RegistryInv, RowsOK
<1>3. \/ /\ rows' = written /\ SerialsUnique(rows')
         /\ inserted' = IF hd.id = None THEN d ELSE inserted
         /\ \/ hand' = Drop(hand, h)
            \/ hand' = [hand EXCEPT ![h].at = "written", ![h].id = d, ![h].row = NewRow(hd.q)]
         /\ hd.row.ignored => hand' = Drop(hand, h)
         /\ unnamed' = IF ~hd.row.ignored /\ LosesSerial(rows', d, hd.q) THEN unnamed \cup {d} ELSE unnamed
      \/ Fails(h) /\ unnamed' = unnamed
    BY DEF Write
<1>4. CASE Fails(h) /\ unnamed' = unnamed
    BY <1>1, <1>4, FailsSerials
<1>5. ASSUME rows' = written, SerialsUnique(rows'),
             inserted' = IF hd.id = None THEN d ELSE inserted,
             \/ hand' = Drop(hand, h)
             \/ hand' = [hand EXCEPT ![h].at = "written", ![h].id = d, ![h].row = NewRow(hd.q)],
             hd.row.ignored => hand' = Drop(hand, h),
             unnamed' = IF ~hd.row.ignored /\ LosesSerial(rows', d, hd.q) THEN unnamed \cup {d} ELSE unnamed
      PROVE  SerialInv'
    <2>1. PICK x : x = [hand[h] EXCEPT !.at = "written", !.id = d, !.row = NewRow(hd.q)]
        OBVIOUS
    <2>2. x.at = "written" /\ x.id = d /\ x.q = hd.q
        BY <1>1, <2>1 DEF Hand
    <2>3. hand' = Drop(hand, h) \/ hand' = [hand EXCEPT ![h] = x]
        BY <1>5, <2>1
    <2>4. Holds(hand[h]) /\ Agrees(hd.q, hd.row)
        BY <1>1 DEF Holds, SerialHand
    <2>5. unnamed \subseteq unnamed'
        BY <1>5
    <2>6. CASE hd.id = None
        <3>1. hd.row = NewRow(hd.q) /\ hd.row.serial = hd.q.serial
            BY <1>1, <2>6 DEF GoodHand, NewRow
        <3>2. d = inserted + 1 /\ inserted' = inserted + 1 /\ rows' = Put(rows, d, hd.row)
            BY <1>5, <2>6
        <3>3. /\ DOMAIN rows' = DOMAIN rows \cup {d}
              /\ rows'[d] = hd.row /\ \A e \in DOMAIN rows \ {d} : rows'[e] = rows[e]
            BY <3>2 DEF Put
        <3>4. d \notin DOMAIN rows /\ d \in 1 .. inserted' /\ inserted <= inserted'
            BY <1>2, <3>2
        <3>5. \A e \in DOMAIN rows' \ {d} : e \in DOMAIN rows /\ rows'[e].serial = rows[e].serial
            BY <3>3
        <3>6. rows'[d].serial = x.q.serial
            BY <2>2, <3>1, <3>3
        <3> HIDE DEF d, hd, written
        <3> QED BY <1>1, <1>5, <2>2, <2>3, <2>4, <2>5, <3>2, <3>4, <3>5, <3>6, WrittenSerials DEF hd
    <2>7. CASE hd.id # None
        <3>1. d = hd.id /\ rows' = updated(hd) /\ inserted' = inserted
            BY <1>5, <2>7
        <3>2. d \in 1 .. inserted'
            BY <1>1, <1>2, <2>7, <3>1 DEF SerialHand, None
        <3>3. CASE d \in DOMAIN rows /\ ~hd.row.ignored
            <4>1. PICK r : r = [rows[d] EXCEPT !.ip = hd.q.ip, !.serial = finalSerial(hd)]
                OBVIOUS
            <4>2. rows' = [rows EXCEPT ![d] = r]
                BY <3>1, <3>3, <4>1 DEF updated
            <4>3. r.serial = finalSerial(hd)
                BY <1>2, <3>3, <4>1 DEF Row
            <4>4. /\ DOMAIN rows' = DOMAIN rows /\ rows'[d].serial = finalSerial(hd)
                  /\ \A e \in DOMAIN rows \ {d} : rows'[e] = rows[e]
                BY <1>2, <3>3, <4>2, <4>3
            <4>5. d \notin mixed => Name(rows[d].serial) = Name(hd.row.serial)
                BY <1>1, <2>4, <3>1, <3>3 DEF SerialHand
            <4>6. Identifies(finalSerial(hd)) =>
                      /\ Identifies(hd.row.serial) => finalSerial(hd) = hd.row.serial
                      /\ Identifies(hd.q.serial) => finalSerial(hd) = hd.q.serial
                BY <1>1, <2>4, RegistryAssumption DEF finalSerial, Agrees, Identifies
            <4>7. ~Identifies(rows'[d].serial) /\ d \notin unnamed' =>
                       ~Identifies(rows[d].serial) /\ ~Identifies(hd.q.serial)
                BY <1>5, <3>3, <4>4 DEF LosesSerial
            <4>8. /\ d \in DOMAIN rows \ (mixed \cup unnamed') /\ Identifies(rows[d].serial) =>
                         rows'[d].serial = rows[d].serial
                  /\ d \notin unnamed' /\ Identifies(x.q.serial) => rows'[d].serial = x.q.serial
                BY <2>2, <4>4, <4>5, <4>6, <4>7, RegistryAssumption DEF Name, Identifies
            <4>9. \A e \in DOMAIN rows' \ {d} : e \in DOMAIN rows /\ rows'[e].serial = rows[e].serial
                BY <4>4
            <4>10. inserted <= inserted'
                BY <1>2, <3>1
            <4> HIDE DEF d, hd, written
            <4> QED BY <1>1, <1>5, <2>2, <2>3, <2>4, <2>5, <3>1, <3>2, <4>4, <4>8, <4>9, <4>10, WrittenSerials DEF hd
        <3>4. CASE d \notin DOMAIN rows
            <4>1. rows' = rows
                BY <3>1, <3>4 DEF updated
            <4>2. inserted <= inserted'
                BY <1>2, <3>1
            <4> HIDE DEF d, hd, written
            <4> QED BY <1>1, <1>5, <2>2, <2>3, <2>4, <2>5, <3>1, <3>2, <3>4, <4>1, <4>2, WrittenSerials DEF hd
        <3>5. CASE d \in DOMAIN rows /\ hd.row.ignored
            <4>1. PICK r : r = [rows[d] EXCEPT !.ip = hd.q.ip]
                OBVIOUS
            <4>2. rows' = [rows EXCEPT ![d] = r]
                BY <3>1, <3>5, <4>1 DEF updated
            <4>3. r.serial = rows[d].serial
                BY <1>2, <3>5, <4>1 DEF Row
            <4>4. DOMAIN rows' = DOMAIN rows /\ \A e \in DOMAIN rows : rows'[e].serial = rows[e].serial
                BY <1>2, <3>5, <4>2, <4>3
            <4>5. hand' = Drop(hand, h)
                BY <1>5, <3>5
            <4>6. SerialsStay
                BY <1>1, <2>5, <3>1, <4>4 DEF SerialsStay
            <4>7. SerialHome'
                BY <1>1, <4>6, StayHome DEF SerialInv
            <4>8. PICK y : y = hd
                OBVIOUS
            <4>9. SerialHand(y)'
                BY <1>1, <4>6, <4>8, StayHand
            <4> HIDE DEF d, written
            <4> QED BY <1>1, <1>5, <4>5, <4>6, <4>7, <4>8, <4>9, HandlerSerials
        <3> QED BY <3>3, <3>4, <3>5
    <2> QED BY <2>6, <2>7
<1> HIDE DEF hd, d, written
<1> QED BY <1>3, <1>4, <1>5

\* A handler that goes on with the row it has written, and one that ends.
LEMMA OnwardSerials ==
    ASSUME RegistryInv, RegistryInv', SerialInv, NEW h \in Handlers,
           ListGhosts(h) \/ CheckRow(h)
    PROVE  SerialInv'
<1>1. /\ h \in DOMAIN hand /\ hand[h] \in Hand /\ SerialHand(hand[h])
      /\ hand[h].at \in {"written", "folding"}
      /\ UNCHANGED <<rows, inserted, home, said, mixed, unnamed>>
    BY DEF ListGhosts, CheckRow, RegistryInv, HandsOK, SerialInv, SerialHands, tables, history
<1>2. SerialsStay /\ SerialHome' /\ SerialsUnique(rows')
    BY <1>1 DEF SerialsStay, SerialInv, SerialHome
<1>3. PICK x : /\ x.at \in {"folding", "checked"} /\ x.id = hand[h].id /\ x.q = hand[h].q
               /\ hand' = Drop(hand, h) \/ hand' = [hand EXCEPT ![h] = x]
    <2>1. CASE ListGhosts(h)
        <3>1. PICK x : x = [hand[h] EXCEPT !.at = "folding", !.ghosts = ghostIdsByIp(hand[h])]
            OBVIOUS
        <3>2. hand' = [hand EXCEPT ![h] = x]
            BY <2>1, <3>1 DEF ListGhosts
        <3> QED BY <1>1, <3>1, <3>2 DEF Hand
    <2>2. CASE CheckRow(h)
        <3>1. PICK x : x = [hand[h] EXCEPT !.at = "checked"]
            OBVIOUS
        <3>2. hand' = Drop(hand, h) \/ hand' = [hand EXCEPT ![h] = x]
            BY <2>2, <3>1 DEF CheckRow
        <3> QED BY <1>1, <3>1, <3>2 DEF Hand
    <2> QED BY <2>1, <2>2
<1>4. SerialHand(x) /\ ~Holds(x)
    BY <1>1, <1>3 DEF SerialHand, Holds
<1>5. SerialHand(x)'
    BY <1>2, <1>4, StayHand
<1> QED BY <1>1, <1>2, <1>3, <1>4, <1>5, HandlerSerials

\* The reading is stored on a row that carries its serial, unless the row is mixed.
LEMMA StoreSerials ==
    ASSUME RegistryInv, RegistryInv', SerialInv, NEW h \in Handlers, Store(h)
    PROVE  SerialInv'
<1>1. /\ h \in DOMAIN hand /\ hand[h] \in Hand /\ SerialHand(hand[h])
      /\ hand[h].at = "checked" /\ hand' = Drop(hand, h)
      /\ UNCHANGED <<rows, inserted, mixed, unnamed>>
    BY DEF Store, RegistryInv, HandsOK, SerialInv, SerialHands
<1>2. SerialsStay /\ SerialsUnique(rows')
    BY <1>1 DEF SerialsStay, SerialInv
<1>3. PICK x : x = hand[h]
    OBVIOUS
<1>4. SerialHand(x)'
    BY <1>1, <1>2, <1>3, StayHand
<1>5. SerialHome'
    <2>1. CASE UNCHANGED <<home, said>>
        BY <1>2, <2>1, StayHome DEF SerialInv
    <2>2. CASE /\ hand[h].id \in DOMAIN rows
               /\ home' = [home EXCEPT ![hand[h].n] = hand[h].id]
               /\ said' = [said EXCEPT ![hand[h].n] = hand[h].q.serial]
        <3> SUFFICES ASSUME NEW m \in Numbers, home'[m] # None, home'[m] \notin mixed \cup unnamed, Identifies(said'[m])
                     PROVE  rows[home'[m]].serial = said'[m]
            BY <1>1 DEF SerialHome
        <3>1. home \in [Numbers -> DOMAIN rows \cup {None}] /\ said \in [Numbers -> SerialNumbers]
            BY DEF RegistryInv, HomeOK, MiscOK
        <3>2. CASE m = hand[h].n
            <4>1. home'[m] = hand[h].id /\ said'[m] = hand[h].q.serial
                BY <2>2, <3>1, <3>2
            <4> QED BY <1>1, <2>2, <4>1 DEF SerialHand
        <3>3. CASE m # hand[h].n
            <4>1. home'[m] = home[m] /\ said'[m] = said[m]
                BY <2>2, <3>1, <3>3
            <4> QED BY <4>1 DEF SerialInv, SerialHome
        <3> QED BY <3>2, <3>3
    <2> QED BY <2>1, <2>2 DEF Store
<1> QED BY <1>1, <1>2, <1>3, <1>4, <1>5, HandlerSerials

\* The survivor of a merge goes on naming its printer: did it name none and the source
\* one, both would carry it while both are live, and the table refuses that.
LEMMA MergeSerials ==
    ASSUME RegistryInv, RegistryInv', SerialInv, NEW t, NEW s, NEW force, NEW onOverlap,
           CanMerge(t, s, force, onOverlap), mergeRows(t, s, onOverlap),
           UNCHANGED <<inserted, said>>
    PROVE  SerialsStay /\ SerialsUnique(rows') /\ SerialHome'
<1>1. /\ t \in DOMAIN rows /\ s \in DOMAIN rows /\ s # t
      /\ rows[s].into = None /\ rows[t].into = None /\ rows[t].client = rows[s].client
      /\ SerialsUnique(survivorUpdated(t, s))
    BY DEF CanMerge, assertMergeGuards
<1>2. RowsOK /\ rows \in [DOMAIN rows -> Row] /\ t # None
    BY <1>1, RegistryAssumption DEF RegistryInv, RowsOK, None
<1>3. ~(~Identifies(rows[t].serial) /\ Identifies(rows[s].serial))
    <2> SUFFICES ASSUME ~Identifies(rows[t].serial), Identifies(rows[s].serial) PROVE FALSE
        OBVIOUS
    <2>1. PICK u : u = survivorUpdated(t, s)
        OBVIOUS
    <2>2. PICK r : r = [rows[t] EXCEPT !.serial = rows[s].serial]
        OBVIOUS
    <2>3. r.serial = rows[s].serial /\ r.client = rows[t].client /\ r.into = rows[t].into
        BY <1>1, <1>2, <2>2 DEF Row
    <2>4. u = [rows EXCEPT ![t] = r]
        BY <2>1, <2>2 DEF survivorUpdated
    <2>5. DOMAIN u = DOMAIN rows /\ u[t] = r /\ u[s] = rows[s]
        BY <1>1, <1>2, <2>4
    <2> QED BY <1>1, <2>1, <2>3, <2>5 DEF SerialsUnique
<1>4. ~KeepsSerial(t, s) => ~Identifies(rows[t].serial) /\ ~Identifies(rows[s].serial)
    BY <1>3 DEF KeepsSerial
<1>5. /\ DOMAIN rows' = DOMAIN rows
      /\ \A d \in DOMAIN rows : /\ Name(rows'[d].serial) = Name(rows[d].serial)
                                /\ rows'[d].client = rows[d].client
                                /\ rows'[d].into = IF d = s \/ rows[d].into = s THEN t ELSE rows[d].into
    BY <1>1, <1>2, <1>4, MergedRows DEF mergeRows, Name
<1>6. SerialsStay
    BY <1>5 DEF SerialsStay, mergeRows
<1>7. SerialsUnique(rows')
    <2>1. \A d \in DOMAIN rows' : rows'[d].into = None => rows[d].into = None
        BY <1>2, <1>5
    <2> QED BY <1>5, <2>1, UniqueStays DEF SerialInv
<1>8. SerialHome'
    <2> SUFFICES ASSUME NEW n \in Numbers, home'[n] # None, home'[n] \notin mixed' \cup unnamed',
                        Identifies(said[n])
                 PROVE  rows[home'[n]].serial = said[n]
        <3>1. \A n \in Numbers : home'[n] # None => home'[n] \in DOMAIN rows
            BY <1>5 DEF RegistryInv, HomeOK
        <3> QED BY <1>5, <3>1, NameStays DEF SerialHome
    <2>1. home'[n] = home[n] \/ (home[n] = s /\ home'[n] = t)
        BY DEF mergeRows, movedReadings
    <2>2. CASE home'[n] = home[n]
        BY <1>6, <2>2 DEF SerialInv, SerialHome, SerialsStay
    <2>3. CASE home[n] = s /\ home'[n] = t
        <3>1. s \notin mixed \cup unnamed /\ ~DifferentPrinters(t, s)
            BY <2>3 DEF mergeRows
        <3>2. rows[s].serial = said[n]
            BY <2>3, <3>1, <1>1, <1>2, RegistryAssumption DEF SerialInv, SerialHome, RowsOK, None
        <3> QED BY <1>3, <2>3, <3>1, <3>2 DEF DifferentPrinters
    <2> QED BY <2>1, <2>2, <2>3
<1> QED BY <1>6, <1>7, <1>8

LEMMA MergeGhostSerials ==
    ASSUME RegistryInv, RegistryInv', SerialInv, NEW h \in Handlers, NEW s, MergeGhost(h, s)
    PROVE  SerialInv'
<1>1. /\ h \in DOMAIN hand /\ hand[h] \in Hand /\ hand[h].at = "folding" /\ SerialHand(hand[h])
      /\ UNCHANGED <<inserted, said>>
    BY DEF MergeGhost, RegistryInv, HandsOK, SerialInv, SerialHands
<1>2. SerialsStay /\ SerialsUnique(rows') /\ SerialHome'
    <2>1. CASE CanMerge(hand[h].id, s, FALSE, "keep_target") /\ mergeRows(hand[h].id, s, "keep_target")
        BY <1>1, <2>1, MergeSerials
    <2>2. CASE UNCHANGED <<rows, home, mixed, unnamed>>
        BY <1>1, <2>2 DEF SerialsStay, SerialInv, SerialHome
    <2> QED BY <2>1, <2>2 DEF MergeGhost
<1>3. PICK x : x = [hand[h] EXCEPT !.ghosts = hand[h].ghosts \ {s}]
    OBVIOUS
<1>4. x.at = "folding" /\ x.id = hand[h].id /\ x.q = hand[h].q
    BY <1>1, <1>3 DEF Hand
<1>5. SerialHand(x) /\ ~Holds(x)
    BY <1>1, <1>4 DEF SerialHand, Holds
<1>6. SerialHand(x)'
    BY <1>2, <1>5, StayHand
<1>7. hand' = [hand EXCEPT ![h] = x]
    BY <1>3 DEF MergeGhost
<1> QED BY <1>1, <1>2, <1>5, <1>6, <1>7, HandlerSerials

\* No operation of the portal touches a handler, and none changes a serial.
LEMMA PortalSerials ==
    ASSUME RegistryInv, SerialInv, SerialsStay, SerialsUnique(rows'), SerialHome', hand' = hand
    PROVE  SerialInv'
<1>1. \A g \in DOMAIN hand' : \E hd :
          /\ hand'[g] = hd
          /\ hd = hand[g] \/ SerialHand(hd)'
          /\ Holds(hd) => Holds(hand[g]) /\ hd.id = hand[g].id
    OBVIOUS
<1>2. SerialHands' /\ HeldOnce'
    BY <1>1, StayHands DEF SerialInv
<1> QED BY <1>2 DEF SerialInv

LEMMA RowEditSerials ==
    ASSUME RegistryInv, RegistryInv', SerialInv, NEW d, NEW a \in Agents,
           Decommission(d) \/ Recommission(d) \/ Ignore(d) \/ Move(d, a)
    PROVE  SerialInv'
<1>1. d \in DOMAIN rows /\ UNCHANGED <<inserted, home, said, mixed, unnamed, hand>>
    BY DEF Decommission, Recommission, Ignore, Move, Live, history
<1>2. rows \in [DOMAIN rows -> Row]
    BY DEF RegistryInv, RowsOK
<1>3. PICK r : /\ rows' = [rows EXCEPT ![d] = r]
               /\ r.into = rows[d].into /\ r.serial = rows[d].serial
               /\ r.client = rows[d].client \/ Move(d, a)
    <2>1. CASE Decommission(d)
        <3>1. PICK r : r = [rows[d] EXCEPT !.out = TRUE]
            OBVIOUS
        <3>2. rows' = [rows EXCEPT ![d] = r]
            BY <2>1, <3>1 DEF Decommission
        <3>3. r.into = rows[d].into /\ r.serial = rows[d].serial /\ r.client = rows[d].client
            BY <1>1, <1>2, <3>1 DEF Row
        <3> QED BY <3>2, <3>3
    <2>2. CASE Recommission(d)
        <3>1. PICK r : r = [rows[d] EXCEPT !.out = FALSE]
            OBVIOUS
        <3>2. rows' = [rows EXCEPT ![d] = r]
            BY <2>2, <3>1 DEF Recommission
        <3>3. r.into = rows[d].into /\ r.serial = rows[d].serial /\ r.client = rows[d].client
            BY <1>1, <1>2, <3>1 DEF Row
        <3> QED BY <3>2, <3>3
    <2>3. CASE Ignore(d)
        <3>1. PICK r : r = [rows[d] EXCEPT !.ignored = ~rows[d].ignored]
            OBVIOUS
        <3>2. rows' = [rows EXCEPT ![d] = r]
            BY <2>3, <3>1 DEF Ignore
        <3>3. r.into = rows[d].into /\ r.serial = rows[d].serial /\ r.client = rows[d].client
            BY <1>1, <1>2, <3>1 DEF Row
        <3> QED BY <3>2, <3>3
    <2>4. CASE Move(d, a)
        <3>1. PICK r : r = [rows[d] EXCEPT !.agent = a, !.client = ClientOf[a]]
            OBVIOUS
        <3>2. rows' = [rows EXCEPT ![d] = r]
            BY <2>4, <3>1 DEF Move, reassigned
        <3>3. r.into = rows[d].into /\ r.serial = rows[d].serial
            BY <1>1, <1>2, <3>1 DEF Row
        <3> QED BY <2>4, <3>2, <3>3
    <2> QED BY <2>1, <2>2, <2>3, <2>4
<1>4. /\ DOMAIN rows' = DOMAIN rows /\ rows'[d] = r
      /\ \A e \in DOMAIN rows \ {d} : rows'[e] = rows[e]
    BY <1>1, <1>2, <1>3
<1>5. SerialsStay
    BY <1>1, <1>3, <1>4 DEF SerialsStay
<1>6. SerialsUnique(rows')
    <2>1. CASE Move(d, a)
        BY <2>1 DEF Move
    <2>2. CASE r.client = rows[d].client
        BY <1>3, <1>4, <2>2, UniqueStays DEF SerialInv
    <2> QED BY <1>3, <2>1, <2>2
<1>7. SerialHome'
    BY <1>1, <1>5, StayHome DEF SerialInv
<1> QED BY <1>1, <1>5, <1>6, <1>7, PortalSerials

LEMMA OtherSerials ==
    ASSUME RegistryInv, RegistryInv', SerialInv,
           \/ \E d \in Ids : DeleteChecks(d)
           \/ hardDelete
           \/ \E l \in Lines, d \in Ids : IssueLine(l, d)
           \/ UNCHANGED vars
    PROVE  SerialInv'
<1>1. UNCHANGED <<inserted, said, mixed, unnamed, hand>>
    BY DEF DeleteChecks, hardDelete, IssueLine, vars, tables, history
<1>2. CASE UNCHANGED <<rows, home>>
    <2>1. SerialsStay /\ SerialsUnique(rows')
        BY <1>1, <1>2 DEF SerialsStay, SerialInv
    <2>2. SerialHome'
        BY <1>1, <1>2, <2>1, StayHome DEF SerialInv
    <2> QED BY <1>1, <2>1, <2>2, PortalSerials
<1>3. CASE /\ rows' = Drop(rows, deleting)
           /\ home' = [n \in Numbers |-> IF home[n] = deleting THEN None ELSE home[n]]
    <2>1. /\ DOMAIN rows' = DOMAIN rows \ {deleting}
          /\ \A e \in DOMAIN rows' : rows'[e] = rows[e]
        BY <1>3 DEF Drop
    <2>2. SerialsStay
        BY <1>1, <2>1 DEF SerialsStay
    <2>3. SerialsUnique(rows')
        BY <2>1, UniqueStays DEF SerialInv
    <2>4. \A n \in Numbers : home'[n] \in {home[n], None}
        BY <1>3
    <2>5. SerialHome'
        BY <1>1, <2>2, <2>4, StayHome DEF SerialInv
    <2> QED BY <1>1, <2>2, <2>3, <2>5, PortalSerials
<1> QED BY <1>2, <1>3 DEF DeleteChecks, hardDelete, IssueLine, vars, tables

LEMMA SerialInit == Init => SerialInv
<1> SUFFICES ASSUME Init PROVE SerialInv
    OBVIOUS
<1>1. \A d, e \in DOMAIN rows : d = e
    BY DEF Init
<1>2. SerialsUnique(rows)
    BY <1>1 DEF SerialsUnique
<1>3. DOMAIN hand = {}
    BY DEF Init
<1>4. SerialHome
    BY DEF Init, SerialHome
<1> QED BY <1>2, <1>3, <1>4 DEF SerialInv, SerialHands, HeldOnce

LEMMA SerialStep == RegistryInv /\ RegistryInv' /\ SerialInv /\ [Next]_vars => SerialInv'
<1> SUFFICES ASSUME RegistryInv, RegistryInv', SerialInv, [Next]_vars PROVE SerialInv'
    OBVIOUS
<1>1. ASSUME NEW h \in Handlers, HandlerStep(h) PROVE SerialInv'
    BY <1>1, TakeSerials, RebindSerials, WriteSerials, OnwardSerials, MergeGhostSerials,
       StoreSerials DEF HandlerStep
<1>2. CASE PortalStep
    <2>1. ASSUME NEW t \in Ids, NEW s \in Ids, Merge(t, s) PROVE SerialInv'
        <3>1. PICK force \in BOOLEAN, onOverlap \in {"abort", "keep_target", "keep_source"} :
                  CanMerge(t, s, force, onOverlap) /\ mergeRows(t, s, onOverlap)
            BY <2>1 DEF Merge
        <3>2. UNCHANGED <<inserted, said, hand>>
            BY <2>1 DEF Merge
        <3>3. SerialsStay /\ SerialsUnique(rows') /\ SerialHome'
            BY <3>1, <3>2, MergeSerials
        <3> QED BY <3>2, <3>3, PortalSerials
    <2>2. ASSUME NEW d \in Ids, Decommission(d) \/ Recommission(d) \/ Ignore(d) PROVE SerialInv'
        <3>1. PICK a \in Agents : TRUE
            BY <2>2 DEF Decommission, Recommission, Ignore, Live, RegistryInv, RowsOK, Row
        <3> QED BY <2>2, <3>1, RowEditSerials
    <2>3. ASSUME NEW d \in Ids, NEW a \in Agents, Move(d, a) PROVE SerialInv'
        BY <2>3, RowEditSerials
    <2> QED BY <1>2, <2>1, <2>2, <2>3, OtherSerials DEF PortalStep
<1> QED BY <1>1, <1>2, OtherSerials DEF Next

----------------------------------------------------------------------------
(* The theorems.                                                           *)

LEMMA RegistryInvariant == Spec => []RegistryInv
BY RegistryInit, RegistryStep, PTL DEF Spec

\* The table, the handlers and the readings keep their shapes, and a reading, a line or
\* a tombstone that names a row names one that exists.
THEOREM DeviceTypeCorrect == Spec => []DeviceTypeOK
BY RegistryInvariant, RegistryInvTypes, PTL

\* Tombstones lead to a live row in one step and rows belong to the client of their
\* agent, through merges of merged rows, rebinds that write back what they had read, moves
\* and deletions (executeIn, maybeRebindAgent, reassignAgent, hardDelete).
THEOREM RowsStayCoherent == Spec => []RowsAreCoherent
<1>1. RegistryInv => RowsAreCoherent
    BY DEF RegistryInv
<1> QED BY <1>1, RegistryInvariant, PTL

\* Only readings at work when their row was merged rest on a tombstone: the merge takes
\* the stored ones along, and later requests find live rows (insertReadings goes by the
\* id found before).
THEOREM OnlyLateReadingsOnTombstones == Spec => []LateReadingsOnly
<1>1. RegistryInv => LateReadingsOnly
    BY DEF RegistryInv, HomeOK
<1> QED BY <1>1, RegistryInvariant, PTL

\* A closure line loses its device only when it was issued between the checks of a
\* deletion and the deletion (DELETE /devices/:id reads without a lock).
THEOREM IssuedLinesKeepTheirDevice == Spec => []LinesKeepTheirDevice
<1>1. RegistryInv => LinesKeepTheirDevice
    BY DEF RegistryInv, LinesOK
<1> QED BY <1>1, RegistryInvariant, PTL

\* A stored reading rests on the row of the identifying serial it was sent with, whatever
\* requests of other agents, rebinds, merges, moves and reused addresses came in between,
\* unless two requests had read the row at once, a merge of different serials was forced, or
\* a write kept or put a placeholder or an address in the place of that serial
\* (resolveDeviceIdentity, upsertExisting, upsertInTransaction, executeIn).
THEOREM ReadingsKeepTheirPrinter == Spec => []ReadingsStayWithTheirPrinter
<1>1. Spec => []SerialInv
    BY SerialInit, SerialStep, RegistryInvariant, PTL DEF Spec
<1>2. SerialInv => ReadingsStayWithTheirPrinter
    BY DEF SerialInv, SerialHome, ReadingsStayWithTheirPrinter
<1> QED BY <1>1, <1>2, PTL

=============================================================================

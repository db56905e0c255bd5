--------------------------- MODULE DeviceRegistry ---------------------------
(***************************************************************************)
(* The `devices` table of the cloud.  Requests of the agents find the row  *)
(* of a printer by its serial or by its address, write it, fold the rows   *)
(* without a serial seen at the same address into it, and only then store  *)
(* the reading under the id they found: each of these is a transaction of  *)
(* its own.  Meanwhile the portal merges duplicates (the loser stays as a  *)
(* tombstone that points to the survivor), retires, moves, ignores and     *)
(* deletes rows, and period closures issue lines about them.               *)
(***************************************************************************)
EXTENDS Naturals, FiniteSets

CONSTANTS
    Agents, Clients,
    ClientOf,       \* agents.client_id
    Serials,        \* serials that identify a printer
    Placeholders,   \* serials that firmware fills in and that identify nobody
    NoSerial,       \* serial_number IS NULL
    Ips, NoIp,
    Handlers,       \* identity groups of requests that run at the same time
    Lines,          \* report_closure_lines
    MaxRows,        \* bound: rows ever inserted
    MaxRequests,    \* bound: readings and device announcements handled
    MaxEdits        \* bound: operations of the portal

ASSUME RegistryAssumption ==
    /\ ClientOf \in [Agents -> Clients]
    /\ NoSerial \notin Serials \cup Placeholders \cup Ips /\ NoIp \notin Ips
    /\ Serials \cap (Placeholders \cup Ips) = {}
    /\ MaxRows \in Nat /\ MaxRequests \in Nat /\ MaxEdits \in Nat

None == 0
Ids == 1 .. MaxRows
\* serial_number is text: an identifying serial, a placeholder, an address or NULL.
SerialNumbers == Serials \cup Placeholders \cup Ips \cup {NoSerial}
Row == [agent : Agents, client : Clients, serial : SerialNumbers,
        ip : Ips \cup {NoIp}, into : Ids \cup {None}, out : BOOLEAN, ignored : BOOLEAN]
\* A request: what the agent says of a printer, and whether it is a reading
\* (/devices/sync) or an announcement (/agents/:id/devices).  A reading's serial that
\* looks like an address is dropped on arrival, an announcement's is not.
Request == {q \in [kind : {"reading", "device"}, agent : Agents, serial : SerialNumbers, ip : Ips] :
               q.serial \in Ips => q.kind = "device" /\ q.serial = q.ip}
Numbers == 1 .. MaxRequests     \* a request's number is also the time of its reading

VARIABLES
    rows,       \* devices: id -> row
    inserted,   \* rows ever inserted
    hand,       \* handlers at work: request, row found (a snapshot, until it is written), ghosts left
    requests,   \* requests taken
    home,       \* readings: device_id of the reading of each request, or None
    lines,      \* report_closure_lines: device_id of each line issued, or None
    deleting,   \* DELETE /devices/:id that has passed its checks
    said,       \* history: the serial each stored reading was sent with
    late,       \* history: readings at work when their row became a tombstone
    mixed,      \* history: rows two requests held at once, or merged by force
    unnamed,    \* history: rows written without the identifying serial they had or were sent
    raced,      \* history: lines issued for a row whose deletion was under way
    edits

tables == <<rows, inserted, home, lines>>
history == <<said, late, mixed, unnamed, raced>>
vars == <<tables, hand, requests, deleting, history, edits>>

\* isIdentifyingSerial.
Identifies(serial) == serial \in Serials

Put(f, x, v) == [y \in DOMAIN f \cup {x} |-> IF y = x THEN v ELSE f[y]]
Drop(f, x) == [y \in DOMAIN f \ {x} |-> f[y]]

NewRow(q) == [agent |-> q.agent, client |-> ClientOf[q.agent], serial |-> q.serial,
              ip |-> q.ip, into |-> None, out |-> FALSE, ignored |-> FALSE]

\* The registry is empty, or holds the row an earlier reading inserted, perhaps
\* retired since.
Init ==
    /\ \/ rows = <<>> /\ inserted = 0
       \/ \E q \in Request, out \in BOOLEAN :
             /\ q.kind = "reading"
             /\ rows = <<[NewRow(q) EXCEPT !.out = out]>> /\ inserted = 1 /\ 1 \in Ids
    /\ hand = <<>> /\ requests = 0
    /\ home = [n \in Numbers |-> None]
    /\ lines = <<>>
    /\ deleting = None
    /\ said = [n \in Numbers |-> NoSerial]
    /\ late = {} /\ mixed = {} /\ unnamed = {} /\ raced = {}
    /\ edits = 0

------------------------------------------------------------------------------
(* The constraints of the table.                                           *)

Live(d) == d \in DOMAIN rows /\ rows[d].into = None

\* devices_client_serial_uniq: one live row per client and identifying serial.
SerialsUnique(table) ==
    \A d, e \in {x \in DOMAIN table : table[x].into = None /\ Identifies(table[x].serial)} :
        table[d].client = table[e].client /\ table[d].serial = table[e].serial => d = e

\* devices_decommission_coherent_check.
RetiredIsLive(table) == \A d \in DOMAIN table : table[d].out => table[d].into = None

\* ON DELETE SET NULL leaves merged_at behind: devices_merge_coherent_check
\* turns the deletion of a row that others were merged into down.
PointsAt(table, d) == \E e \in DOMAIN table : table[e].into = d

------------------------------------------------------------------------------
(* Requests of the agents.                                                 *)

\* Mutant: tombstones are not left out.
rowsEver(client) == {d \in DOMAIN rows : rows[d].client = client}

Rows(client) == {d \in DOMAIN rows : Live(d) /\ rows[d].client = client}

matchBySerial(q) ==
    {d \in Rows(ClientOf[q.agent]) : Identifies(q.serial) /\ rows[d].serial = q.serial}

\* Rows with a serial other than their address come first; among them the last seen, which is not modelled.
matchByIp(q) ==
    LET here == {d \in Rows(ClientOf[q.agent]) : rows[d].agent = q.agent /\ rows[d].ip = q.ip}
        named == {d \in here : rows[d].serial \notin {NoSerial, q.ip}}
    IN IF named # {} THEN named ELSE here

\* Mutant: an address is enough to know a printer.
sameAddress(q, d) == FALSE

OtherPrinter(q, d) ==
    Identifies(q.serial) /\ Identifies(rows[d].serial) /\ rows[d].serial # q.serial

identityLockKey(q) ==
    IF Identifies(q.serial) THEN <<ClientOf[q.agent], q.serial>> ELSE <<q.agent, q.ip>>

\* The advisory lock of an identity: until the match commits, or the write of an
\* announcement, which is in the same transaction.
Locked(q) ==
    \E g \in DOMAIN hand : /\ identityLockKey(hand[g].q) = identityLockKey(q)
                           /\ hand[g].at = "rebind" \/ (hand[g].q.kind = "device" /\ hand[g].at = "found")

\* Another request has read row d and has not written it yet.
Holding(h, d) == \E g \in DOMAIN hand \ {h} : hand[g].id = d /\ hand[g].at \in {"rebind", "found"}

\* resolveDeviceIdentity.  `id` is the row found, None when there is none; `row` the
\* snapshot of it, or the row to insert.
Resolve(h, q, n, again) ==
    LET Found(d, at) ==
            /\ hand' = Put(hand, h, [q |-> q, n |-> n, again |-> again, at |-> at, id |-> d,
                                     row |-> rows[d], ghosts |-> {}])
            /\ mixed' = IF Holding(h, d) THEN mixed \cup {d} ELSE mixed
            /\ UNCHANGED rows
        NotFound ==
            /\ hand' = Put(hand, h, [q |-> q, n |-> n, again |-> again, at |-> "found", id |-> None,
                                     row |-> NewRow(q), ghosts |-> {}])
            /\ UNCHANGED mixed
    IN /\ ~Locked(q)
       /\ \/ \E d \in matchBySerial(q) :
                \/ Found(d, "found")
                \/ rows[d].agent # q.agent /\ Found(d, "rebind")      \* stale and cooled down
          \/ /\ matchBySerial(q) = {}
             /\ \E d \in matchByIp(q) :
                   \/ ~OtherPrinter(q, d) /\ Found(d, "found")
                   \/ /\ OtherPrinter(q, d)
                      /\ rows' = [rows EXCEPT ![d].ip = NoIp]
                      /\ NotFound
          \/ /\ matchBySerial(q) = {} /\ matchByIp(q) = {}
             /\ UNCHANGED rows
             /\ NotFound

Take(h) ==
    /\ h \notin DOMAIN hand /\ requests < MaxRequests
    /\ requests' = requests + 1
    /\ \E q \in Request : Resolve(h, q, requests + 1, FALSE)
    /\ UNCHANGED <<inserted, home, lines, deleting, said, late, unnamed, raced, edits>>

\* registerDevices tries once more after a 23505.
Retry(h) ==
    /\ h \in DOMAIN hand /\ hand[h].at = "retry"
    /\ Resolve(h, hand[h].q, hand[h].n, TRUE)
    /\ UNCHANGED <<inserted, requests, home, lines, deleting, said, late, unnamed, raced, edits>>

\* The statement of handler h failed: the reading is dropped, an announcement is
\* tried once more.
Fails(h) ==
    /\ hand' = IF hand[h].q.kind = "device" /\ ~hand[h].again
                  THEN [hand EXCEPT ![h].at = "retry", ![h].id = None] ELSE Drop(hand, h)
    /\ UNCHANGED <<rows, inserted>>

\* maybeRebindAgent writes back the agent of the request and the client it had read.
Rebind(h) ==
    /\ h \in DOMAIN hand /\ hand[h].at = "rebind"
    /\ LET d == hand[h].id
           moved == IF d \in DOMAIN rows
                       THEN [rows EXCEPT ![d].agent = hand[h].q.agent, ![d].client = hand[h].row.client]
                       ELSE rows
       IN IF SerialsUnique(moved)
             THEN /\ rows' = moved
                  /\ hand' = [hand EXCEPT ![h].at = "found"]
                  /\ UNCHANGED inserted
             ELSE Fails(h)
    /\ UNCHANGED <<requests, home, lines, deleting, history, edits>>

\* resolveExistingDeviceFields keeps any serial but the address once the row has one;
\* registerDevices writes any serial announced.  Both go by the snapshot, and neither
\* asks whether the serial identifies a printer.
finalSerial(hd) ==
    LET keeps == hd.q.kind = "reading" /\ hd.row.serial \notin {NoSerial, hd.q.ip}
    IN IF keeps \/ hd.q.serial = NoSerial THEN hd.row.serial ELSE hd.q.serial

updated(hd) ==
    IF hd.id \notin DOMAIN rows THEN rows
    ELSE IF hd.row.ignored THEN [rows EXCEPT ![hd.id].ip = hd.q.ip]
    ELSE [rows EXCEPT ![hd.id].ip = hd.q.ip, ![hd.id].serial = finalSerial(hd)]

\* The write leaves row d of the table without the identifying serial the row had, or
\* the request was sent with.
LosesSerial(table, d, q) ==
    /\ d \in DOMAIN table /\ ~Identifies(table[d].serial)
    /\ (d \in DOMAIN rows /\ Identifies(rows[d].serial)) \/ Identifies(q.serial)

\* upsertExisting, or insertNew.  The update is by id: it asks neither whether the row
\* still exists nor whether it was merged since.
Write(h) ==
    /\ h \in DOMAIN hand /\ hand[h].at = "found"
    /\ LET hd == hand[h]
           d == IF hd.id = None THEN inserted + 1 ELSE hd.id
           written == IF hd.id = None THEN Put(rows, d, hd.row) ELSE updated(hd)
       IN /\ d \in Ids
          /\ IF SerialsUnique(written)
                THEN /\ rows' = written
                     /\ inserted' = IF hd.id = None THEN d ELSE inserted
                     /\ hand' = IF hd.q.kind = "device" \/ hd.row.ignored THEN Drop(hand, h)
                                ELSE [hand EXCEPT ![h].at = "written", ![h].id = d, ![h].row = NewRow(hd.q)]
                     /\ unnamed' = IF ~hd.row.ignored /\ LosesSerial(written, d, hd.q)
                                      THEN unnamed \cup {d} ELSE unnamed
                ELSE Fails(h) /\ UNCHANGED unnamed
    /\ UNCHANGED <<requests, home, lines, deleting, said, late, mixed, raced, edits>>

ghostIdsByIp(hd) ==
    {g \in DOMAIN rows \ {hd.id} : /\ Live(g) /\ rows[g].agent = hd.q.agent
                                   /\ rows[g].ip = hd.q.ip /\ rows[g].serial \in {NoSerial, hd.q.ip}}

ListGhosts(h) ==
    /\ h \in DOMAIN hand /\ hand[h].at = "written"
    /\ hand' = [hand EXCEPT ![h].at = "folding", ![h].ghosts = ghostIdsByIp(hand[h])]
    /\ UNCHANGED <<tables, requests, deleting, history, edits>>

------------------------------------------------------------------------------
(* Merging.                                                                *)

Readings(d) == {n \in Numbers : home[n] = d}
Least(S) == CHOOSE n \in S : \A m \in S : n <= m
Greatest(S) == CHOOSE n \in S : \A m \in S : m <= n

\* The stretch of time both rows have readings in.
overlap(t, s) ==
    IF Readings(t) = {} \/ Readings(s) = {} THEN {}
    ELSE {n \in Numbers : /\ Least(Readings(t)) <= n /\ Least(Readings(s)) <= n
                          /\ n <= Greatest(Readings(t)) /\ n <= Greatest(Readings(s))}

DifferentPrinters(t, s) ==
    Identifies(rows[t].serial) /\ Identifies(rows[s].serial) /\ rows[t].serial # rows[s].serial

assertMergeGuards(t, s, force) ==
    /\ s \in DOMAIN rows /\ t \in DOMAIN rows /\ s # t
    /\ rows[s].into = None /\ rows[t].into = None
    /\ rows[t].client = rows[s].client
    /\ DifferentPrinters(t, s) => force

\* An identifying serial comes first, and the target's before the source's;
\* updateSurvivor comes before markTombstone.
survivorUpdated(t, s) ==
    LET keeps == Identifies(rows[t].serial) \/ (rows[t].serial # NoSerial /\ ~Identifies(rows[s].serial))
    IN [rows EXCEPT ![t].serial = IF keeps THEN @ ELSE rows[s].serial]

\* Mutant: rows merged into the source earlier keep pointing to it.
keepMergeChain(table, t, s) == table

compressMergeChain(table, t, s) ==
    [d \in DOMAIN table |-> IF table[d].into = s THEN [table[d] EXCEPT !.into = t] ELSE table[d]]

markTombstone(table, t, s) == [table EXCEPT ![s].into = t]

merged(t, s) == markTombstone(compressMergeChain(survivorUpdated(t, s), t, s), t, s)

movedReadings(t, s, onOverlap) ==
    [n \in Numbers |->
        IF home[n] = s THEN IF onOverlap = "keep_target" /\ n \in overlap(t, s) THEN None ELSE t
        ELSE IF home[n] = t /\ onOverlap = "keep_source" /\ n \in overlap(t, s) THEN None
        ELSE home[n]]

\* Whether executeIn commits: its own checks, and those of the table.
CanMerge(t, s, force, onOverlap) ==
    /\ assertMergeGuards(t, s, force)
    /\ onOverlap = "abort" => overlap(t, s) = {}
    /\ SerialsUnique(survivorUpdated(t, s))
    /\ RetiredIsLive(merged(t, s))

\* executeIn: one transaction that holds both rows.
mergeRows(t, s, onOverlap) ==
    /\ rows' = merged(t, s)
    /\ home' = movedReadings(t, s, onOverlap)
    /\ lines' = [l \in DOMAIN lines |-> IF lines[l] = s THEN t ELSE lines[l]]
    /\ late' = late \cup {hand[g].n : g \in {g \in DOMAIN hand : hand[g].id = s}}
    /\ mixed' = IF s \in mixed \/ DifferentPrinters(t, s) THEN mixed \cup {t} ELSE mixed
    /\ unnamed' = IF s \in unnamed THEN unnamed \cup {t} ELSE unnamed

\* Mutant: a ghost is deleted, as before tombstones.
MergeByDelete(h, s) ==
    /\ h \in DOMAIN hand /\ hand[h].at = "folding" /\ s \in hand[h].ghosts
    /\ hand' = [hand EXCEPT ![h].ghosts = @ \ {s}]
    /\ rows' = Drop(rows, s)
    /\ UNCHANGED <<home, lines, late, mixed, unnamed>>
    /\ UNCHANGED <<inserted, requests, deleting, said, raced, edits>>

\* A merge that fails is logged, and the next ghost tried.
MergeGhost(h, s) ==
    /\ h \in DOMAIN hand /\ hand[h].at = "folding" /\ s \in hand[h].ghosts
    /\ hand' = [hand EXCEPT ![h].ghosts = @ \ {s}]
    /\ IF CanMerge(hand[h].id, s, FALSE, "keep_target")
          THEN mergeRows(hand[h].id, s, "keep_target")
          ELSE UNCHANGED <<rows, home, lines, late, mixed, unnamed>>
    /\ UNCHANGED <<inserted, requests, deleting, said, raced, edits>>

\* existingIds: readings of a row that is gone are left out.
CheckRow(h) ==
    /\ h \in DOMAIN hand /\ hand[h].at = "folding" /\ hand[h].ghosts = {}
    /\ hand' = IF hand[h].id \in DOMAIN rows THEN [hand EXCEPT ![h].at = "checked"] ELSE Drop(hand, h)
    /\ UNCHANGED <<tables, requests, deleting, history, edits>>

\* insertReadings; the foreign key refuses a row deleted meanwhile.
Store(h) ==
    /\ h \in DOMAIN hand /\ hand[h].at = "checked"
    /\ LET hd == hand[h]
       IN IF hd.id \in DOMAIN rows
             THEN home' = [home EXCEPT ![hd.n] = hd.id] /\ said' = [said EXCEPT ![hd.n] = hd.q.serial]
             ELSE UNCHANGED <<home, said>>
    /\ hand' = Drop(hand, h)
    /\ UNCHANGED <<rows, inserted, lines, requests, deleting, late, mixed, unnamed, raced, edits>>

------------------------------------------------------------------------------
(* The portal.                                                             *)

Edit == edits < MaxEdits /\ edits' = edits + 1

Merge(t, s) ==
    /\ Edit
    /\ \E force \in BOOLEAN, onOverlap \in {"abort", "keep_target", "keep_source"} :
          /\ CanMerge(t, s, force, onOverlap)
          /\ mergeRows(t, s, onOverlap)
    /\ UNCHANGED <<inserted, hand, requests, deleting, said, raced>>

\* The row is locked; a tombstone is refused, and retiring twice changes nothing.
Decommission(d) ==
    /\ Edit /\ Live(d) /\ ~rows[d].out
    /\ rows' = [rows EXCEPT ![d].out = TRUE]
    /\ UNCHANGED <<inserted, home, lines, hand, requests, deleting, history>>

Recommission(d) ==
    /\ Edit /\ Live(d) /\ rows[d].out
    /\ rows' = [rows EXCEPT ![d].out = FALSE]
    /\ UNCHANGED <<inserted, home, lines, hand, requests, deleting, history>>

\* Ignoring and taking back do not ask whether the row was merged.
Ignore(d) ==
    /\ Edit /\ d \in DOMAIN rows
    /\ rows' = [rows EXCEPT ![d].ignored = ~@]
    /\ UNCHANGED <<inserted, home, lines, hand, requests, deleting, history>>

reassigned(d, a) == [rows EXCEPT ![d].agent = a, ![d].client = ClientOf[a]]

Move(d, a) ==
    /\ Edit /\ Live(d) /\ a # rows[d].agent
    /\ SerialsUnique(reassigned(d, a))
    /\ rows' = reassigned(d, a)
    /\ UNCHANGED <<inserted, home, lines, hand, requests, deleting, history>>

\* DELETE /devices/:id reads its checks without a lock.
DeleteChecks(d) ==
    /\ Edit /\ deleting = None /\ d \in DOMAIN rows
    /\ \A l \in DOMAIN lines : lines[l] # d
    /\ ~PointsAt(rows, d)
    /\ deleting' = d
    /\ UNCHANGED <<tables, hand, requests, history>>

\* Mutant: the table lets merge targets go.
deleteTarget ==
    /\ deleting # None
    /\ deleting' = None
    /\ IF deleting \in DOMAIN rows
          THEN /\ rows' = Drop([d \in DOMAIN rows |-> IF rows[d].into = deleting
                                    THEN [rows[d] EXCEPT !.into = None] ELSE rows[d]], deleting)
               /\ home' = [n \in Numbers |-> IF home[n] = deleting THEN None ELSE home[n]]
               /\ lines' = [l \in DOMAIN lines |-> IF lines[l] = deleting THEN None ELSE lines[l]]
          ELSE UNCHANGED <<rows, home, lines>>
    /\ UNCHANGED <<inserted, hand, requests, history, edits>>

\* hardDelete, whose foreign keys fire at once; the table may still refuse.
hardDelete ==
    /\ deleting # None
    /\ deleting' = None
    /\ IF deleting \in DOMAIN rows /\ ~PointsAt(rows, deleting)
          THEN /\ rows' = Drop(rows, deleting)
               /\ home' = [n \in Numbers |-> IF home[n] = deleting THEN None ELSE home[n]]
               /\ lines' = [l \in DOMAIN lines |-> IF lines[l] = deleting THEN None ELSE lines[l]]
          ELSE UNCHANGED <<rows, home, lines>>
    /\ UNCHANGED <<inserted, hand, requests, history, edits>>

\* A period closure issues a line about a row of the client.
IssueLine(l, d) ==
    /\ l \notin DOMAIN lines /\ Live(d)
    /\ lines' = Put(lines, l, d)
    /\ raced' = IF deleting = d THEN raced \cup {l} ELSE raced
    /\ UNCHANGED <<rows, inserted, home, hand, requests, deleting, said, late, mixed, unnamed, edits>>

------------------------------------------------------------------------------

HandlerStep(h) ==
    \/ Take(h) \/ Retry(h) \/ Rebind(h) \/ Write(h) \/ ListGhosts(h)
    \/ (\E s \in Ids : MergeGhost(h, s)) \/ CheckRow(h) \/ Store(h)

PortalStep ==
    \/ \E t, s \in Ids : Merge(t, s)
    \/ \E d \in Ids : Decommission(d) \/ Recommission(d) \/ Ignore(d) \/ DeleteChecks(d)
    \/ \E d \in Ids, a \in Agents : Move(d, a)
    \/ hardDelete
    \/ \E l \in Lines, d \in Ids : IssueLine(l, d)

Next == (\E h \in Handlers : HandlerStep(h)) \/ PortalStep

Spec == Init /\ [][Next]_vars

------------------------------------------------------------------------------
(* Properties.                                                             *)

Hand == [q : Request, n : Numbers, again : BOOLEAN, id : Ids \cup {None}, row : Row,
         at : {"rebind", "found", "retry", "written", "folding", "checked"}, ghosts : SUBSET Ids]

\* The table, the handlers and the readings have the shapes the code gives them; a
\* reading, a line or a tombstone that names a row names one that exists.
DeviceTypeOK ==
    /\ inserted \in 0 .. MaxRows /\ requests \in 0 .. MaxRequests /\ edits \in 0 .. MaxEdits
    /\ DOMAIN rows \subseteq 1 .. inserted
    /\ \A d \in DOMAIN rows : rows[d] \in Row
    /\ DOMAIN hand \subseteq Handlers
    /\ \A h \in DOMAIN hand : hand[h] \in Hand /\ hand[h].n <= requests
    /\ home \in [Numbers -> DOMAIN rows \cup {None}]
    /\ DOMAIN lines \subseteq Lines
    /\ \A l \in DOMAIN lines : lines[l] \in DOMAIN rows \cup {None}
    /\ deleting \in Ids \cup {None}
    /\ said \in [Numbers -> SerialNumbers]
    /\ late \subseteq Numbers /\ mixed \subseteq Ids /\ unnamed \subseteq Ids /\ raced \subseteq Lines

\* A tombstone leads to its survivor in one step: the row it points to exists and is no
\* tombstone, whatever was merged, deleted or written after it.
TombstonesPointHome ==
    \A d \in DOMAIN rows :
        rows[d].into # None => rows[d].into \in DOMAIN rows /\ rows[rows[d].into].into = None

\* A row belongs to the client of its agent, or two clients see the device at once;
\* also after a rebind that wrote back what it had read before a move.
ClientFollowsAgent == \A d \in DOMAIN rows : rows[d].client = ClientOf[rows[d].agent]

\* The two links of a row, to its survivor and to its client, hold in every state.
RowsAreCoherent == TombstonesPointHome /\ ClientFollowsAgent

\* A merge leaves no reading behind, and no reading taken after it goes to the tombstone:
\* only those at work during the merge may end up there (they are written by id).
LateReadingsOnly ==
    \A n \in Numbers : home[n] # None /\ ~Live(home[n]) => n \in late

\* A reading sent with an identifying serial rests on the live row of that serial,
\* through merges, moves and reused addresses.  Three things may part them, each recorded
\* when it happens: two requests held the row at once or an operator forced the merge of
\* different serials (`mixed`), or a write kept or put a placeholder or an address where
\* the serial was (`unnamed`).
ReadingsStayWithTheirPrinter ==
    \A n \in Numbers :
        home[n] # None /\ Live(home[n]) /\ home[n] \notin mixed \cup unnamed /\ Identifies(said[n])
            => rows[home[n]].serial = said[n]

\* An issued closure line keeps its device: no merge and no deletion takes it away,
\* unless the line was issued between the checks and the deletion.
LinesKeepTheirDevice == \A l \in DOMAIN lines : lines[l] = None => l \in raced

=============================================================================

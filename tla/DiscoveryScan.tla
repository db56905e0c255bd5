---------------------------- MODULE DiscoveryScan ---------------------------
(***************************************************************************)
(* The agent's discovery: a sweep of every declared address that never     *)
(* ends.  The declared ranges are walked in laps, a lap in chunks bounded  *)
(* in addresses and in time, and the position is kept in the scan_state    *)
(* row of SQLite so that a restarted agent resumes the lap.  Meanwhile a   *)
(* heartbeat may replace the ranges, a remote command may ask for the lap  *)
(* to start over, and the process may die in the middle of a chunk.        *)
(***************************************************************************)
EXTENDS Integers, Sequences, FiniteSets, Functions

CONSTANTS
    RangeLists,         \* values of ip_ranges: sequences of [start, end]
    NoFingerprint,      \* fingerprint IS NULL: a freshly installed agent
    NumHosts,           \* length of ip_hosts
    CHUNK_MAX_IPS, CONCURRENCY_LIMIT,
    MaxCrashes,         \* bound: restarts of the agent process
    MaxEdits            \* bound: changes of the ranges and restart commands

ASSUME DiscoveryAssumption ==
    /\ RangeLists \subseteq Seq([start : Nat, end : Nat])
    /\ NoFingerprint \notin RangeLists
    /\ NumHosts \in Nat
    /\ CHUNK_MAX_IPS \in Nat \ {0} /\ CONCURRENCY_LIMIT \in Nat \ {0}
    /\ MaxCrashes \in Nat /\ MaxEdits \in Nat

VARIABLES
    ranges,         \* config.ipRanges
    scanState,      \* the row of scan_state
    phase,          \* what scan() is doing: "idle", "pinned" or "chunk"
    chunk,          \* its locals: ranges, cursor, scanned, plan, taken, probing
    over,           \* the chunk's time budget is spent
    restartPending, \* _restartPending
    scheduled,      \* the TaskScheduler has a timer or a task at work
    pinnedIdx,      \* _pinnedIdx
    pinnedDone,     \* pinned hosts looked at in this opening of a lap
    seen,           \* history: addresses probed since the lap began
    asked,          \* history: a restart was asked for while this scan() ran
    crashes, edits

configVars == <<ranges, crashes, edits>>
vars == <<scanState, phase, chunk, over, restartPending, scheduled, pinnedIdx, pinnedDone,
          seen, asked, configVars>>

----------------------------------------------------------------------------
(* DiscoveryCursor.ts: arithmetic on the declared ranges *)

\* A corrupt range, whose end precedes its start, declares no address.
rangeSize(r) == IF r.end >= r.start THEN r.end - r.start + 1 ELSE 0
\* The addresses declared by the first n ranges.
declaredUpTo(rs) ==
    LET sum[n \in 0 .. Len(rs)] == IF n = 0 THEN 0 ELSE sum[n - 1] + rangeSize(rs[n])
    IN  sum
totalDeclaredIps(rs) == declaredUpTo(rs)[Len(rs)]

CursorAt(idx, off) == [rangeIdx |-> idx, offset |-> off]
CURSOR_START == CursorAt(0, 0)

clamp(rs, cur) ==
    IF cur.rangeIdx >= Len(rs) THEN CURSOR_START
    ELSE IF cur.offset >= rangeSize(rs[cur.rangeIdx + 1])
         THEN CursorAt(cur.rangeIdx + 1, 0) ELSE cur

AtMost(m, n) == IF m <= n THEN m ELSE n

\* Where `count` more addresses lead; past the last one, the start of a new lap.
advanceCursor(rs, cur, count) ==
    LET At(idx, off, left) == [rangeIdx |-> idx, offset |-> off, remaining |-> left]
        walk[at \in [rangeIdx : Nat, offset : Nat, remaining : Nat]] ==
            IF at.rangeIdx >= Len(rs) THEN [next |-> CURSOR_START, lapComplete |-> TRUE]
            ELSE LET available == rangeSize(rs[at.rangeIdx + 1]) - at.offset IN
                 IF available <= 0 THEN walk[At(at.rangeIdx + 1, 0, at.remaining)]
                 ELSE IF at.remaining < available
                 THEN [next |-> CursorAt(at.rangeIdx, at.offset + at.remaining), lapComplete |-> FALSE]
                 ELSE walk[At(at.rangeIdx + 1, 0, at.remaining - available)]
        from == clamp(rs, cur)
    IN  walk[At(from.rangeIdx, from.offset, count)]

\* `count` addresses of a range.
slice(r, offset, count) == [k \in 1 .. count |-> r.start + offset + k - 1]
\* The addresses of the next chunk: at most maxIps, never past the end of the lap.
planChunk(rs, cur, maxIps) ==
    LET At(idx, off, planned) == [rangeIdx |-> idx, offset |-> off, ips |-> planned]
        walk[at \in [rangeIdx : Nat, offset : Nat, ips : Seq(Nat)]] ==
            IF at.rangeIdx >= Len(rs) \/ Len(at.ips) >= maxIps THEN at.ips
            ELSE LET r == rs[at.rangeIdx + 1]
                     take == AtMost(rangeSize(r) - at.offset, maxIps - Len(at.ips))
                 IN  IF at.offset >= rangeSize(r) THEN walk[At(at.rangeIdx + 1, 0, at.ips)]
                     ELSE walk[At(at.rangeIdx, at.offset + take,
                                  at.ips \o slice(r, at.offset, take))]
        from == clamp(rs, cur)
    IN  walk[At(from.rangeIdx, from.offset, <<>>)]

----------------------------------------------------------------------------
(* The row scan_state *)

\* Never scanned: getScanState without a row.
EMPTY_SCAN_STATE ==
    [fingerprint |-> NoFingerprint, cursor |-> CURSOR_START, scanned |-> 0, lapOpen |-> FALSE]

\* Mutant: ON CONFLICT DO UPDATE leaves the position out.
saveOnce(fp, cur, scanned) == [scanState EXCEPT !.fingerprint = fp, !.lapOpen = TRUE]
saveScanCursor(fp, cur, scanned) ==
    [fingerprint |-> fp, cursor |-> cur, scanned |-> scanned, lapOpen |-> TRUE]
recordLapComplete(fp) ==
    [fingerprint |-> fp, cursor |-> CURSOR_START, scanned |-> 0, lapOpen |-> FALSE]
\* Mutant: the old position survives a change of ranges.
resetKeepsCursor(fp) == [scanState EXCEPT !.fingerprint = fp, !.lapOpen = TRUE]
resetScanCursor(fp) == saveScanCursor(fp, CURSOR_START, 0)

isAtLapStart(st) == st.cursor = CURSOR_START /\ st.scanned = 0

\* What the heartbeat reports: nothing of a lap over ranges that are gone.
buildDiscoveryState ==
    LET stale == scanState.fingerprint # ranges
    IN  [in_progress |-> ~stale /\ scanState.lapOpen,
         scanned |-> IF stale THEN 0 ELSE scanState.scanned,
         total |-> totalDeclaredIps(ranges)]

----------------------------------------------------------------------------
(* ScanService *)

NoChunk == [ranges |-> <<>>, cursor |-> CURSOR_START, scanned |-> 0,
            plan |-> <<>>, taken |-> 0, probing |-> {}]
idleLocals == phase' = "idle" /\ chunk' = NoChunk /\ over' = FALSE /\ pinnedDone' = 0 /\ asked' = FALSE

Init ==
    /\ ranges \in RangeLists
    /\ scanState = EMPTY_SCAN_STATE
    /\ phase = "idle" /\ chunk = NoChunk /\ over = FALSE /\ pinnedDone = 0
    /\ restartPending = FALSE /\ scheduled = TRUE /\ pinnedIdx = 0
    /\ seen = {} /\ asked = FALSE
    /\ crashes = 0 /\ edits = 0

\* Mutant: every address of the plan at once.
startAll(c) == chunk' = [c EXCEPT !.taken = Len(c.plan), !.probing = 1 .. Len(c.plan)]
\* The workers of runChunk start together, each with an address of the plan.
startWorkers(c) ==
    LET n == AtMost(CONCURRENCY_LIMIT, Len(c.plan))
    IN  chunk' = [c EXCEPT !.taken = n, !.probing = 1 .. n]

\* Up to the first await of scan().  Under back-pressure scan() returns at once.
ScanStarts ==
    /\ phase = "idle"
    /\ LET changed == scanState.fingerprint # ranges
           st == IF changed THEN resetScanCursor(ranges) ELSE scanState
           opening == isAtLapStart(st)
           c == [NoChunk EXCEPT !.ranges = ranges, !.cursor = st.cursor,
                     !.scanned = st.scanned,
                     !.plan = planChunk(ranges, st.cursor, CHUNK_MAX_IPS)]
       IN  /\ scanState' = IF opening /\ ~st.lapOpen
                           THEN saveScanCursor(ranges, CURSOR_START, 0) ELSE st
           /\ seen' = IF changed THEN {} ELSE seen
           /\ IF opening /\ NumHosts > 0
              THEN phase' = "pinned" /\ chunk' = c
              ELSE phase' = "chunk" /\ startWorkers(c)
    /\ UNCHANGED <<over, restartPending, scheduled, pinnedIdx, pinnedDone, asked, configVars>>

\* The host that is resolved and captured next.
nextHost == (pinnedIdx + pinnedDone) % NumHosts
scanPinnedHost ==
    /\ phase = "pinned" /\ pinnedDone < NumHosts
    /\ pinnedDone' = pinnedDone + 1
    /\ UNCHANGED <<scanState, phase, chunk, over, restartPending, scheduled, pinnedIdx, seen, asked,
                   configVars>>

\* Mutant: every lap begins with the first pinned host.
PinnedFromFirst ==
    /\ phase = "pinned" /\ pinnedDone > 0
    /\ phase' = "chunk" /\ pinnedDone' = 0
    /\ startWorkers(chunk)
    /\ UNCHANGED <<scanState, over, restartPending, scheduled, pinnedIdx, seen, asked,
                   configVars>>
\* All hosts looked at, or PINNED_BUDGET_MS spent: at least one was.
PinnedEnds ==
    /\ phase = "pinned" /\ pinnedDone > 0
    /\ phase' = "chunk" /\ pinnedDone' = 0
    /\ pinnedIdx' = nextHost
    /\ startWorkers(chunk)
    /\ UNCHANGED <<scanState, over, restartPending, scheduled, seen, asked, configVars>>

\* CHUNK_BUDGET_MS is spent: the workers take no new address.
DeadlinePasses ==
    /\ phase = "chunk" /\ ~over
    /\ over' = TRUE
    /\ UNCHANGED <<scanState, phase, chunk, restartPending, scheduled, pinnedIdx, pinnedDone,
                   seen, asked, configVars>>

\* The probe of the i-th address ends; its worker takes the next one.
probeEnds(i) ==
    /\ phase = "chunk" /\ i \in chunk.probing
    /\ seen' = seen \cup {chunk.plan[i]}
    /\ chunk' = IF ~over /\ chunk.taken < Len(chunk.plan)
                THEN [chunk EXCEPT !.taken = @ + 1,
                          !.probing = (@ \ {i}) \cup {chunk.taken + 1}]
                ELSE [chunk EXCEPT !.probing = @ \ {i}]
    /\ UNCHANGED <<scanState, phase, over, restartPending, scheduled, pinnedIdx, pinnedDone, asked, configVars>>

\* Mutant: the chunk counts as consumed whatever its budget let it take.
consumedWhole == Len(chunk.plan)
\* What runChunk answers: the addresses taken, a prefix of the plan.
consumed == chunk.taken

\* After Promise.all: the cursor moves or the lap is recorded, and a restart
\* asked for meanwhile is applied.
ChunkEnds ==
    /\ phase = "chunk" /\ chunk.probing = {}
    /\ LET to == advanceCursor(chunk.ranges, chunk.cursor, consumed)
       IN  /\ scanState' = IF restartPending THEN resetScanCursor(ranges)
                           ELSE IF to.lapComplete THEN recordLapComplete(chunk.ranges)
                           ELSE saveScanCursor(chunk.ranges, to.next, chunk.scanned + consumed)
           /\ seen' = IF restartPending \/ to.lapComplete THEN {} ELSE seen
    /\ pinnedIdx' = IF restartPending THEN 0 ELSE pinnedIdx
    /\ restartPending' = FALSE
    /\ idleLocals
    /\ UNCHANGED <<scheduled, configVars>>

\* Mutant: the reset is not put off, and the running chunk writes over it.
restartAtOnce ==
    /\ edits < MaxEdits /\ edits' = edits + 1
    /\ scanState' = resetScanCursor(ranges) /\ pinnedIdx' = 0 /\ seen' = {}
    /\ UNCHANGED <<phase, chunk, over, pinnedDone, ranges, crashes, restartPending, scheduled>>
    /\ asked' = (phase # "idle")
\* RESTART_DISCOVERY.
restartDiscovery ==
    /\ edits < MaxEdits /\ edits' = edits + 1
    /\ IF phase # "idle"
       THEN restartPending' = TRUE /\ UNCHANGED <<scanState, pinnedIdx, seen>>
       ELSE /\ scanState' = resetScanCursor(ranges) /\ pinnedIdx' = 0 /\ seen' = {}
            /\ UNCHANGED restartPending
    /\ asked' = (phase # "idle")
    /\ UNCHANGED <<phase, chunk, over, pinnedDone, ranges, crashes, scheduled>>

----------------------------------------------------------------------------
(* The environment *)

\* A write of scan_state throws.  The finally clause still applies a restart;
\* if the scheduler started this scan(), run() ends before it reschedules.
ScanThrows ==
    /\ crashes < MaxCrashes /\ crashes' = crashes + 1
    /\ phase = "idle" \/ (phase = "chunk" /\ chunk.probing = {})
    /\ IF restartPending
       THEN scanState' = resetScanCursor(ranges) /\ pinnedIdx' = 0 /\ seen' = {}
       ELSE UNCHANGED <<scanState, pinnedIdx, seen>>
    /\ restartPending' = FALSE
    /\ scheduled' \in {FALSE, scheduled}
    /\ idleLocals
    /\ UNCHANGED <<ranges, edits>>

\* A heartbeat brings other ranges; the configuration object changes in place.
RangesChange ==
    /\ edits < MaxEdits /\ edits' = edits + 1
    /\ ranges' \in RangeLists \ {ranges}
    /\ UNCHANGED <<scanState, phase, chunk, over, restartPending, scheduled, pinnedIdx, pinnedDone,
                   seen, asked, crashes>>

\* Only the rows of SQLite and the configuration file survive.
AgentRestart ==
    /\ crashes < MaxCrashes /\ crashes' = crashes + 1
    /\ idleLocals
    /\ restartPending' = FALSE /\ pinnedIdx' = 0 /\ scheduled' = TRUE
    /\ UNCHANGED <<scanState, seen, ranges, edits>>

Scan == \/ ScanStarts \/ scanPinnedHost \/ PinnedEnds \/ ChunkEnds
        \/ \E i \in 1 .. CHUNK_MAX_IPS : probeEnds(i)
Next == Scan \/ DeadlinePasses \/ restartDiscovery \/ RangesChange \/ ScanThrows \/ AgentRestart

\* The scheduler comes back every five seconds, as long as it lives, and every
\* probe and lookup has a timeout; a command may start a scan() but need not.
\* Nothing says that a budget is, or is not, spent; back-pressure is assumed to
\* go away.
Spec == Init /\ [][Next]_vars /\ WF_vars(Scan /\ (phase = "idle" => scheduled))

----------------------------------------------------------------------------

Declared(rs) == UNION {rs[j].start .. rs[j].end : j \in DOMAIN rs}

DiscoveryTypeOK ==
    /\ ranges \in RangeLists
    /\ scanState.fingerprint \in RangeLists \cup {NoFingerprint}
    /\ scanState.cursor.rangeIdx \in Nat /\ scanState.cursor.offset \in Nat
    /\ scanState.scanned \in Nat /\ scanState.lapOpen \in BOOLEAN
    /\ phase \in {"idle", "pinned", "chunk"}
    /\ chunk.ranges \in RangeLists \cup {<<>>}
    /\ Len(chunk.plan) <= CHUNK_MAX_IPS /\ chunk.taken <= Len(chunk.plan)
    /\ chunk.probing \subseteq 1 .. chunk.taken
    /\ Cardinality(chunk.probing) <= CONCURRENCY_LIMIT
    /\ over \in BOOLEAN /\ restartPending \in BOOLEAN /\ scheduled \in BOOLEAN /\ asked \in BOOLEAN
    /\ pinnedIdx \in Nat /\ pinnedDone \in 0 .. NumHosts
    /\ (phase = "idle" => ~restartPending)
    /\ crashes \in 0 .. MaxCrashes /\ edits \in 0 .. MaxEdits

\* All the addresses of a list of ranges, one after the other: what the cursor
\* arithmetic, which never builds this list, stands for.
Space(rs) ==
    LET listed[n \in 0 .. Len(rs)] ==
            IF n = 0 THEN <<>> ELSE listed[n - 1] \o slice(rs[n], 0, rangeSize(rs[n]))
    IN  listed[Len(rs)]
PositionOf(rs, cur) == declaredUpTo(rs)[cur.rangeIdx] + cur.offset
\* Where a cursor may stand: within a range, just past it, or at the start.
Cursors(rs) ==
    {CURSOR_START} \cup
    UNION {{CursorAt(idx, off) : off \in 0 .. rangeSize(rs[idx + 1])} : idx \in 0 .. Len(rs) - 1}

\* The list holds the declared addresses, as many as the code counts.
SpaceIsDeclared ==
    \A rs \in RangeLists :
        /\ Space(rs) \in Seq(Declared(rs)) /\ Declared(rs) \subseteq Range(Space(rs))
        /\ Len(Space(rs)) = totalDeclaredIps(rs)
        /\ PositionOf(rs, CURSOR_START) = 0

\* advanceCursor and planChunk, which jump from range to range over empty and
\* corrupt ones, agree with counting along the list of all addresses, from
\* every valid cursor and for every chunk size and consumption
\* (DiscoveryCursor.ts: "advancing N positions is O(ranges), never O(IPs)").
CursorArithmetic ==
    \A rs \in RangeLists : \A cur \in Cursors(rs) :
    \A n \in (0 .. totalDeclaredIps(rs)) \cup {CHUNK_MAX_IPS} :
        LET at == PositionOf(rs, cur)
            total == totalDeclaredIps(rs)
            to == advanceCursor(rs, cur, n)
        IN  /\ at \in 0 .. total
            /\ to.lapComplete = (at + n >= total)
            /\ ~to.lapComplete => to.next \in Cursors(rs) /\ PositionOf(rs, to.next) = at + n
            /\ planChunk(rs, cur, n) = SubSeq(Space(rs), at + 1, AtMost(at + n, total))

\* A lap recorded as complete probed every address of the ranges it is recorded
\* for, whatever chunks were cut short, crashes repeated addresses, and ranges
\* or restarts came in between (ScanService.scan, "the cursor never skips IPs").
LapIsWhole ==
    [][scanState.lapOpen /\ ~scanState'.lapOpen
         => Declared(scanState'.fingerprint) \subseteq seen]_vars

\* What the portal is told fits the declared space: the count is the position of
\* the cursor, so that no percentage exceeds 100 after the ranges shrink
\* (buildDiscoveryState: "900/10").
ProgressFits ==
    LET d == buildDiscoveryState
    IN  /\ d.scanned <= d.total
        /\ d.in_progress => d.scanned = PositionOf(ranges, scanState.cursor)

\* The cursor always stands where counting addresses one by one would put it, in
\* what the code computes and in what the portal is told.
CursorIsSound == SpaceIsDeclared /\ CursorArithmetic /\ ProgressFits

\* A restart asked for during a chunk is not overwritten by the position that
\* chunk saves when it ends (ScanService.restartDiscovery).
RestartTakesEffect ==
    [][asked /\ phase' = "idle" /\ crashes' = crashes
         => isAtLapStart(scanState') /\ seen' = {}]_vars

Probing(a) == \E i \in chunk.probing : chunk.plan[i] = a
\* The sweep is continuous: an address that stays declared is probed again and
\* again, whatever the budgets allow each chunk, unless a failed write stopped the
\* scheduler (ScanService.ts:75-80: with its own budget the chunk always takes an
\* address, so the cursor always advances).
DeclaredIsProbed ==
    \A a \in UNION {Declared(rs) : rs \in RangeLists} :
        <>[](scheduled /\ a \in Declared(ranges)) => []<>Probing(a)

\* Every pinned host gets its turn, even if the budget never allows more than
\* one of them per lap (ScanService.scanPinnedHosts: the rotation goes on where
\* the previous lap stopped).
PinnedGetTheirTurn ==
    \A h \in 0 .. NumHosts - 1 :
        <>[]scheduled => []<>(phase = "pinned" /\ pinnedDone < NumHosts /\ nextHost = h)

=============================================================================

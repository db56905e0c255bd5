------------------------ MODULE DiscoveryScanProofs -------------------------
(***************************************************************************)
(* The discovery sweep.  First, what a command asked of it while a chunk   *)
(* runs is not lost: the chunk saves its own position when it ends, so the *)
(* command leaves a flag which the end of scan() obeys, and the flag       *)
(* stands as long as a scan() that was asked is running.  Then the         *)
(* arithmetic of the cursor, which jumps from range to range: it agrees    *)
(* with counting along the list of all addresses.  Last the sweep itself:  *)
(* the row of scan_state, read back after a crash, never claims an address *)
(* that was not probed, so that a lap recorded as complete is one.         *)
(***************************************************************************)
EXTENDS DiscoveryScan, FiniteSetTheorems, SequenceTheorems, WellFoundedInduction, TLAPS

\* The flag a running scan() finds when it ends, and where scan() can be.
RestartInv ==
    /\ phase \in {"idle", "pinned", "chunk"}
    /\ asked => restartPending /\ phase # "idle"
    /\ crashes \in Nat

\* The effect RestartTakesEffect demands of the step that ends scan().
EndsAtStart ==
    asked /\ phase' = "idle" /\ crashes' = crashes
        => isAtLapStart(scanState') /\ seen' = {}

----------------------------------------------------------------------------

\* Nothing of scan_state is left of the old position after a reset.
LEMMA ResetIsAtLapStart ==
    ASSUME NEW fp
    PROVE  isAtLapStart(resetScanCursor(fp))
BY DEF isAtLapStart, resetScanCursor, saveScanCursor

\* The flag is put down before scan() is idle for the next command.
LEMMA RestartInvHolds == Spec => []RestartInv
<1>1. Init => RestartInv
  BY DEF Init, RestartInv
<1>2. RestartInv /\ [Next]_vars => RestartInv'
  <2> SUFFICES ASSUME RestartInv, [Next]_vars PROVE RestartInv' OBVIOUS
  <2> USE DEF RestartInv
  <2>1. CASE ScanStarts BY <2>1 DEF ScanStarts, configVars
  <2>2. CASE scanPinnedHost BY <2>2 DEF scanPinnedHost, configVars
  <2>3. CASE PinnedEnds BY <2>3 DEF PinnedEnds, configVars
  <2>4. CASE ChunkEnds BY <2>4 DEF ChunkEnds, idleLocals, configVars
  <2>5. CASE \E i \in 1 .. CHUNK_MAX_IPS : probeEnds(i)
    BY <2>5 DEF probeEnds, configVars
  <2>6. CASE DeadlinePasses BY <2>6 DEF DeadlinePasses, configVars
  <2>7. CASE restartDiscovery BY <2>7 DEF restartDiscovery
  <2>8. CASE RangesChange BY <2>8 DEF RangesChange
  <2>9. CASE ScanThrows BY <2>9 DEF ScanThrows, idleLocals
  <2>10. CASE AgentRestart BY <2>10 DEF AgentRestart, idleLocals
  <2>11. CASE UNCHANGED vars BY <2>11 DEF vars, configVars
  <2> QED BY <2>1, <2>2, <2>3, <2>4, <2>5, <2>6, <2>7, <2>8, <2>9, <2>10, <2>11 DEF Next, Scan
<1> QED BY <1>1, <1>2, PTL DEF Spec

\* RESTART_DISCOVERY answered while a chunk runs: when that scan() ends, without
\* a failure of its own, the row of scan_state is at the start of a lap, whatever
\* position the chunk computed and however many commands, changed ranges and
\* expired budgets came in between (ScanService.restartDiscovery).
THEOREM RestartIsKept == Spec => RestartTakesEffect
<1>1. RestartInv /\ [Next]_vars => [EndsAtStart]_vars
  <2> SUFFICES ASSUME RestartInv, Next, asked, phase' = "idle", crashes' = crashes
               PROVE  isAtLapStart(scanState') /\ seen' = {}
    BY DEF EndsAtStart
  <2> USE DEF RestartInv
  <2>1. ChunkEnds
    <3>1. ~ScanThrows /\ ~AgentRestart
      <4>1. crashes' # crashes + 1 BY crashes \in Nat, crashes' = crashes
      <4> QED BY <4>1 DEF ScanThrows, AgentRestart
    <3>2. ~ScanStarts /\ ~scanPinnedHost /\ ~PinnedEnds
      BY DEF ScanStarts, scanPinnedHost, PinnedEnds
    <3>3. ~DeadlinePasses /\ ~restartDiscovery /\ ~RangesChange
      BY DEF DeadlinePasses, restartDiscovery, RangesChange
    <3>4. ~ \E i \in 1 .. CHUNK_MAX_IPS : probeEnds(i)
      BY DEF probeEnds
    <3> QED BY <3>1, <3>2, <3>3, <3>4 DEF Next, Scan
  <2>2. scanState' = resetScanCursor(ranges) /\ seen' = {}
    BY <2>1 DEF ChunkEnds
  <2> QED BY <2>2, ResetIsAtLapStart
<1> QED BY <1>1, RestartInvHolds, PTL DEF Spec, RestartTakesEffect, EndsAtStart

----------------------------------------------------------------------------
(* Induction without operators: on sets of numbers. *)

\* A set of numbers has a least one.
LEMMA Least ==
    ASSUME NEW T \in SUBSET Nat, T # {} PROVE \E x \in T : \A y \in T : x <= y
<1> DEFINE R == OpToRel(<, Nat)
<1>1. \A x, y \in Nat : y < x => <<y, x>> \in R
    BY DEF OpToRel
<1>2. IsWellFoundedOn(R, Nat)
    BY NatLessThanWellFounded
<1> HIDE DEF R
<1>3. PICK x \in T : \A y \in T : ~(<<y, x>> \in R)
    BY <1>2, WFMin
<1>4. \A y \in T : ~(y < x)
    BY <1>1, <1>3
<1>5. \A y \in T : x <= y
    BY <1>4
<1> QED BY <1>5

\* What holds of 0, and of n + 1 when of n, holds of every number.
LEMMA Induction ==
    ASSUME NEW S, 0 \in S, \A n \in Nat : n \in S => n + 1 \in S PROVE \A n \in Nat : n \in S
<1> SUFFICES ASSUME Nat \ S # {} PROVE FALSE
    OBVIOUS
<1>1. PICK x \in Nat \ S : \A y \in Nat \ S : x <= y
    BY Least
<1>2. x # 0 /\ x - 1 \in Nat /\ x - 1 \notin Nat \ S
    BY <1>1
<1> QED BY <1>1, <1>2

\* A value and a step define a function of the numbers.
Recurs(V, v, F, g) ==
    g \in [Nat -> V] /\ g[0] = v /\ \A n \in Nat : g[n + 1] = F[n][g[n]]
\* There is such a function.
LEMMA Recursion ==
    ASSUME NEW V, NEW v \in V, NEW F \in [Nat -> [V -> V]] PROVE \E g : Recurs(V, v, F, g)
<1> USE DEF Recurs
<1> DEFINE Upto(n, g) == /\ g \in [0 .. n -> V] /\ g[0] = v
                         /\ \A m \in 0 .. n - 1 : g[m + 1] = F[m][g[m]]
           S == {n \in Nat : \E g : Upto(n, g)}
<1>1. \A n \in Nat : \E g : Upto(n, g)
    <2>1. 0 \in S
        <3>1. Upto(0, [m \in 0 .. 0 |-> v])
            OBVIOUS
        <3> QED BY <3>1
    <2>2. ASSUME NEW n \in Nat, n \in S PROVE n + 1 \in S
        <3>1. PICK g : Upto(n, g)
            BY <2>2
        <3> DEFINE h == [m \in 0 .. n + 1 |-> IF m = n + 1 THEN F[n][g[n]] ELSE g[m]]
        <3>2. n \in 0 .. n /\ g[n] \in V /\ F[n][g[n]] \in V
            BY <3>1
        <3>3. h \in [0 .. n + 1 -> V] /\ h[0] = v
            BY <3>1, <3>2
        <3>4. ASSUME NEW m \in 0 .. (n + 1) - 1 PROVE h[m + 1] = F[m][h[m]]
            <4>1. m \in 0 .. n /\ m \in 0 .. n + 1 /\ m + 1 \in 0 .. n + 1 /\ m # n + 1
                OBVIOUS
            <4>2. h[m] = g[m]
                BY <4>1
            <4>3. CASE m = n
                BY <4>1, <4>2, <4>3
            <4>4. CASE m # n
                <5>1. m \in 0 .. n - 1 /\ m + 1 # n + 1
                    BY <4>1, <4>4
                <5>2. h[m + 1] = g[m + 1] /\ g[m + 1] = F[m][g[m]]
                    BY <3>1, <4>1, <5>1
                <5> QED BY <4>2, <5>2
            <4> QED BY <4>3, <4>4
        <3>5. Upto(n + 1, h)
            BY <3>3, <3>4
        <3> HIDE DEF Upto, h
        <3>6. n + 1 \in Nat
            OBVIOUS
        <3> QED BY <3>5, <3>6
    <2> HIDE DEF S
    <2>3. \A n \in Nat : n \in S
        BY <2>1, <2>2, Induction
    <2> QED BY <2>3 DEF S
<1> DEFINE G == [n \in Nat |-> CHOOSE g : Upto(n, g)]
           val == [n \in Nat |-> G[n][n]]
<1>2. \A n \in Nat : Upto(n, G[n])
    BY <1>1
<1> HIDE DEF G
<1>3. ASSUME NEW n \in Nat PROVE G[n + 1][n] = G[n][n]
    <2> DEFINE T == {m \in Nat : m <= n => G[n + 1][m] = G[n][m]}
    <2>1. Upto(n, G[n]) /\ Upto(n + 1, G[n + 1])
        <3> HIDE DEF Upto
        <3>1. n + 1 \in Nat
            OBVIOUS
        <3> QED BY <1>2, <3>1
    <2>2. 0 \in T
        BY <2>1
    <2>3. ASSUME NEW m \in Nat, m \in T PROVE m + 1 \in T
        <3>1. CASE m + 1 <= n
            <4>1. m \in 0 .. n - 1 /\ m \in 0 .. (n + 1) - 1 /\ m <= n
                BY <3>1
            <4>2. G[n + 1][m + 1] = F[m][G[n + 1][m]] /\ G[n][m + 1] = F[m][G[n][m]]
                BY <2>1, <4>1
            <4> QED BY <2>3, <4>1, <4>2
        <3> QED BY <3>1
    <2> HIDE DEF T
    <2>4. n \in T
        BY <2>2, <2>3, Induction
    <2> QED BY <2>4 DEF T
<1>4. val \in [Nat -> V] /\ val[0] = v
    <2>1. \A n \in Nat : n \in 0 .. n
        OBVIOUS
    <2> QED BY <1>2, <2>1
<1>5. ASSUME NEW n \in Nat PROVE val[n + 1] = F[n][val[n]]
    <2>1. n \in 0 .. (n + 1) - 1 /\ n + 1 \in Nat
        OBVIOUS
    <2>2. G[n + 1][n + 1] = F[n][G[n + 1][n]]
        BY <1>2, <2>1
    <2> QED BY <1>3, <2>1, <2>2
<1> QED BY <1>4, <1>5

----------------------------------------------------------------------------
(* The list of all addresses, which the code never builds. *)

\* The ranges of a list, which may be corrupt: the end may precede the start.
LEMMA RangesType ==
    ASSUME NEW rs \in RangeLists
    PROVE  /\ rs \in Seq([start : Nat, end : Nat]) /\ Len(rs) \in Nat
           /\ \A n \in 1 .. Len(rs) :
                  rs[n].start \in Nat /\ rs[n].end \in Nat /\ rangeSize(rs[n]) \in Nat
<1>1. rs \in Seq([start : Nat, end : Nat])
    BY DiscoveryAssumption
<1>2. \A n \in 1 .. Len(rs) : rs[n] \in [start : Nat, end : Nat]
    BY <1>1, ElementOfSeq
<1>3. \A r \in [start : Nat, end : Nat] :
          r.start \in Nat /\ r.end \in Nat /\ rangeSize(r) \in Nat
    BY DEF rangeSize
<1> QED BY <1>1, <1>2, <1>3

\* The sums of the sizes.
LEMMA UpToFacts ==
    ASSUME NEW rs \in RangeLists
    PROVE  /\ declaredUpTo(rs) \in [0 .. Len(rs) -> Nat]
           /\ declaredUpTo(rs)[0] = 0
           /\ \A n \in 1 .. Len(rs) : declaredUpTo(rs)[n] = declaredUpTo(rs)[n - 1] + rangeSize(rs[n])
<1> DEFINE len == Len(rs)
           Is(f) == f = [n \in 0 .. len |-> IF n = 0 THEN 0 ELSE f[n - 1] + rangeSize(rs[n])]
           F == [n \in Nat |-> [v \in Nat |-> v + (IF n < len THEN rangeSize(rs[n + 1]) ELSE 0)]]
<1>1. len \in Nat /\ \A n \in 1 .. len : rangeSize(rs[n]) \in Nat
    BY RangesType
<1> HIDE DEF len
<1>2. F \in [Nat -> [Nat -> Nat]]
    <2>1. \A n \in Nat : (IF n < len THEN rangeSize(rs[n + 1]) ELSE 0) \in Nat
        BY <1>1
    <2> QED BY <2>1
<1>3. PICK g \in [Nat -> Nat] : g[0] = 0 /\ \A n \in Nat : g[n + 1] = F[n][g[n]]
    <2> HIDE DEF F
    <2>1. 0 \in Nat
        OBVIOUS
    <2>2. \E g : Recurs(Nat, 0, F, g)
        BY <1>2, <2>1, Recursion
    <2> QED BY <2>2 DEF Recurs
<1>4. \A n \in 1 .. len : g[n] = g[n - 1] + rangeSize(rs[n])
    <2> SUFFICES ASSUME NEW n \in 1 .. len PROVE g[n] = g[n - 1] + rangeSize(rs[n])
        OBVIOUS
    <2>1. n - 1 \in Nat /\ (n - 1) + 1 = n /\ n - 1 < len
        BY <1>1
    <2> QED BY <1>3, <2>1
<1> HIDE DEF F
<1>5. Is([n \in 0 .. len |-> g[n]])
    <2>1. \A n \in 0 .. len : n # 0 => n - 1 \in 0 .. len /\ n \in 1 .. len
        BY <1>1
    <2> QED BY <1>3, <1>4, <2>1
<1>6. declaredUpTo(rs) = CHOOSE f : Is(f)
    BY DEF declaredUpTo, len
<1>7. Is(declaredUpTo(rs))
    <2> HIDE DEF Is
    <2> QED BY <1>5, <1>6
<1>8. PICK f : f = declaredUpTo(rs)
    OBVIOUS
<1>9. /\ f = [n \in 0 .. len |-> IF n = 0 THEN 0 ELSE f[n - 1] + rangeSize(rs[n])]
    BY <1>7, <1>8
<1>10. f[0] = 0 /\ \A n \in 1 .. len : f[n] = f[n - 1] + rangeSize(rs[n])
    <2>1. 0 \in 0 .. len /\ \A n \in 1 .. len : n \in 0 .. len /\ n # 0
        BY <1>1
    <2> QED BY <1>9, <2>1
<1>11. \A n \in 0 .. len : f[n] \in Nat
    <2> DEFINE S == {n \in Nat : n <= len => f[n] \in Nat}
    <2>1. 0 \in S
        BY <1>10
    <2>2. ASSUME NEW n \in Nat, n \in S PROVE n + 1 \in S
        <3>1. CASE n + 1 <= len
            <4>1. n + 1 \in 1 .. len /\ (n + 1) - 1 = n /\ f[n] \in Nat
                BY <1>1, <2>2, <3>1
            <4> QED BY <1>1, <1>10, <4>1
        <3> QED BY <3>1
    <2> HIDE DEF S
    <2>3. \A n \in Nat : n \in S
        BY <2>1, <2>2, Induction
    <2> QED BY <1>1, <2>3 DEF S
<1>12. f \in [0 .. len -> Nat]
    BY <1>9, <1>11
<1> QED BY <1>8, <1>10, <1>12 DEF len

\* More ranges declare no fewer addresses.
LEMMA UpToGrows ==
    ASSUME NEW rs \in RangeLists, NEW m \in 0 .. Len(rs), NEW n \in 0 .. Len(rs), m <= n
    PROVE  declaredUpTo(rs)[m] <= declaredUpTo(rs)[n]
<1> DEFINE len == Len(rs)
           up == declaredUpTo(rs)
           S == {k \in Nat : m + k <= len => up[m] <= up[m + k]}
<1>1. /\ len \in Nat /\ up \in [0 .. len -> Nat] /\ m \in Nat
      /\ \A k \in 1 .. len : up[k] = up[k - 1] + rangeSize(rs[k]) /\ rangeSize(rs[k]) \in Nat
    BY RangesType, UpToFacts
<1> HIDE DEF len, up
<1>2. 0 \in S
    <2>1. m <= len => up[m] \in Nat
        BY <1>1
    <2> QED BY <1>1, <2>1
<1>3. ASSUME NEW k \in Nat, k \in S PROVE k + 1 \in S
    <2> SUFFICES ASSUME m + (k + 1) <= len PROVE up[m] <= up[m + (k + 1)]
        OBVIOUS
    <2>1. PICK j \in 1 .. len : j = m + (k + 1) /\ j - 1 = m + k
        BY <1>1
    <2>2. j - 1 \in 0 .. len /\ j \in 0 .. len /\ m \in 0 .. len /\ m + k <= len
        BY <1>1, <2>1
    <2>3. up[m] <= up[j - 1]
        BY <1>3, <2>1, <2>2
    <2>4. /\ up[m] \in Nat /\ up[j - 1] \in Nat /\ rangeSize(rs[j]) \in Nat
          /\ up[j] = up[j - 1] + rangeSize(rs[j])
        BY <1>1, <2>2
    <2> QED BY <2>1, <2>3, <2>4
<1> HIDE DEF S
<1>4. \A k \in Nat : k \in S
    BY <1>2, <1>3, Induction
<1>5. n - m \in Nat /\ m + (n - m) = n /\ n <= len
    BY <1>1 DEF len
<1> QED BY <1>4, <1>5 DEF S, len, up

\* Position t is within the range number i + 1.
Within(rs, i, t) ==
    i \in 0 .. Len(rs) - 1 /\ declaredUpTo(rs)[i] <= t /\ t < declaredUpTo(rs)[i + 1]

\* A position is within one range only: an empty range holds none.
LEMMA WithinOne ==
    ASSUME NEW rs \in RangeLists, NEW t \in Nat, NEW i, NEW j, Within(rs, i, t), Within(rs, j, t)
    PROVE  i = j
<1> DEFINE len == Len(rs)
           up == declaredUpTo(rs)
<1>1. /\ len \in Nat /\ up \in [0 .. len -> Nat]
      /\ i \in 0 .. len - 1 /\ up[i] <= t /\ t < up[i + 1]
      /\ j \in 0 .. len - 1 /\ up[j] <= t /\ t < up[j + 1]
    BY RangesType, UpToFacts DEF Within
<1>2. \A m, n \in 0 .. len : m <= n => up[m] <= up[n]
    BY UpToGrows
<1> HIDE DEF len, up
<1>3. i \in 0 .. len /\ j \in 0 .. len /\ i + 1 \in 0 .. len /\ j + 1 \in 0 .. len
    BY <1>1
<1>4. up[i] \in Nat /\ up[j] \in Nat /\ up[i + 1] \in Nat /\ up[j + 1] \in Nat
    BY <1>1, <1>3
<1>5. ASSUME i < j PROVE FALSE
    <2>1. i + 1 <= j
        BY <1>1, <1>5
    <2>2. up[i + 1] <= up[j]
        BY <1>2, <1>3, <2>1
    <2> QED BY <1>1, <1>4, <2>2
<1>6. ASSUME j < i PROVE FALSE
    <2>1. j + 1 <= i
        BY <1>1, <1>6
    <2>2. up[j + 1] <= up[i]
        BY <1>2, <1>3, <2>1
    <2> QED BY <1>1, <1>4, <2>2
<1> QED BY <1>1, <1>5, <1>6

\* A position before the end of the lap is within some range.
LEMMA WithinSome ==
    ASSUME NEW rs \in RangeLists, NEW t \in Nat, t < totalDeclaredIps(rs)
    PROVE  \E i : Within(rs, i, t)
<1> DEFINE len == Len(rs)
           up == declaredUpTo(rs)
           T == {n \in 0 .. len : t < up[n]}
<1>1. len \in Nat /\ up \in [0 .. len -> Nat] /\ up[0] = 0 /\ t < up[len]
    BY RangesType, UpToFacts DEF totalDeclaredIps
<1> HIDE DEF len, up
<1>2. len \in T /\ T \in SUBSET Nat
    BY <1>1
<1>3. PICK n \in T : \A m \in T : n <= m
    <2> HIDE DEF T
    <2> QED BY <1>2, Least
<1>4. n # 0 /\ n \in 1 .. len
    BY <1>1
<1>5. n - 1 \in 0 .. len /\ n - 1 \in 0 .. len - 1 /\ (n - 1) + 1 = n /\ ~(n <= n - 1)
    BY <1>1, <1>4
<1>6. n - 1 \notin T
    BY <1>3, <1>5
<1>7. up[n - 1] <= t /\ t < up[n]
    <2>1. ~(t < up[n - 1]) /\ up[n - 1] \in Nat
        BY <1>1, <1>5, <1>6
    <2> QED BY <2>1
<1>8. Within(rs, n - 1, t)
    BY <1>5, <1>7 DEF Within, len, up
<1> QED BY <1>8

\* The addresses taken of a range are as many as are asked for, and consecutive.
LEMMA SliceFacts ==
    ASSUME NEW r, r.start \in Nat, NEW offset \in Nat, NEW count \in Nat
    PROVE  /\ slice(r, offset, count) \in Seq(Nat) /\ Len(slice(r, offset, count)) = count
           /\ \A k \in 1 .. count : slice(r, offset, count)[k] = r.start + offset + k - 1
<1> DEFINE e(k) == r.start + offset + k - 1
<1>1. \A k \in 1 .. count : e(k) \in Nat
    OBVIOUS
<1>2. slice(r, offset, count) = [k \in 1 .. count |-> e(k)]
    BY DEF slice
<1>3. slice(r, offset, count) \in [1 .. count -> Nat]
    BY <1>1, <1>2
<1>4. slice(r, offset, count) \in Seq(Nat)
    BY <1>3, SeqDef
<1>5. Len(slice(r, offset, count)) = count
    BY <1>3, <1>4, LenProperties
<1> QED BY <1>2, <1>4, <1>5

\* The first n ranges are listed: as many addresses as are declared, each in its place.
Listed(rs, n, list) ==
    /\ list \in Seq(Nat) /\ Len(list) = declaredUpTo(rs)[n]
    /\ \A i \in 0 .. n - 1 : \A off \in 0 .. rangeSize(rs[i + 1]) - 1 :
           list[declaredUpTo(rs)[i] + off + 1] = rs[i + 1].start + off

\* Space lists all the ranges so.
LEMMA SpaceIsListed == ASSUME NEW rs \in RangeLists PROVE Listed(rs, Len(rs), Space(rs))
<1> DEFINE len == Len(rs)
           up == declaredUpTo(rs)
           block(n) == slice(rs[n], 0, rangeSize(rs[n]))
           Is(f) == f = [n \in 0 .. len |-> IF n = 0 THEN <<>> ELSE f[n - 1] \o block(n)]
           F == [n \in Nat |-> [v \in Seq(Nat) |-> IF n < len THEN v \o block(n + 1) ELSE v]]
<1>1. /\ len \in Nat /\ up \in [0 .. len -> Nat] /\ up[0] = 0
      /\ \A n \in 1 .. len : up[n] = up[n - 1] + rangeSize(rs[n])
      /\ \A n \in 1 .. len : rangeSize(rs[n]) \in Nat /\ rs[n].start \in Nat
    BY RangesType, UpToFacts
<1>2. \A n \in 1 .. len : /\ block(n) \in Seq(Nat) /\ Len(block(n)) = rangeSize(rs[n])
                          /\ \A k \in 1 .. rangeSize(rs[n]) : block(n)[k] = rs[n].start + k - 1
    <2> SUFFICES ASSUME NEW n \in 1 .. len
                 PROVE  /\ block(n) \in Seq(Nat) /\ Len(block(n)) = rangeSize(rs[n])
                        /\ \A k \in 1 .. rangeSize(rs[n]) : block(n)[k] = rs[n].start + k - 1
        OBVIOUS
    <2>1. rs[n].start \in Nat /\ rangeSize(rs[n]) \in Nat /\ 0 \in Nat
        BY <1>1
    <2>2. /\ block(n) \in Seq(Nat) /\ Len(block(n)) = rangeSize(rs[n])
          /\ \A k \in 1 .. rangeSize(rs[n]) : block(n)[k] = rs[n].start + 0 + k - 1
        BY ONLY <2>1, SliceFacts
    <2> HIDE DEF block
    <2> QED BY <2>1, <2>2
<1>3. \A m, n \in 0 .. len : m <= n => up[m] <= up[n]
    BY UpToGrows
<1>4. PICK f : f = [n \in 0 .. len |-> IF n = 0 THEN <<>> ELSE f[n - 1] \o block(n)] /\ Space(rs) = f[len]
    <2> HIDE DEF block
    <2>1. F \in [Nat -> [Seq(Nat) -> Seq(Nat)]]
        <3>1. ASSUME NEW n \in Nat, NEW v \in Seq(Nat)
              PROVE  (IF n < len THEN v \o block(n + 1) ELSE v) \in Seq(Nat)
            <4>1. CASE n < len
                <5>1. n + 1 \in 1 .. len
                    BY <1>1, <4>1
                <5>2. block(n + 1) \in Seq(Nat)
                    BY <1>2, <5>1
                <5> QED BY <4>1, <5>2, ConcatProperties
            <4> QED BY <4>1
        <3> HIDE DEF len
        <3> QED BY <3>1
    <2>2. <<>> \in Seq(Nat)
        OBVIOUS
    <2>3. PICK g : Recurs(Seq(Nat), <<>>, F, g)
        <3> HIDE DEF F
        <3> QED BY <2>1, <2>2, Recursion
    <2>4. g \in [Nat -> Seq(Nat)] /\ g[0] = <<>> /\ \A n \in Nat : g[n + 1] = F[n][g[n]]
        BY <2>3 DEF Recurs
    <2>5. \A n \in 1 .. len : g[n] = g[n - 1] \o block(n)
        <3> SUFFICES ASSUME NEW n \in 1 .. len PROVE g[n] = g[n - 1] \o block(n)
            OBVIOUS
        <3>1. n - 1 \in Nat /\ (n - 1) + 1 = n /\ n - 1 < len
            BY <1>1
        <3> HIDE DEF len
        <3>2. g[n - 1] \in Seq(Nat)
            BY <2>4, <3>1
        <3>3. g[n] = F[n - 1][g[n - 1]]
            BY <2>4, <3>1
        <3> QED BY <3>1, <3>2, <3>3
    <2> HIDE DEF F
    <2>6. Is([n \in 0 .. len |-> g[n]])
        <3>1. \A n \in 0 .. len : n # 0 => n - 1 \in 0 .. len /\ n \in 1 .. len
            BY <1>1
        <3> HIDE DEF len
        <3> QED BY <2>4, <2>5, <3>1
    <2> DEFINE listed == CHOOSE f : Is(f)
    <2>7. Space(rs) = listed[len]
        BY DEF Space, block
    <2>8. Is(listed)
        <3> HIDE DEF Is
        <3> QED BY <2>6
    <2> HIDE DEF listed
    <2> QED BY <2>7, <2>8
<1> HIDE DEF len, up, block
<1>5. f[0] = <<>> /\ \A n \in 1 .. len : f[n] = f[n - 1] \o block(n)
    <2>1. 0 \in 0 .. len /\ \A n \in 1 .. len : n \in 0 .. len /\ n # 0
        BY <1>1
    <2> QED BY <1>4, <2>1
<1> DEFINE S == {n \in Nat : n <= len => Listed(rs, n, f[n])}
<1>6. 0 \in S
    <2>1. f[0] \in Seq(Nat) /\ Len(f[0]) = up[0]
        BY <1>1, <1>5
    <2> QED BY <2>1 DEF Listed, up
<1>7. ASSUME NEW n \in Nat, n \in S PROVE n + 1 \in S
    <2> SUFFICES ASSUME n + 1 <= len PROVE Listed(rs, n + 1, f[n + 1])
        OBVIOUS
    <2>1. n + 1 \in 1 .. len /\ (n + 1) - 1 = n /\ n \in 0 .. len /\ n + 1 \in 0 .. len
        BY <1>1
    <2>2. /\ f[n] \in Seq(Nat) /\ Len(f[n]) = up[n]
          /\ \A i \in 0 .. n - 1 : \A off \in 0 .. rangeSize(rs[i + 1]) - 1 :
                 f[n][up[i] + off + 1] = rs[i + 1].start + off
        BY <1>1, <1>7 DEF Listed, up
    <2>3. f[n + 1] = f[n] \o block(n + 1)
        BY <1>5, <2>1
    <2>4. /\ up[n] \in Nat /\ rangeSize(rs[n + 1]) \in Nat /\ up[n + 1] = up[n] + rangeSize(rs[n + 1])
          /\ rs[n + 1].start \in Nat
          /\ block(n + 1) \in Seq(Nat) /\ Len(block(n + 1)) = rangeSize(rs[n + 1])
          /\ \A k \in 1 .. rangeSize(rs[n + 1]) : block(n + 1)[k] = rs[n + 1].start + k - 1
        BY <1>1, <1>2, <2>1
    <2>5. /\ f[n + 1] \in Seq(Nat) /\ Len(f[n + 1]) = up[n + 1]
          /\ \A k \in 1 .. up[n + 1] :
                 f[n + 1][k] = IF k <= up[n] THEN f[n][k] ELSE block(n + 1)[k - up[n]]
        <3>1. /\ f[n] \o block(n + 1) \in Seq(Nat)
              /\ Len(f[n] \o block(n + 1)) = Len(f[n]) + Len(block(n + 1))
              /\ \A k \in 1 .. Len(f[n]) + Len(block(n + 1)) :
                     (f[n] \o block(n + 1))[k] =
                         IF k <= Len(f[n]) THEN f[n][k] ELSE block(n + 1)[k - Len(f[n])]
            BY ONLY <2>2, <2>4, ConcatProperties
        <3> QED BY ONLY <2>2, <2>3, <2>4, <3>1
    <2>6. ASSUME NEW i \in 0 .. (n + 1) - 1, NEW off \in 0 .. rangeSize(rs[i + 1]) - 1
          PROVE  f[n + 1][up[i] + off + 1] = rs[i + 1].start + off
        <3>1. i + 1 \in 1 .. len /\ i \in 0 .. len /\ i + 1 \in 0 .. len /\ i <= n /\ (i + 1) - 1 = i
            BY <1>1, <2>1
        <3>2. up[i] \in Nat /\ up[i + 1] = up[i] + rangeSize(rs[i + 1]) /\ rangeSize(rs[i + 1]) \in Nat
            BY <1>1, <3>1
        <3>3. PICK k \in Nat : k = up[i] + off + 1 /\ 1 <= k /\ k <= up[i + 1]
            BY <3>2
        <3>4. up[i + 1] <= up[n + 1] /\ up[i + 1] \in Nat /\ up[n + 1] \in Nat
            <4>1. up \in [0 .. len -> Nat] /\ n + 1 \in 0 .. len /\ i + 1 <= n + 1
                BY <1>1, <2>1, <3>1
            <4> QED BY ONLY <1>3, <3>1, <4>1
        <3>5. k \in 1 .. up[n + 1]
            BY <3>3, <3>4
        <3>6. CASE i < n
            <4>1. up[i + 1] <= up[n] /\ i \in 0 .. n - 1
                BY <1>3, <2>1, <3>1, <3>6
            <4>2. k <= up[n]
                BY <2>4, <3>3, <3>4, <4>1
            <4>3. f[n][k] = rs[i + 1].start + off
                BY <2>2, <3>3, <4>1
            <4> QED BY <2>5, <3>3, <3>5, <4>2, <4>3
        <3>7. CASE i = n
            <4>1. ~(k <= up[n]) /\ k - up[n] = off + 1 /\ off + 1 \in 1 .. rangeSize(rs[n + 1])
                <5>1. PICK u, size : u = up[n] /\ size = rangeSize(rs[n + 1])
                    OBVIOUS
                <5>2. u \in Nat /\ size \in Nat /\ off \in 0 .. size - 1 /\ k = u + off + 1
                    BY <2>4, <3>3, <3>7, <5>1
                <5>3. ~(k <= u) /\ k - u = off + 1 /\ off + 1 \in 1 .. size
                    BY ONLY <5>2
                <5> QED BY ONLY <5>1, <5>3
            <4>2. block(n + 1)[off + 1] = rs[n + 1].start + off
                <5>1. block(n + 1)[off + 1] = rs[n + 1].start + (off + 1) - 1
                    BY ONLY <2>4, <4>1
                <5>2. PICK s : s = rs[n + 1].start
                    OBVIOUS
                <5>3. s + (off + 1) - 1 = s + off
                    BY <2>4, <5>2
                <5> QED BY ONLY <5>1, <5>2, <5>3
            <4> QED BY <2>5, <3>3, <3>5, <3>7, <4>1, <4>2
        <3> QED BY <3>1, <3>6, <3>7
    <2> QED BY <2>5, <2>6 DEF Listed, up
<1> HIDE DEF S
<1>8. len \in S
    BY <1>1, <1>6, <1>7, Induction
<1> QED BY <1>1, <1>4, <1>8 DEF S, len

\* The list holds what is declared, and nothing else.
LEMMA SpaceIsRight == SpaceIsDeclared
<1> SUFFICES ASSUME NEW rs \in RangeLists
             PROVE  /\ Space(rs) \in Seq(Declared(rs)) /\ Declared(rs) \subseteq Range(Space(rs))
                    /\ Len(Space(rs)) = totalDeclaredIps(rs)
                    /\ PositionOf(rs, CURSOR_START) = 0
    BY DEF SpaceIsDeclared
<1> DEFINE len == Len(rs)
           up == declaredUpTo(rs)
           sp == Space(rs)
<1>1. /\ len \in Nat /\ up \in [0 .. len -> Nat] /\ up[0] = 0
      /\ \A n \in 1 .. len : up[n] = up[n - 1] + rangeSize(rs[n])
      /\ \A n \in 1 .. len : rangeSize(rs[n]) \in Nat /\ rs[n].start \in Nat /\ rs[n].end \in Nat
    BY RangesType, UpToFacts
<1>2. /\ sp \in Seq(Nat) /\ Len(sp) = up[len]
      /\ \A i \in 0 .. len - 1 : \A off \in 0 .. rangeSize(rs[i + 1]) - 1 :
             sp[up[i] + off + 1] = rs[i + 1].start + off
    BY SpaceIsListed DEF Listed
<1>3. Declared(rs) = UNION {rs[j].start .. rs[j].end : j \in 1 .. len}
    <2>1. DOMAIN rs = 1 .. len
        BY RangesType, LenProperties
    <2> QED BY <2>1 DEF Declared
<1>4. \A n \in 1 .. len :
          rangeSize(rs[n]) = IF rs[n].end >= rs[n].start THEN rs[n].end - rs[n].start + 1 ELSE 0
    BY DEF rangeSize
<1>5. \A t \in Nat : t < up[len] => \E i : Within(rs, i, t)
    BY WithinSome DEF totalDeclaredIps
<1>6. \A i, t : Within(rs, i, t) <=> i \in 0 .. len - 1 /\ up[i] <= t /\ t < up[i + 1]
    BY DEF Within
<1> HIDE DEF len, up, sp
<1>7. ASSUME NEW k \in 1 .. Len(sp) PROVE sp[k] \in Declared(rs)
    <2>1. k - 1 \in Nat /\ k - 1 < up[len]
        BY <1>1, <1>2
    <2>2. PICK i \in 0 .. len - 1 : up[i] <= k - 1 /\ k - 1 < up[i + 1]
        BY <1>5, <1>6, <2>1
    <2>3. i + 1 \in 1 .. len /\ i \in 0 .. len /\ (i + 1) - 1 = i
        BY <1>1
    <2>4. up[i] \in Nat /\ up[i + 1] = up[i] + rangeSize(rs[i + 1]) /\ rangeSize(rs[i + 1]) \in Nat
          /\ rs[i + 1].start \in Nat /\ rs[i + 1].end \in Nat
        BY <1>1, <2>3
    <2>5. PICK off \in 0 .. rangeSize(rs[i + 1]) - 1 : up[i] + off + 1 = k
        <3>1. (k - 1) - up[i] \in 0 .. rangeSize(rs[i + 1]) - 1 /\ up[i] + ((k - 1) - up[i]) + 1 = k
            BY <2>2, <2>4
        <3> QED BY <3>1
    <2>6. sp[k] = rs[i + 1].start + off
        BY <1>2, <2>5
    <2>7. rs[i + 1].start + off \in rs[i + 1].start .. rs[i + 1].end
        <3>1. rangeSize(rs[i + 1]) =
                  IF rs[i + 1].end >= rs[i + 1].start THEN rs[i + 1].end - rs[i + 1].start + 1 ELSE 0
            BY <1>4, <2>3
        <3>2. PICK s, e, z : s = rs[i + 1].start /\ e = rs[i + 1].end /\ z = rangeSize(rs[i + 1])
            OBVIOUS
        <3>3. s \in Nat /\ e \in Nat /\ z \in Nat /\ off \in 0 .. z - 1
              /\ z = IF e >= s THEN e - s + 1 ELSE 0
            BY <2>4, <3>1, <3>2
        <3>4. s + off \in s .. e
            BY ONLY <3>3
        <3> QED BY <3>2, <3>4
    <2> QED BY <1>3, <2>3, <2>6, <2>7
<1>8. sp \in Seq(Declared(rs))
    <2>1. sp \in [1 .. Len(sp) -> Declared(rs)] /\ Len(sp) \in Nat
        BY <1>2, <1>7, LenProperties
    <2> QED BY <2>1, SeqDef
<1>9. ASSUME NEW j \in 1 .. len, NEW a \in rs[j].start .. rs[j].end PROVE a \in Range(sp)
    <2>1. j - 1 \in 0 .. len - 1 /\ (j - 1) + 1 = j /\ j - 1 \in 0 .. len /\ j \in 0 .. len
        BY <1>1
    <2>2. /\ rs[j].start \in Nat /\ rs[j].end \in Nat /\ rangeSize(rs[j]) \in Nat
          /\ up[j - 1] \in Nat /\ up[j] = up[j - 1] + rangeSize(rs[j])
        BY <1>1, <2>1
    <2>3. PICK off \in 0 .. rangeSize(rs[j]) - 1 : a = rs[j].start + off
        <3>1. a - rs[j].start \in 0 .. rangeSize(rs[j]) - 1 /\ a = rs[j].start + (a - rs[j].start)
            BY <1>4, <2>2
        <3> QED BY <3>1
    <2>4. sp[up[j - 1] + off + 1] = a
        BY <1>2, <2>1, <2>3
    <2>5. up[j] <= up[len] /\ up[len] \in Nat
        <3>1. len \in 0 .. len /\ j <= len
            BY <1>1
        <3> QED BY <1>1, <2>1, <3>1, UpToGrows DEF len, up
    <2>6. up[j - 1] + off + 1 \in 1 .. Len(sp)
        <3>1. PICK p, q, z : p = up[j - 1] /\ q = up[len] /\ z = rangeSize(rs[j])
            OBVIOUS
        <3>2. p \in Nat /\ q \in Nat /\ z \in Nat /\ p + z <= q /\ off \in 0 .. z - 1
            BY <2>2, <2>5, <3>1
        <3>3. p + off + 1 \in 1 .. q
            BY ONLY <3>2
        <3> QED BY <1>2, <3>1, <3>3
    <2>7. DOMAIN sp = 1 .. Len(sp)
        BY <1>2
    <2> QED BY <2>4, <2>6, <2>7 DEF Range
<1>10. Declared(rs) \subseteq Range(sp)
    BY <1>3, <1>9
<1>11. PositionOf(rs, CURSOR_START) = 0
    BY <1>1 DEF PositionOf, CURSOR_START, CursorAt, up
<1> QED BY <1>2, <1>8, <1>10, <1>11 DEF sp, up, len, totalDeclaredIps

----------------------------------------------------------------------------
(* advanceCursor: its loop ends where counting leads.  The recursive function *)
(* that models the loop is defined by a CHOOSE: one that answers the target   *)
(* of every position satisfies its equation, and any that does answers that.  *)

\* The position of a walk that is at offset o of range number i + 1: beyond the
\* end of a range is at its end.
Pos(rs, i, o) ==
    IF i >= Len(rs) THEN totalDeclaredIps(rs)
    ELSE declaredUpTo(rs)[i] + AtMost(o, rangeSize(rs[i + 1]))

\* Where a walk stands: a range that is used up ends where the next one begins.
LEMMA PosFacts ==
    ASSUME NEW rs \in RangeLists, NEW i \in Nat, NEW o \in Nat
    PROVE  /\ totalDeclaredIps(rs) \in Nat /\ Pos(rs, i, o) \in Nat
           /\ Pos(rs, i, o) <= totalDeclaredIps(rs)
           /\ i >= Len(rs) => Pos(rs, i, o) = totalDeclaredIps(rs)
           /\ i < Len(rs) =>
                  /\ rangeSize(rs[i + 1]) \in Nat /\ declaredUpTo(rs)[i] \in Nat
                  /\ declaredUpTo(rs)[i + 1] = declaredUpTo(rs)[i] + rangeSize(rs[i + 1])
                  /\ Pos(rs, i + 1, 0) = declaredUpTo(rs)[i] + rangeSize(rs[i + 1])
                  /\ Pos(rs, i + 1, 0) <= totalDeclaredIps(rs)
                  /\ o >= rangeSize(rs[i + 1]) => Pos(rs, i, o) = Pos(rs, i + 1, 0)
                  /\ o <= rangeSize(rs[i + 1]) => Pos(rs, i, o) = declaredUpTo(rs)[i] + o
<1> DEFINE len == Len(rs)
           up == declaredUpTo(rs)
           total == totalDeclaredIps(rs)
           size == rangeSize(rs[i + 1])
<1>1. /\ len \in Nat /\ up \in [0 .. len -> Nat]
      /\ \A n \in 1 .. len : up[n] = up[n - 1] + rangeSize(rs[n])
      /\ \A n \in 1 .. len : rangeSize(rs[n]) \in Nat
    BY RangesType, UpToFacts
<1>2. total = up[len] /\ total \in Nat
    BY <1>1 DEF totalDeclaredIps
<1>3. \A n \in 0 .. len : up[n] <= total
    <2>1. \A n \in 0 .. len : n <= len /\ len \in 0 .. len
        BY <1>1
    <2> QED BY <1>2, <2>1, UpToGrows
<1>4. \A k \in Nat, q \in Nat :
          Pos(rs, k, q) = IF k >= len THEN total ELSE up[k] + AtMost(q, rangeSize(rs[k + 1]))
    BY DEF Pos
<1>5. \A k \in Nat : k < len => /\ k \in 0 .. len /\ k + 1 \in 0 .. len
                                /\ up[k] \in Nat /\ rangeSize(rs[k + 1]) \in Nat
                                /\ up[k + 1] = up[k] + rangeSize(rs[k + 1]) /\ up[k + 1] <= total
    <2> SUFFICES ASSUME NEW k \in Nat, k < len
                 PROVE  /\ k \in 0 .. len /\ k + 1 \in 0 .. len
                        /\ up[k] \in Nat /\ rangeSize(rs[k + 1]) \in Nat
                        /\ up[k + 1] = up[k] + rangeSize(rs[k + 1]) /\ up[k + 1] <= total
        OBVIOUS
    <2> HIDE DEF len, up, total
    <2>1. k + 1 \in 1 .. len /\ (k + 1) - 1 = k /\ k \in 0 .. len /\ k + 1 \in 0 .. len
        BY <1>1
    <2> QED BY <1>1, <1>3, <2>1
<1> HIDE DEF len, up, total, size
<1>6. CASE i >= len
    BY <1>1, <1>2, <1>4, <1>6 DEF len, total
<1>7. CASE i < len
    <2>1. /\ up[i] \in Nat /\ size \in Nat /\ up[i + 1] = up[i] + size /\ up[i + 1] <= total
        BY <1>5, <1>7 DEF size
    <2>2. Pos(rs, i, o) = up[i] + AtMost(o, size)
        BY <1>1, <1>4, <1>7 DEF size
    <2>3. Pos(rs, i + 1, 0) = up[i] + size
        <3>1. CASE i + 1 >= len
            <4>1. i + 1 = len
                BY <1>1, <1>7, <3>1
            <4> QED BY <1>2, <1>4, <2>1, <4>1
        <3>2. CASE i + 1 < len
            <4>1. rangeSize(rs[(i + 1) + 1]) \in Nat
                BY <1>5, <3>2
            <4>2. AtMost(0, rangeSize(rs[(i + 1) + 1])) = 0
                BY <4>1 DEF AtMost
            <4> QED BY <1>1, <1>4, <2>1, <3>2, <4>2
        <3> QED BY <1>1, <3>1, <3>2
    <2>4. AtMost(o, size) \in Nat /\ AtMost(o, size) <= size
          /\ (o >= size => AtMost(o, size) = size) /\ (o <= size => AtMost(o, size) = o)
        BY <2>1 DEF AtMost
    <2>5. /\ total \in Nat /\ Pos(rs, i, o) \in Nat /\ Pos(rs, i, o) <= total
          /\ Pos(rs, i + 1, 0) <= total
          /\ (o >= size => Pos(rs, i, o) = Pos(rs, i + 1, 0))
          /\ (o <= size => Pos(rs, i, o) = up[i] + o)
        BY <1>2, <2>1, <2>2, <2>3, <2>4
    <2> QED BY <1>1, <1>7, <2>1, <2>3, <2>5 DEF len, up, total, size
<1> QED BY <1>1, <1>6, <1>7

\* What counting t addresses from the start of the lap leads to.
Target(rs, t) ==
    IF t >= totalDeclaredIps(rs) THEN [next |-> CURSOR_START, lapComplete |-> TRUE]
    ELSE LET j == CHOOSE j : Within(rs, j, t)
         IN  [next |-> CursorAt(j, t - declaredUpTo(rs)[j]), lapComplete |-> FALSE]

\* The target is in the range that holds the position.
LEMMA TargetWithin ==
    ASSUME NEW rs \in RangeLists, NEW t \in Nat, NEW j, Within(rs, j, t)
    PROVE  Target(rs, t) = [next |-> CursorAt(j, t - declaredUpTo(rs)[j]), lapComplete |-> FALSE]
<1>1. (CHOOSE i : Within(rs, i, t)) = j
    BY WithinOne
<1>2. j \in Nat /\ j < Len(rs) /\ t < declaredUpTo(rs)[j + 1]
    BY RangesType DEF Within
<1>3. /\ declaredUpTo(rs)[j + 1] \in Nat
      /\ declaredUpTo(rs)[j + 1] <= totalDeclaredIps(rs) /\ totalDeclaredIps(rs) \in Nat
    <2>1. 0 \in Nat
        OBVIOUS
    <2>2. /\ rangeSize(rs[j + 1]) \in Nat /\ declaredUpTo(rs)[j] \in Nat
          /\ declaredUpTo(rs)[j + 1] = declaredUpTo(rs)[j] + rangeSize(rs[j + 1])
          /\ Pos(rs, j + 1, 0) = declaredUpTo(rs)[j] + rangeSize(rs[j + 1])
          /\ Pos(rs, j + 1, 0) <= totalDeclaredIps(rs) /\ totalDeclaredIps(rs) \in Nat
        BY ONLY <1>2, <2>1, rs \in RangeLists, PosFacts
    <2> QED BY ONLY <2>2
<1>4. ~(t >= totalDeclaredIps(rs))
    BY <1>2, <1>3
<1> QED BY <1>1, <1>4 DEF Target

\* It is the cursor of that position, or the end of the lap.
LEMMA TargetFacts ==
    ASSUME NEW rs \in RangeLists, NEW t \in Nat
    PROVE  /\ Target(rs, t).lapComplete = (t >= totalDeclaredIps(rs))
           /\ ~Target(rs, t).lapComplete =>
                  Target(rs, t).next \in Cursors(rs) /\ PositionOf(rs, Target(rs, t).next) = t
<1>1. CASE t >= totalDeclaredIps(rs)
    BY <1>1 DEF Target
<1>2. CASE ~(t >= totalDeclaredIps(rs))
    <2>1. totalDeclaredIps(rs) \in Nat
        BY PosFacts
    <2>2. PICK j : Within(rs, j, t)
        BY <1>2, <2>1, WithinSome
    <2>3. Target(rs, t) = [next |-> CursorAt(j, t - declaredUpTo(rs)[j]), lapComplete |-> FALSE]
        BY <2>2, TargetWithin
    <2>4. j \in 0 .. Len(rs) - 1 /\ j \in Nat /\ j < Len(rs)
          /\ declaredUpTo(rs)[j] <= t /\ t < declaredUpTo(rs)[j + 1]
        BY <2>2, RangesType DEF Within
    <2>5. /\ rangeSize(rs[j + 1]) \in Nat /\ declaredUpTo(rs)[j] \in Nat
          /\ declaredUpTo(rs)[j + 1] = declaredUpTo(rs)[j] + rangeSize(rs[j + 1])
        <3>1. 0 \in Nat
            OBVIOUS
        <3> QED BY <2>4, <3>1, PosFacts
    <2>6. PICK off : off = t - declaredUpTo(rs)[j]
        OBVIOUS
    <2>7. off \in 0 .. rangeSize(rs[j + 1]) /\ declaredUpTo(rs)[j] + off = t
        BY <2>4, <2>5, <2>6
    <2>8. CursorAt(j, off) \in Cursors(rs)
        BY <2>4, <2>7 DEF Cursors
    <2>9. PositionOf(rs, CursorAt(j, off)) = t
        BY <2>7 DEF PositionOf, CursorAt
    <2>10. Target(rs, t).next = CursorAt(j, off) /\ Target(rs, t).lapComplete = FALSE
        <3>1. Target(rs, t) = [next |-> CursorAt(j, off), lapComplete |-> FALSE]
            BY <2>3, <2>6
        <3> QED BY ONLY <3>1
    <2>11. (t >= totalDeclaredIps(rs)) = FALSE
        BY <1>2, <2>1
    <2> HIDE DEF Target
    <2> QED BY <2>8, <2>9, <2>10, <2>11, Zenon
<1> QED BY <1>1, <1>2

\* The state of the walk of advanceCursor.
Going(i, o, n) == [rangeIdx |-> i, offset |-> o, remaining |-> n]
Goings == [rangeIdx : Nat, offset : Nat, remaining : Nat]
\* One turn of the loop: from at, with W for the turns that follow.
AdvanceStep(rs, W, at) ==
    IF at.rangeIdx >= Len(rs) THEN [next |-> CURSOR_START, lapComplete |-> TRUE]
    ELSE LET available == rangeSize(rs[at.rangeIdx + 1]) - at.offset IN
         IF available <= 0
         THEN W[Going(at.rangeIdx + 1, 0, at.remaining)]
         ELSE IF at.remaining < available
         THEN [next |-> CursorAt(at.rangeIdx, at.offset + at.remaining), lapComplete |-> FALSE]
         ELSE W[Going(at.rangeIdx + 1, 0, at.remaining - available)]

\* What a turn of the loop does: it ends, or leads past the range, and counts
\* the same target either way.
LEMMA AdvanceTurn ==
    ASSUME NEW rs \in RangeLists, NEW at \in Goings, NEW W,
           \/ at.rangeIdx >= Len(rs)
           \/ \A on \in Goings : on.rangeIdx = at.rangeIdx + 1
                 => W[on] = Target(rs, Pos(rs, on.rangeIdx, on.offset) + on.remaining)
    PROVE  AdvanceStep(rs, W, at) = Target(rs, Pos(rs, at.rangeIdx, at.offset) + at.remaining)
<1> PICK i, o, n : i = at.rangeIdx /\ o = at.offset /\ n = at.remaining
    OBVIOUS
<1>1. i \in Nat /\ o \in Nat /\ n \in Nat /\ Len(rs) \in Nat
    BY RangesType DEF Goings
<1>2. CASE i >= Len(rs)
    <2>1. Pos(rs, i, o) = totalDeclaredIps(rs) /\ totalDeclaredIps(rs) \in Nat
        BY <1>1, <1>2, PosFacts
    <2>2. Pos(rs, i, o) + n >= totalDeclaredIps(rs)
        BY <1>1, <2>1
    <2> QED BY <1>2, <2>2 DEF AdvanceStep, Target
<1>3. CASE i < Len(rs)
    <2> PICK size, u, p : size = rangeSize(rs[i + 1]) /\ u = declaredUpTo(rs)[i] /\ p = Pos(rs, i, o)
        OBVIOUS
    <2>1. /\ size \in Nat /\ u \in Nat /\ p \in Nat /\ Pos(rs, i + 1, 0) = u + size
          /\ declaredUpTo(rs)[i + 1] = u + size
          /\ (o >= size => p = u + size) /\ (o <= size => p = u + o)
        <3>1. /\ rangeSize(rs[i + 1]) \in Nat /\ declaredUpTo(rs)[i] \in Nat
              /\ declaredUpTo(rs)[i + 1] = declaredUpTo(rs)[i] + rangeSize(rs[i + 1])
              /\ Pos(rs, i, o) \in Nat
              /\ Pos(rs, i + 1, 0) = declaredUpTo(rs)[i] + rangeSize(rs[i + 1])
              /\ o >= rangeSize(rs[i + 1]) => Pos(rs, i, o) = Pos(rs, i + 1, 0)
              /\ o <= rangeSize(rs[i + 1]) => Pos(rs, i, o) = declaredUpTo(rs)[i] + o
            BY ONLY <1>1, <1>3, rs \in RangeLists, PosFacts
        <3>2. size = rangeSize(rs[i + 1]) /\ u = declaredUpTo(rs)[i] /\ p = Pos(rs, i, o)
            OBVIOUS
        <3> QED BY ONLY <3>1, <3>2
    <2>2. ASSUME NEW m \in Nat
          PROVE  /\ Going(i + 1, 0, m) \in Goings
                 /\ W[Going(i + 1, 0, m)] = Target(rs, (u + size) + m)
        <3>1. /\ Going(i + 1, 0, m) \in Goings
              /\ Going(i + 1, 0, m).rangeIdx = i + 1 /\ Going(i + 1, 0, m).offset = 0
              /\ Going(i + 1, 0, m).remaining = m
            BY <1>1 DEF Going, Goings
        <3>2. ~(i >= Len(rs))
            BY <1>1, <1>3
        <3>3. W[Going(i + 1, 0, m)] = Target(rs, Pos(rs, i + 1, 0) + m)
            BY <3>1, <3>2
        <3> QED BY <2>1, <3>1, <3>3
    <2>3. CASE o >= size
        <3>1. size - o <= 0
            BY <1>1, <2>1, <2>3
        <3>2. AdvanceStep(rs, W, at) = W[Going(i + 1, 0, n)]
            BY <1>1, <1>3, <3>1 DEF AdvanceStep
        <3> QED BY <1>1, <2>1, <2>2, <2>3, <3>2
    <2>4. CASE o < size /\ n < size - o
        <3>1. ~(size - o <= 0) /\ ~(i >= Len(rs))
            BY <1>1, <1>3, <2>1, <2>4
        <3>2. AdvanceStep(rs, W, at) = [next |-> CursorAt(i, o + n), lapComplete |-> FALSE]
            BY <2>4, <3>1 DEF AdvanceStep
        <3>3. p + n \in Nat /\ u <= p + n /\ p + n < u + size /\ (p + n) - u = o + n /\ i \in 0 .. Len(rs) - 1
            BY ONLY <1>1, <1>3, <2>1, <2>4
        <3>4. Within(rs, i, p + n)
            BY <2>1, <3>3 DEF Within
        <3>5. Target(rs, p + n) = [next |-> CursorAt(i, (p + n) - u), lapComplete |-> FALSE]
            BY <3>3, <3>4, TargetWithin
        <3> QED BY <3>2, <3>3, <3>5
    <2>5. CASE o < size /\ ~(n < size - o)
        <3>1. ~(size - o <= 0) /\ ~(i >= Len(rs)) /\ n - (size - o) \in Nat
              /\ (u + size) + (n - (size - o)) = p + n
            BY ONLY <1>1, <1>3, <2>1, <2>5
        <3>2. AdvanceStep(rs, W, at) = W[Going(i + 1, 0, n - (size - o))]
            BY <2>5, <3>1 DEF AdvanceStep
        <3> QED BY <2>2, <3>1, <3>2
    <2> QED BY <1>1, <2>1, <2>3, <2>4, <2>5
<1> QED BY <1>1, <1>2, <1>3

\* The function the loop defines exists, and is Target.
LEMMA WalkIsTarget ==
    ASSUME NEW rs \in RangeLists, NEW W,
           W = CHOOSE w : w = [at \in Goings |-> AdvanceStep(rs, w, at)],
           NEW at \in Goings
    PROVE  W[at] = Target(rs, Pos(rs, at.rangeIdx, at.offset) + at.remaining)
<1> DEFINE T(on) == Target(rs, Pos(rs, on.rangeIdx, on.offset) + on.remaining)
           A == [on \in Goings |-> T(on)]
<1>1. A = [on \in Goings |-> AdvanceStep(rs, A, on)]
    <2>1. ASSUME NEW on \in Goings PROVE AdvanceStep(rs, A, on) = T(on)
        <3>1. \A x \in Goings : A[x] = T(x)
            OBVIOUS
        <3> HIDE DEF A
        <3> QED BY <3>1, AdvanceTurn
    <2> QED BY <2>1
<1>2. W = [on \in Goings |-> AdvanceStep(rs, W, on)]
    <2> HIDE DEF A
    <2> QED BY <1>1
<1>3. \A on \in Goings : W[on] = AdvanceStep(rs, W, on)
    BY <1>2
<1> HIDE DEF A, T
<1> DEFINE len == Len(rs)
           S == {k \in Nat : \A on \in Goings : len - on.rangeIdx <= k => W[on] = T(on)}
<1>4. len \in Nat /\ \A on \in Goings : on.rangeIdx \in Nat
    BY RangesType DEF Goings
<1>5. 0 \in S
    <2> SUFFICES ASSUME NEW on \in Goings, len - on.rangeIdx <= 0 PROVE W[on] = T(on)
        OBVIOUS
    <2>1. on.rangeIdx >= Len(rs)
        BY <1>4
    <2> QED BY <1>3, <2>1, AdvanceTurn DEF T
<1>6. ASSUME NEW k \in Nat, k \in S PROVE k + 1 \in S
    <2> SUFFICES ASSUME NEW on \in Goings, len - on.rangeIdx <= k + 1 PROVE W[on] = T(on)
        OBVIOUS
    <2>1. \A x \in Goings : x.rangeIdx = on.rangeIdx + 1 => W[x] = T(x)
        <3> SUFFICES ASSUME NEW x \in Goings, x.rangeIdx = on.rangeIdx + 1 PROVE W[x] = T(x)
            OBVIOUS
        <3>1. len - x.rangeIdx <= k
            BY <1>4
        <3> QED BY <1>6, <3>1
    <2> QED BY <1>3, <2>1, AdvanceTurn DEF T
<1> HIDE DEF S, len
<1>7. PICK k : k \in Nat /\ len - at.rangeIdx <= k
    <2>1. len - at.rangeIdx <= len
        BY <1>4
    <2> QED BY <1>4, <2>1
<1>8. k \in S
    BY <1>5, <1>6, <1>7, Induction
<1> QED BY <1>7, <1>8 DEF S, T

\* The cursor a walk starts from stands where the given one stands.
LEMMA ClampFacts ==
    ASSUME NEW rs \in RangeLists, NEW cur \in Cursors(rs)
    PROVE  /\ clamp(rs, cur).rangeIdx \in Nat /\ clamp(rs, cur).offset \in Nat
           /\ Pos(rs, clamp(rs, cur).rangeIdx, clamp(rs, cur).offset) = PositionOf(rs, cur)
<1> PICK len, up : len = Len(rs) /\ up = declaredUpTo(rs)
    OBVIOUS
<1>1. len \in Nat /\ up[0] = 0 /\ 0 \in Nat
    BY RangesType, UpToFacts
<1>2. CASE len = 0
    <2>1. cur = CURSOR_START
        BY <1>2 DEF Cursors
    <2>2. clamp(rs, cur) = CURSOR_START /\ CURSOR_START.rangeIdx = 0 /\ CURSOR_START.offset = 0
        BY <1>2, <2>1 DEF clamp, CURSOR_START, CursorAt
    <2>3. PositionOf(rs, cur) = 0
        BY <1>1, <2>1, <2>2 DEF PositionOf
    <2>4. Pos(rs, 0, 0) = 0
        BY <1>1, <1>2 DEF Pos, totalDeclaredIps
    <2> QED BY <1>1, <2>2, <2>3, <2>4
<1>3. CASE len # 0
    <2>1. PICK i \in 0 .. len - 1 : \E off \in 0 .. rangeSize(rs[i + 1]) : cur = CursorAt(i, off)
        <3>1. CASE cur = CURSOR_START
            <4>1. 0 \in 0 .. len - 1 /\ 0 + 1 = 1 /\ 1 \in 1 .. Len(rs)
                BY <1>1, <1>3
            <4>2. 0 \in 0 .. rangeSize(rs[0 + 1])
                BY <4>1, RangesType
            <4> QED BY <3>1, <4>1, <4>2 DEF CURSOR_START
        <3>2. CASE cur # CURSOR_START
            BY <3>2 DEF Cursors
        <3> QED BY <3>1, <3>2
    <2>2. PICK off \in 0 .. rangeSize(rs[i + 1]) : cur = CursorAt(i, off)
        BY <2>1
    <2> PICK size : size = rangeSize(rs[i + 1])
        OBVIOUS
    <2>3. i \in Nat /\ i < len /\ ~(i >= len) /\ size \in Nat /\ up[i] \in Nat
        <3>1. i \in Nat /\ i < Len(rs) /\ ~(i >= len)
            BY <1>1
        <3> QED BY <1>1, <3>1, PosFacts
    <2>4. off \in Nat /\ off <= size
        BY <2>3
    <2>5. Pos(rs, i, off) = up[i] + off /\ (off >= size => Pos(rs, i + 1, 0) = up[i] + off)
        <3>1. i \in Nat /\ i < Len(rs) /\ off \in Nat
            BY <2>3, <2>4
        <3>2. /\ rangeSize(rs[i + 1]) \in Nat
              /\ off >= rangeSize(rs[i + 1]) => Pos(rs, i, off) = Pos(rs, i + 1, 0)
              /\ off <= rangeSize(rs[i + 1]) => Pos(rs, i, off) = declaredUpTo(rs)[i] + off
            BY ONLY <3>1, rs \in RangeLists, PosFacts
        <3> QED BY <2>4, <3>2
    <2>6. PositionOf(rs, cur) = up[i] + off
        BY <2>2 DEF PositionOf, CursorAt
    <2>7. clamp(rs, cur) = IF off >= size THEN CursorAt(i + 1, 0) ELSE CursorAt(i, off)
        <3>1. cur.rangeIdx = i /\ cur.offset = off
            BY <2>2 DEF CursorAt
        <3> QED BY <2>2, <2>3, <3>1 DEF clamp
    <2>8. CASE off >= size
        <3>1. clamp(rs, cur).rangeIdx = i + 1 /\ clamp(rs, cur).offset = 0
            BY <2>7, <2>8 DEF CursorAt
        <3> QED BY <1>1, <2>3, <2>5, <2>6, <2>8, <3>1
    <2>9. CASE ~(off >= size)
        <3>1. clamp(rs, cur).rangeIdx = i /\ clamp(rs, cur).offset = off
            BY <2>7, <2>9 DEF CursorAt
        <3> QED BY <2>3, <2>4, <2>5, <2>6, <3>1
    <2> QED BY <2>8, <2>9
<1> QED BY <1>2, <1>3

\* advanceCursor answers the target of the position it is to reach.
LEMMA AdvanceIsRight ==
    ASSUME NEW rs \in RangeLists, NEW cur \in Cursors(rs), NEW n \in Nat
    PROVE  advanceCursor(rs, cur, n) = Target(rs, PositionOf(rs, cur) + n)
<1> DEFINE from == clamp(rs, cur)
           walk == CHOOSE w : w = [at \in Goings |-> AdvanceStep(rs, w, at)]
<1>1. from.rangeIdx \in Nat /\ from.offset \in Nat
      /\ Pos(rs, from.rangeIdx, from.offset) = PositionOf(rs, cur)
    BY ClampFacts
<1>2. advanceCursor(rs, cur, n) = walk[Going(from.rangeIdx, from.offset, n)]
    BY DEF advanceCursor, Going, Goings, AdvanceStep
<1> HIDE DEF from
<1>3. PICK at : at = Going(from.rangeIdx, from.offset, n)
    OBVIOUS
<1>4. at \in Goings /\ at.rangeIdx = from.rangeIdx /\ at.offset = from.offset /\ at.remaining = n
    BY <1>1, <1>3 DEF Going, Goings
<1>5. PICK W : W = walk
    OBVIOUS
<1>6. W[at] = Target(rs, Pos(rs, at.rangeIdx, at.offset) + at.remaining)
    BY <1>4, <1>5, WalkIsTarget
<1> HIDE DEF walk
<1> QED BY <1>1, <1>2, <1>3, <1>4, <1>5, <1>6

----------------------------------------------------------------------------
(* planChunk: its loop picks the addresses that follow, likewise.            *)

\* Two sequences with the same elements are the same.
LEMMA SameSequence ==
    ASSUME NEW S, NEW s \in Seq(S), NEW t \in Seq(S), Len(s) = Len(t),
           \A k \in 1 .. Len(s) : s[k] = t[k]
    PROVE  s = t
<1> PICK n : n = Len(s)
    OBVIOUS
<1>1. s \in [1 .. n -> S] /\ t \in [1 .. n -> S]
    BY LenProperties
<1>2. \A k \in 1 .. n : s[k] = t[k]
    OBVIOUS
<1>3. s = [k \in 1 .. n |-> s[k]] /\ t = [k \in 1 .. n |-> t[k]]
    BY ONLY <1>1
<1>4. [k \in 1 .. n |-> s[k]] = [k \in 1 .. n |-> t[k]]
    BY ONLY <1>2
<1> HIDE <1>3
<1> QED BY <1>3, <1>4

\* The addresses taken of a range are the ones that follow in the list of all.
LEMMA SliceIsNext ==
    ASSUME NEW rs \in RangeLists, NEW i \in Nat, i < Len(rs), NEW o \in Nat, NEW c \in Nat,
           o + c <= rangeSize(rs[i + 1])
    PROVE  slice(rs[i + 1], o, c)
           = SubSeq(Space(rs), declaredUpTo(rs)[i] + o + 1, declaredUpTo(rs)[i] + o + c)
<1>0. PICK sp, u, size, p : /\ sp = Space(rs) /\ u = declaredUpTo(rs)[i] /\ size = rangeSize(rs[i + 1])
                            /\ p = u + o
    OBVIOUS
<1>1. i \in 0 .. Len(rs) - 1 /\ i + 1 \in 1 .. Len(rs)
    BY RangesType
<1>2. /\ u \in Nat /\ size \in Nat /\ u + size <= totalDeclaredIps(rs) /\ totalDeclaredIps(rs) \in Nat
    <2>1. /\ rangeSize(rs[i + 1]) \in Nat /\ declaredUpTo(rs)[i] \in Nat
          /\ Pos(rs, i + 1, 0) = declaredUpTo(rs)[i] + rangeSize(rs[i + 1])
          /\ Pos(rs, i + 1, 0) <= totalDeclaredIps(rs) /\ totalDeclaredIps(rs) \in Nat
        BY ONLY rs \in RangeLists, i \in Nat, i < Len(rs), o \in Nat, PosFacts
    <2> QED BY <1>0, <2>1
<1>3. /\ sp \in Seq(Nat) /\ Len(sp) = totalDeclaredIps(rs)
      /\ \A off \in 0 .. size - 1 : sp[u + off + 1] = rs[i + 1].start + off
    BY <1>0, <1>1, SpaceIsListed DEF Listed, totalDeclaredIps
<1>9. PICK start : start = rs[i + 1].start
    OBVIOUS
<1>4. start \in Nat
    BY <1>1, <1>9, RangesType
<1>5. \A k \in p + 1 .. p + c : sp[k] \in Nat
    <2> SUFFICES ASSUME NEW k \in p + 1 .. p + c PROVE sp[k] \in Nat
        OBVIOUS
    <2>1. o + c <= size
        BY <1>0
    <2>2. p = u + o /\ Len(sp) \in Nat /\ u + size <= Len(sp)
        BY <1>0, <1>2, <1>3
    <2>3. p + 1 <= k /\ k <= p + c /\ k \in Int
        BY ONLY <1>2, <2>2, k \in p + 1 .. p + c, o \in Nat, c \in Nat
    <2>4. k \in 1 .. Len(sp)
        BY ONLY <1>2, <2>1, <2>2, <2>3, o \in Nat, c \in Nat
    <2> QED BY <1>3, <2>4, ElementOfSeq
<1> DEFINE s == slice(rs[i + 1], o, c)
           t == SubSeq(sp, p + 1, p + c)
<1>6. s \in Seq(Nat) /\ Len(s) = c /\ \A k \in 1 .. c : s[k] = start + o + k - 1
    <2>1. rs[i + 1].start \in Nat
        BY <1>4, <1>9
    <2> QED BY <1>9, <2>1, SliceFacts
<1>7. t \in Seq(Nat) /\ Len(t) = c /\ \A k \in 1 .. c : t[k] = sp[(p + 1) + k - 1]
    <2>1. p + 1 \in Int /\ p + c \in Int /\ (p + c) - (p + 1) + 1 = c
          /\ (IF p + 1 <= p + c THEN (p + c) - (p + 1) + 1 ELSE 0) = c
        BY ONLY <1>0, <1>2, o \in Nat, c \in Nat
    <2>2. /\ t \in Seq(Nat) /\ Len(t) = IF p + 1 <= p + c THEN (p + c) - (p + 1) + 1 ELSE 0
          /\ \A k \in 1 .. (p + c) - (p + 1) + 1 : t[k] = sp[(p + 1) + k - 1]
        BY ONLY <1>5, <2>1, SubSeqProperties
    <2> HIDE DEF t
    <2> QED BY <2>1, <2>2
<1> HIDE DEF s, t
<1>8. ASSUME NEW k \in 1 .. c PROVE s[k] = t[k]
    <2>1. o + c <= size
        BY <1>0
    <2>2. PICK off \in 0 .. size - 1 : off = o + k - 1
        BY <1>2, <2>1
    <2>3. (p + 1) + k - 1 = u + off + 1 /\ start + o + k - 1 = start + off
        BY ONLY <1>0, <1>2, <1>4, <2>2, k \in 1 .. c, o \in Nat, off \in 0 .. size - 1
    <2>4. sp[u + off + 1] = start + off
        BY <1>3, <1>9
    <2> QED BY <1>6, <1>7, <2>3, <2>4
<1>10. s = t
    BY <1>6, <1>7, <1>8, SameSequence
<1> QED BY <1>0, <1>2, <1>10 DEF s, t

\* The state of the walk of planChunk, and one turn of its loop.
Picking(i, o, ips) == [rangeIdx |-> i, offset |-> o, ips |-> ips]
Pickings == [rangeIdx : Nat, offset : Nat, ips : Seq(Nat)]
PlanStep(rs, maxIps, W, at) ==
    IF at.rangeIdx >= Len(rs) \/ Len(at.ips) >= maxIps THEN at.ips
    ELSE LET r == rs[at.rangeIdx + 1]
             take == AtMost(rangeSize(r) - at.offset, maxIps - Len(at.ips))
         IN  IF at.offset >= rangeSize(r) THEN W[Picking(at.rangeIdx + 1, 0, at.ips)]
             ELSE W[Picking(at.rangeIdx, at.offset + take, at.ips \o slice(r, at.offset, take))]

\* What the loop answers from there: the addresses so far, and the next ones of
\* the list while there is room.
Upcoming(rs, p, room) == SubSeq(Space(rs), p + 1, AtMost(p + room, totalDeclaredIps(rs)))
Planned(rs, maxIps, at) ==
    at.ips \o Upcoming(rs, Pos(rs, at.rangeIdx, at.offset),
                       IF Len(at.ips) >= maxIps THEN 0 ELSE maxIps - Len(at.ips))
\* The loop ends: fewer ranges, or fewer addresses, are left.
Remaining(rs, at) ==
    (Len(rs) - at.rangeIdx) + (totalDeclaredIps(rs) - Pos(rs, at.rangeIdx, at.offset))

\* The addresses that come next: none without room or at the end, else some and the rest.
LEMMA UpcomingFacts ==
    ASSUME NEW rs \in RangeLists, NEW p \in 0 .. totalDeclaredIps(rs), NEW room \in Nat
    PROVE  /\ Upcoming(rs, p, room) \in Seq(Nat)
           /\ room = 0 \/ p = totalDeclaredIps(rs) => Upcoming(rs, p, room) = <<>>
           /\ \A c \in 0 .. room : p + c <= totalDeclaredIps(rs) =>
                  Upcoming(rs, p, room) = SubSeq(Space(rs), p + 1, p + c) \o Upcoming(rs, p + c, room - c)
<1> PICK sp, total, q : sp = Space(rs) /\ total = totalDeclaredIps(rs) /\ q = AtMost(p + room, total)
    OBVIOUS
<1>1. total \in Nat /\ p \in Nat /\ p <= total
    <2>1. totalDeclaredIps(rs) \in Nat
        BY PosFacts
    <2> QED BY <2>1
<1>2. sp \in Seq(Nat) /\ Len(sp) = total
    BY SpaceIsListed DEF Listed, totalDeclaredIps
<1>3. q \in Nat /\ p <= q /\ q <= total /\ (room = 0 \/ p = total => q = p) /\ q <= p + room
    BY <1>1 DEF AtMost
<1>4. Upcoming(rs, p, room) = SubSeq(sp, p + 1, q)
    BY DEF Upcoming
<1>5. SubSeq(sp, p + 1, q) \in Seq(Nat)
    <2>1. \A k \in p + 1 .. q : sp[k] \in Nat
        <3> SUFFICES ASSUME NEW k \in p + 1 .. q PROVE sp[k] \in Nat
            OBVIOUS
        <3>1. k \in 1 .. Len(sp)
            BY <1>1, <1>2, <1>3
        <3> QED BY <1>2, <3>1, ElementOfSeq
    <2>2. p + 1 \in Int /\ q \in Int
        BY <1>1, <1>3
    <2> QED BY ONLY <2>1, <2>2, SubSeqProperties
<1>6. ASSUME room = 0 \/ p = total PROVE SubSeq(sp, p + 1, q) = <<>>
    <2>1. p + 1 \in Int /\ q \in Int /\ q < p + 1
        BY <1>1, <1>3, <1>6
    <2> QED BY ONLY <2>1, SubSeqEmpty
<1>7. ASSUME NEW c \in 0 .. room, p + c <= total
      PROVE  SubSeq(sp, p + 1, q) = SubSeq(sp, p + 1, p + c) \o Upcoming(rs, p + c, room - c)
    <2>1. (p + c) + (room - c) = p + room
        BY <1>1
    <2>2. Upcoming(rs, p + c, room - c) = SubSeq(sp, (p + c) + 1, q)
        BY <2>1 DEF Upcoming
    <2>3. p + c <= q
        BY <1>1, <1>7 DEF AtMost
    <2>4. /\ p + 1 \in 1 .. Len(sp) + 1 /\ p + c \in (p + 1) - 1 .. Len(sp) /\ q \in p + c .. Len(sp)
        BY <1>1, <1>2, <1>3, <1>7, <2>3
    <2>5. SubSeq(sp, p + 1, p + c) \o SubSeq(sp, (p + c) + 1, q) = SubSeq(sp, p + 1, q)
        BY ONLY <1>2, <2>4, ConcatAdjacentSubSeq
    <2> QED BY <2>2, <2>5
<1> QED BY <1>4, <1>5, <1>6, <1>7

\* A turn of the loop picks addresses and leaves the rest to the turns that follow.
LEMMA PlanTurn ==
    ASSUME NEW rs \in RangeLists, NEW maxIps \in Nat, NEW at \in Pickings, NEW W,
           \/ at.rangeIdx >= Len(rs)
           \/ \A on \in Pickings : Remaining(rs, on) < Remaining(rs, at) => W[on] = Planned(rs, maxIps, on)
    PROVE  PlanStep(rs, maxIps, W, at) = Planned(rs, maxIps, at)
<1>0. PICK i, o, ips, n, p, total, room :
          /\ i = at.rangeIdx /\ o = at.offset /\ ips = at.ips /\ n = Len(ips)
          /\ p = Pos(rs, i, o) /\ total = totalDeclaredIps(rs)
          /\ room = IF n >= maxIps THEN 0 ELSE maxIps - n
    OBVIOUS
<1>1. i \in Nat /\ o \in Nat /\ ips \in Seq(Nat) /\ n \in Nat /\ Len(rs) \in Nat
    BY <1>0, RangesType, LenProperties DEF Pickings
<1>2. p \in 0 .. total /\ total \in Nat /\ (i >= Len(rs) => p = total)
    <2>1. /\ totalDeclaredIps(rs) \in Nat /\ Pos(rs, i, o) \in Nat /\ Pos(rs, i, o) <= totalDeclaredIps(rs)
          /\ i >= Len(rs) => Pos(rs, i, o) = totalDeclaredIps(rs)
        BY <1>1, PosFacts
    <2> QED BY <1>0, <2>1
<1>3. room \in Nat
    BY <1>0, <1>1
<1>4. Planned(rs, maxIps, at) = ips \o Upcoming(rs, p, room)
    BY <1>0 DEF Planned
<1>5. CASE i >= Len(rs) \/ n >= maxIps
    <2>1. Upcoming(rs, p, room) = <<>>
        BY <1>0, <1>2, <1>3, <1>5, UpcomingFacts
    <2>2. ips \o <<>> = ips
        BY <1>1, ConcatEmptySeq
    <2>3. PlanStep(rs, maxIps, W, at) = ips
        BY <1>0, <1>5 DEF PlanStep
    <2> QED BY <1>4, <2>1, <2>2, <2>3
<1>6. CASE ~(i >= Len(rs)) /\ ~(n >= maxIps)
    <2>0. PICK size, u, left : /\ size = rangeSize(rs[i + 1]) /\ u = declaredUpTo(rs)[i]
                               /\ left = Remaining(rs, at)
        OBVIOUS
    <2>1. /\ i < Len(rs) /\ size \in Nat /\ u \in Nat /\ Pos(rs, i + 1, 0) = u + size /\ u + size <= total
          /\ (o >= size => p = u + size) /\ (o <= size => p = u + o)
        <3>1. i < Len(rs)
            BY <1>1, <1>6
        <3>2. /\ rangeSize(rs[i + 1]) \in Nat /\ declaredUpTo(rs)[i] \in Nat
              /\ Pos(rs, i + 1, 0) = declaredUpTo(rs)[i] + rangeSize(rs[i + 1])
              /\ Pos(rs, i + 1, 0) <= totalDeclaredIps(rs)
              /\ o >= rangeSize(rs[i + 1]) => Pos(rs, i, o) = Pos(rs, i + 1, 0)
              /\ o <= rangeSize(rs[i + 1]) => Pos(rs, i, o) = declaredUpTo(rs)[i] + o
            BY ONLY <1>1, <3>1, rs \in RangeLists, PosFacts
        <3> QED BY <1>0, <2>0, <3>1, <3>2
    <2>2. left = (Len(rs) - i) + (total - p)
        BY <1>0, <2>0 DEF Remaining
    <2>3. CASE o >= size
        <3> PICK on : on = Picking(i + 1, 0, ips)
            OBVIOUS
        <3>1. on \in Pickings /\ on.rangeIdx = i + 1 /\ on.offset = 0 /\ on.ips = ips
            BY <1>1 DEF Picking, Pickings
        <3>2. Pos(rs, i + 1, 0) = p
            BY <2>1, <2>3
        <3>3. Remaining(rs, on) = (Len(rs) - (i + 1)) + (total - p)
            BY <1>0, <3>1, <3>2 DEF Remaining
        <3>4. (Len(rs) - (i + 1)) + (total - p) < left
            BY <1>1, <1>2, <2>2
        <3>5. W[on] = Planned(rs, maxIps, on)
            BY <1>0, <1>6, <2>0, <3>1, <3>3, <3>4
        <3>6. Planned(rs, maxIps, on) = ips \o Upcoming(rs, p, room)
            BY <1>0, <3>1, <3>2 DEF Planned
        <3>7. PlanStep(rs, maxIps, W, at) = W[on]
            BY <1>0, <1>6, <2>0, <2>3 DEF PlanStep
        <3> QED BY <1>4, <3>5, <3>6, <3>7
    <2>4. CASE ~(o >= size)
        <3>1. PICK take : take = AtMost(size - o, maxIps - n)
            OBVIOUS
        <3>2. /\ take \in Nat /\ take > 0 /\ o + take <= size /\ take \in 0 .. room /\ take <= maxIps - n
              /\ room = maxIps - n /\ p = u + o
            <4>1. n < maxIps /\ o < size /\ p = u + o
                BY <1>1, <1>6, <2>1, <2>4
            <4>2. room = maxIps - n
                BY <1>0, <1>6
            <4> QED BY ONLY <1>1, <2>1, <3>1, <4>1, <4>2, maxIps \in Nat DEF AtMost
        <3>3. PICK new : new = slice(rs[i + 1], o, take)
            OBVIOUS
        <3>4. new \in Seq(Nat) /\ Len(new) = take
            <4>1. i + 1 \in 1 .. Len(rs)
                BY ONLY <1>1, <2>1
            <4>2. rs[i + 1].start \in Nat
                BY <4>1, RangesType
            <4> QED BY ONLY <1>1, <3>2, <3>3, <4>2, SliceFacts
        <3>5. new = SubSeq(Space(rs), p + 1, p + take)
            <4>1. i < Len(rs) /\ o + take <= rangeSize(rs[i + 1])
                BY <2>0, <2>1, <3>2
            <4>2. slice(rs[i + 1], o, take)
                  = SubSeq(Space(rs), declaredUpTo(rs)[i] + o + 1, declaredUpTo(rs)[i] + o + take)
                BY ONLY <1>1, <3>2, <4>1, rs \in RangeLists, SliceIsNext
            <4> QED BY <2>0, <3>2, <3>3, <4>2
        <3>6. PICK more : more = ips \o new
            OBVIOUS
        <3>7. more \in Seq(Nat) /\ Len(more) = n + take
            <4>1. more \in Seq(Nat) /\ Len(more) = Len(ips) + Len(new)
                BY ONLY <1>1, <3>4, <3>6, ConcatProperties
            <4> QED BY <1>0, <3>4, <4>1
        <3>8. PICK on : on = Picking(i, o + take, more)
            OBVIOUS
        <3>9. on \in Pickings /\ on.rangeIdx = i /\ on.offset = o + take /\ on.ips = more
            <4>1. o + take \in Nat
                BY ONLY <1>1, <3>2
            <4> QED BY ONLY <1>1, <3>7, <3>8, <4>1 DEF Picking, Pickings
        <3>10. Pos(rs, i, o + take) = p + take /\ p + take <= total
            <4>1. o + take \in Nat /\ o + take <= rangeSize(rs[i + 1]) /\ i < Len(rs)
                BY <1>1, <2>0, <2>1, <3>2
            <4>2. Pos(rs, i, o + take) = declaredUpTo(rs)[i] + (o + take)
                BY ONLY <1>1, <4>1, rs \in RangeLists, PosFacts
            <4>3. Pos(rs, i, o + take) = u + (o + take)
                BY <2>0, <4>2
            <4> QED BY ONLY <1>1, <1>2, <2>1, <3>2, <4>3
        <3>11. Remaining(rs, on) < left
            <4>1. Remaining(rs, on) = (Len(rs) - i) + (total - (p + take))
                BY <1>0, <3>9, <3>10 DEF Remaining
            <4> QED BY ONLY <1>1, <1>2, <2>2, <3>2, <4>1
        <3>12. W[on] = Planned(rs, maxIps, on)
            BY <1>0, <1>6, <2>0, <3>9, <3>11
        <3>13. Planned(rs, maxIps, on) = more \o Upcoming(rs, p + take, room - take)
            <4>1. (IF n + take >= maxIps THEN 0 ELSE maxIps - (n + take)) = room - take
                BY ONLY <1>1, <3>2, maxIps \in Nat
            <4> QED BY <3>7, <3>9, <3>10, <4>1 DEF Planned
        <3>14. Upcoming(rs, p, room) = new \o Upcoming(rs, p + take, room - take)
            <4>1. p \in 0 .. totalDeclaredIps(rs) /\ p + take <= totalDeclaredIps(rs)
                BY <1>0, <1>2, <3>10
            <4>2. Upcoming(rs, p, room)
                  = SubSeq(Space(rs), p + 1, p + take) \o Upcoming(rs, p + take, room - take)
                BY ONLY <1>3, <3>2, <4>1, rs \in RangeLists, UpcomingFacts
            <4> QED BY <3>5, <4>2
        <3>15. Upcoming(rs, p + take, room - take) \in Seq(Nat)
            <4>1. p + take \in 0 .. total /\ room - take \in Nat
                BY ONLY <1>2, <1>3, <3>2, <3>10
            <4>2. p + take \in 0 .. totalDeclaredIps(rs)
                BY <1>0, <4>1
            <4> QED BY ONLY <4>1, <4>2, rs \in RangeLists, UpcomingFacts
        <3>16. (ips \o new) \o Upcoming(rs, p + take, room - take)
               = ips \o (new \o Upcoming(rs, p + take, room - take))
            <4>1. ips \in Seq(Nat) /\ new \in Seq(Nat)
                BY <1>1, <3>4
            <4>2. PICK rest : rest = Upcoming(rs, p + take, room - take)
                OBVIOUS
            <4>3. rest \in Seq(Nat)
                BY <3>15, <4>2
            <4>4. (ips \o new) \o rest = ips \o (new \o rest)
                BY ONLY <4>1, <4>3, ConcatAssociative, SMTT(60)
            <4> QED BY ONLY <4>2, <4>4
        <3>17. PlanStep(rs, maxIps, W, at) = W[on]
            <4>1. ~(o >= rangeSize(rs[i + 1]))
                BY <2>0, <2>4
            <4>2. on = Picking(i, o + AtMost(rangeSize(rs[i + 1]) - o, maxIps - n),
                               ips \o slice(rs[i + 1], o, AtMost(rangeSize(rs[i + 1]) - o, maxIps - n)))
                BY <2>0, <3>1, <3>3, <3>6, <3>8
            <4> QED BY <1>0, <1>6, <4>1, <4>2 DEF PlanStep
        <3> QED BY <1>4, <3>6, <3>12, <3>13, <3>14, <3>16, <3>17
    <2> QED BY <2>3, <2>4
<1> QED BY <1>5, <1>6

\* The function the loop defines exists, and is Planned.
LEMMA WalkIsPlanned ==
    ASSUME NEW rs \in RangeLists, NEW maxIps \in Nat, NEW W,
           W = CHOOSE w : w = [at \in Pickings |-> PlanStep(rs, maxIps, w, at)],
           NEW at \in Pickings
    PROVE  W[at] = Planned(rs, maxIps, at)
<1> DEFINE A == [on \in Pickings |-> Planned(rs, maxIps, on)]
<1>1. A = [on \in Pickings |-> PlanStep(rs, maxIps, A, on)]
    <2>1. ASSUME NEW on \in Pickings PROVE PlanStep(rs, maxIps, A, on) = Planned(rs, maxIps, on)
        <3>1. \A x \in Pickings : A[x] = Planned(rs, maxIps, x)
            OBVIOUS
        <3> HIDE DEF A
        <3> QED BY <3>1, PlanTurn
    <2> QED BY <2>1
<1>2. W = [on \in Pickings |-> PlanStep(rs, maxIps, W, on)]
    <2> HIDE DEF A
    <2> QED BY <1>1
<1>3. \A on \in Pickings : W[on] = PlanStep(rs, maxIps, W, on)
    BY <1>2
<1> HIDE DEF A
<1> DEFINE S == {k \in Nat : \A on \in Pickings : Remaining(rs, on) < k => W[on] = Planned(rs, maxIps, on)}
<1>4. \A on \in Pickings : Remaining(rs, on) \in Int /\ (on.rangeIdx < Len(rs) => Remaining(rs, on) >= 0)
    <2> SUFFICES ASSUME NEW on \in Pickings
                 PROVE  Remaining(rs, on) \in Int /\ (on.rangeIdx < Len(rs) => Remaining(rs, on) >= 0)
        OBVIOUS
    <2>1. on.rangeIdx \in Nat /\ on.offset \in Nat /\ Len(rs) \in Nat
        BY RangesType DEF Pickings
    <2>2. totalDeclaredIps(rs) \in Nat /\ Pos(rs, on.rangeIdx, on.offset) \in Nat
          /\ Pos(rs, on.rangeIdx, on.offset) <= totalDeclaredIps(rs)
        BY <2>1, PosFacts
    <2> QED BY <2>1, <2>2 DEF Remaining
<1>5. 0 \in S
    <2> SUFFICES ASSUME NEW on \in Pickings, Remaining(rs, on) < 0 PROVE W[on] = Planned(rs, maxIps, on)
        OBVIOUS
    <2>1. on.rangeIdx \in Nat /\ Len(rs) \in Nat
        BY RangesType DEF Pickings
    <2>2. ~(on.rangeIdx < Len(rs))
        BY <1>4
    <2>3. on.rangeIdx >= Len(rs)
        BY <2>1, <2>2
    <2> QED BY <1>3, <2>3, PlanTurn
<1>6. ASSUME NEW k \in Nat, k \in S PROVE k + 1 \in S
    <2> SUFFICES ASSUME NEW on \in Pickings, Remaining(rs, on) < k + 1 PROVE W[on] = Planned(rs, maxIps, on)
        OBVIOUS
    <2>1. \A x \in Pickings : Remaining(rs, x) < Remaining(rs, on) => W[x] = Planned(rs, maxIps, x)
        <3> SUFFICES ASSUME NEW x \in Pickings, Remaining(rs, x) < Remaining(rs, on)
                     PROVE  W[x] = Planned(rs, maxIps, x)
            OBVIOUS
        <3>1. Remaining(rs, x) < k
            BY <1>4
        <3> QED BY <1>6, <3>1
    <2> QED BY <1>3, <2>1, PlanTurn
<1> HIDE DEF S
<1>7. PICK k : k \in Nat /\ Remaining(rs, at) < k
    <2>1. Remaining(rs, at) \in Int
        BY <1>4
    <2>2. IF Remaining(rs, at) < 0 THEN Remaining(rs, at) < 0
          ELSE Remaining(rs, at) + 1 \in Nat /\ Remaining(rs, at) < Remaining(rs, at) + 1
        BY <2>1
    <2> QED BY <2>2
<1>8. k \in S
    BY <1>5, <1>6, <1>7, Induction
<1> QED BY <1>7, <1>8 DEF S

\* planChunk answers the addresses that come next.
LEMMA PlanIsRight ==
    ASSUME NEW rs \in RangeLists, NEW cur \in Cursors(rs), NEW n \in Nat
    PROVE  planChunk(rs, cur, n) = Upcoming(rs, PositionOf(rs, cur), n)
<1> DEFINE from == clamp(rs, cur)
           walk == CHOOSE w : w = [at \in Pickings |-> PlanStep(rs, n, w, at)]
<1>1. from.rangeIdx \in Nat /\ from.offset \in Nat
      /\ Pos(rs, from.rangeIdx, from.offset) = PositionOf(rs, cur)
    BY ClampFacts
<1>2. planChunk(rs, cur, n) = walk[Picking(from.rangeIdx, from.offset, <<>>)]
    BY DEF planChunk, Picking, Pickings, PlanStep
<1> HIDE DEF from
<1>3. PICK at : at = Picking(from.rangeIdx, from.offset, <<>>)
    OBVIOUS
<1>4. at \in Pickings /\ at.rangeIdx = from.rangeIdx /\ at.offset = from.offset /\ at.ips = <<>>
    BY <1>1, <1>3 DEF Picking, Pickings
<1>5. PICK W : W = walk
    OBVIOUS
<1>6. W[at] = Planned(rs, n, at)
    BY <1>4, <1>5, WalkIsPlanned
<1> HIDE DEF walk
<1>7. PICK p : p = PositionOf(rs, cur)
    OBVIOUS
<1>8. Planned(rs, n, at) = <<>> \o Upcoming(rs, p, n)
    <2>1. Len(<<>>) = 0 /\ (IF 0 >= n THEN 0 ELSE n - 0) = n
        OBVIOUS
    <2> QED BY <1>1, <1>4, <1>7, <2>1 DEF Planned
<1>9. p \in 0 .. totalDeclaredIps(rs)
    <2>1. /\ totalDeclaredIps(rs) \in Nat /\ Pos(rs, from.rangeIdx, from.offset) \in Nat
          /\ Pos(rs, from.rangeIdx, from.offset) <= totalDeclaredIps(rs)
        BY <1>1, PosFacts
    <2> QED BY <1>1, <1>7, <2>1
<1>10. Upcoming(rs, p, n) \in Seq(Nat)
    BY <1>9, UpcomingFacts
<1>11. <<>> \o Upcoming(rs, p, n) = Upcoming(rs, p, n)
    BY <1>10, ConcatEmptySeq
<1> QED BY <1>2, <1>3, <1>5, <1>6, <1>7, <1>8, <1>11

\* advanceCursor and planChunk, which jump from range to range over empty and corrupt ones,
\* answer what counting along the list of all declared addresses answers, from every valid
\* cursor, for every list of ranges, count and chunk size (DiscoveryCursor.ts, "advancing N
\* positions is O(ranges), never O(IPs)").
THEOREM ArithmeticIsRight == SpaceIsDeclared /\ CursorArithmetic
<1> SUFFICES ASSUME NEW rs \in RangeLists, NEW cur \in Cursors(rs), NEW n \in Nat
             PROVE  LET at == PositionOf(rs, cur)
                        total == totalDeclaredIps(rs)
                        to == advanceCursor(rs, cur, n)
                    IN  /\ at \in 0 .. total
                        /\ to.lapComplete = (at + n >= total)
                        /\ ~to.lapComplete => to.next \in Cursors(rs) /\ PositionOf(rs, to.next) = at + n
                        /\ planChunk(rs, cur, n) = SubSeq(Space(rs), at + 1, AtMost(at + n, total))
    <2>1. \A rs \in RangeLists : (0 .. totalDeclaredIps(rs)) \cup {CHUNK_MAX_IPS} \subseteq Nat
        BY DiscoveryAssumption
    <2> QED BY <2>1, SpaceIsRight DEF CursorArithmetic
<1> PICK at, total : at = PositionOf(rs, cur) /\ total = totalDeclaredIps(rs)
    OBVIOUS
<1>1. at \in 0 .. total
    <2>1. clamp(rs, cur).rangeIdx \in Nat /\ clamp(rs, cur).offset \in Nat
          /\ Pos(rs, clamp(rs, cur).rangeIdx, clamp(rs, cur).offset) = PositionOf(rs, cur)
        BY ClampFacts
    <2> PICK i, o : i = clamp(rs, cur).rangeIdx /\ o = clamp(rs, cur).offset
        OBVIOUS
    <2>2. /\ totalDeclaredIps(rs) \in Nat /\ Pos(rs, i, o) \in Nat /\ Pos(rs, i, o) <= totalDeclaredIps(rs)
        BY <2>1, PosFacts
    <2> QED BY <2>1, <2>2
<1>2. advanceCursor(rs, cur, n) = Target(rs, at + n)
    BY AdvanceIsRight
<1>3. at + n \in Nat
    <2>1. totalDeclaredIps(rs) \in Nat
        BY PosFacts
    <2> QED BY <1>1
<1>4. /\ Target(rs, at + n).lapComplete = (at + n >= totalDeclaredIps(rs))
      /\ ~Target(rs, at + n).lapComplete =>
             Target(rs, at + n).next \in Cursors(rs) /\ PositionOf(rs, Target(rs, at + n).next) = at + n
    BY <1>3, TargetFacts
<1>5. planChunk(rs, cur, n) = SubSeq(Space(rs), at + 1, AtMost(at + n, total))
    BY PlanIsRight DEF Upcoming
<1> QED BY <1>1, <1>2, <1>4, <1>5

----------------------------------------------------------------------------
(* The sweep.  What the protocol adds to the arithmetic of the cursor: the  *)
(* saved count is the position of the saved cursor, everything up to it was *)
(* probed, and a running chunk goes on from there.                          *)

\* Everything the saved count says was probed.
ProbedUpTo(rs, n) == \A k \in 1 .. n : Space(rs)[k] \in seen
RowOK ==
    /\ scanState = [fingerprint |-> scanState.fingerprint, cursor |-> scanState.cursor,
                    scanned |-> scanState.scanned, lapOpen |-> scanState.lapOpen]
    /\ scanState.fingerprint \in RangeLists \cup {NoFingerprint} /\ scanState.lapOpen \in BOOLEAN
    /\ scanState.fingerprint = NoFingerprint => scanState = EMPTY_SCAN_STATE
    /\ scanState.fingerprint \in RangeLists =>
          /\ scanState.cursor \in Cursors(scanState.fingerprint)
          /\ scanState.scanned = PositionOf(scanState.fingerprint, scanState.cursor)
          /\ ProbedUpTo(scanState.fingerprint, scanState.scanned)
Chunk == [ranges : RangeLists \cup {<<>>}, cursor : [rangeIdx : Nat, offset : Nat],
          scanned : Nat, plan : Seq(Nat), taken : Nat, probing : SUBSET Nat]
\* A chunk at work is over the ranges of the row, from where the row stands.
ChunkOK ==
    /\ chunk \in Chunk
    /\ phase = "idle" => chunk = NoChunk
    /\ phase # "idle" =>
          /\ chunk.ranges = scanState.fingerprint /\ chunk.ranges \in RangeLists
          /\ chunk.cursor = scanState.cursor /\ chunk.scanned = scanState.scanned
          /\ chunk.plan = planChunk(chunk.ranges, chunk.cursor, CHUNK_MAX_IPS)
    /\ phase = "pinned" => chunk.taken = 0 /\ chunk.probing = {} /\ NumHosts > 0
\* What was taken of the plan is being probed or was.
TakenOK ==
    /\ chunk.taken <= Len(chunk.plan) /\ chunk.probing \subseteq 1 .. chunk.taken
    /\ Cardinality(chunk.probing) <= CONCURRENCY_LIMIT
    /\ \A i \in 1 .. chunk.taken : i \in chunk.probing \/ chunk.plan[i] \in seen
FlagsOK ==
    /\ ranges \in RangeLists /\ phase \in {"idle", "pinned", "chunk"}
    /\ over \in BOOLEAN /\ restartPending \in BOOLEAN /\ scheduled \in BOOLEAN /\ asked \in BOOLEAN
    /\ pinnedIdx \in Nat /\ pinnedDone \in 0 .. NumHosts
    /\ (phase = "idle" => ~restartPending)
    /\ crashes \in 0 .. MaxCrashes /\ edits \in 0 .. MaxEdits
SweepInv == FlagsOK /\ RowOK /\ ChunkOK /\ TakenOK

\* What the arithmetic says of the plan of a chunk: it goes on from the cursor, is no longer
\* than a chunk and than what is left of the lap.
LEMMA PlanFits ==
    ASSUME NEW rs \in RangeLists, NEW cur \in Cursors(rs)
    PROVE  /\ PositionOf(rs, cur) \in Nat /\ totalDeclaredIps(rs) \in Nat
           /\ PositionOf(rs, cur) <= totalDeclaredIps(rs)
           /\ planChunk(rs, cur, CHUNK_MAX_IPS) \in Seq(Nat)
           /\ Len(planChunk(rs, cur, CHUNK_MAX_IPS)) <= CHUNK_MAX_IPS
           /\ PositionOf(rs, cur) + Len(planChunk(rs, cur, CHUNK_MAX_IPS)) <= totalDeclaredIps(rs)
           /\ \A j \in 1 .. Len(planChunk(rs, cur, CHUNK_MAX_IPS)) :
                 planChunk(rs, cur, CHUNK_MAX_IPS)[j] = Space(rs)[PositionOf(rs, cur) + j]
<1> DEFINE at == PositionOf(rs, cur)
           total == totalDeclaredIps(rs)
           sp == Space(rs)
           plan == planChunk(rs, cur, CHUNK_MAX_IPS)
<1>1. sp \in Seq(Nat) /\ Len(sp) = total
    <2>1. sp \in Seq(Declared(rs)) /\ Len(sp) = total
        BY ArithmeticIsRight DEF SpaceIsDeclared
    <2>2. Declared(rs) \subseteq Nat
        <3>1. \A j \in DOMAIN rs : rs[j].start \in Nat /\ rs[j].end \in Nat
            BY RangesType, LenProperties
        <3> QED BY <3>1 DEF Declared
    <2> HIDE DEF sp
    <2> QED BY <2>1, <2>2
<1>2. /\ at \in 0 .. total
      /\ plan = SubSeq(sp, at + 1, AtMost(at + CHUNK_MAX_IPS, total))
    BY ArithmeticIsRight DEF CursorArithmetic
<1>3. total \in Nat /\ CHUNK_MAX_IPS \in Nat
    <2> HIDE DEF sp, total
    <2> QED BY <1>1, DiscoveryAssumption
<1> HIDE DEF at, total, sp, plan
<1>4. at \in Nat /\ at <= total
    BY <1>2, <1>3
<1>5. PICK m \in Nat : /\ m = AtMost(at + CHUNK_MAX_IPS, total)
                       /\ at <= m /\ m <= total /\ m <= at + CHUNK_MAX_IPS
    BY <1>3, <1>4 DEF AtMost
<1>6. /\ plan \in Seq(Nat) /\ Len(plan) = m - at
      /\ \A j \in 1 .. Len(plan) : plan[j] = sp[at + j]
    <2>1. \A j \in at + 1 .. m : sp[j] \in Nat
        <3>1. \A j \in at + 1 .. m : j \in 1 .. Len(sp)
            BY <1>1, <1>4, <1>5
        <3> QED BY <1>1, <3>1, ElementOfSeq
    <2>2. at + 1 \in Int /\ m \in Int /\ m - (at + 1) + 1 = m - at
          /\ (IF at + 1 <= m THEN m - (at + 1) + 1 ELSE 0) = m - at
          /\ \A j \in 1 .. m - at : (at + 1) + j - 1 = at + j
        BY <1>4, <1>5
    <2>3. /\ SubSeq(sp, at + 1, m) \in Seq(Nat)
          /\ Len(SubSeq(sp, at + 1, m)) = IF at + 1 <= m THEN m - (at + 1) + 1 ELSE 0
          /\ \A j \in 1 .. m - (at + 1) + 1 : SubSeq(sp, at + 1, m)[j] = sp[(at + 1) + j - 1]
        BY ONLY <2>1, <2>2, SubSeqProperties
    <2>4. plan = SubSeq(sp, at + 1, m)
        BY <1>2, <1>5
    <2> QED BY ONLY <2>2, <2>3, <2>4
<1>7. Len(plan) <= CHUNK_MAX_IPS /\ at + Len(plan) <= total
    BY <1>3, <1>4, <1>5, <1>6
<1> QED BY <1>3, <1>4, <1>6, <1>7 DEF at, total, sp, plan

\* And of where a consumption leads.
LEMMA AdvanceFits ==
    ASSUME NEW rs \in RangeLists, NEW cur \in Cursors(rs), NEW n \in Nat,
           PositionOf(rs, cur) + n <= totalDeclaredIps(rs)
    PROVE  /\ advanceCursor(rs, cur, n).lapComplete =>
                 PositionOf(rs, cur) + n = totalDeclaredIps(rs)
           /\ ~advanceCursor(rs, cur, n).lapComplete =>
                 /\ advanceCursor(rs, cur, n).next \in Cursors(rs)
                 /\ PositionOf(rs, advanceCursor(rs, cur, n).next) = PositionOf(rs, cur) + n
<1> DEFINE at == PositionOf(rs, cur)
           total == totalDeclaredIps(rs)
           to == advanceCursor(rs, cur, n)
<1>1. at \in Nat /\ total \in Nat /\ at <= total /\ at + n <= total
    BY PlanFits
<1>2. n \in 0 .. total
    <2> HIDE DEF at, total
    <2> QED BY <1>1
<1>3. /\ to.lapComplete = (at + n >= total)
      /\ ~to.lapComplete => to.next \in Cursors(rs) /\ PositionOf(rs, to.next) = at + n
    BY <1>2, ArithmeticIsRight DEF CursorArithmetic
<1>4. at + n >= total => at + n = total
    <2> HIDE DEF at, total
    <2> QED BY <1>1
<1> QED BY <1>3, <1>4

\* A row at the start of a lap claims nothing.
LEMMA StartIsOK ==
    ASSUME NEW rs \in RangeLists
    PROVE  CURSOR_START \in Cursors(rs) /\ PositionOf(rs, CURSOR_START) = 0 /\ ProbedUpTo(rs, 0)
BY ArithmeticIsRight DEF Cursors, SpaceIsDeclared, ProbedUpTo

\* A row that is written for ranges is what its writer says.
LEMMA RowWritten ==
    ASSUME NEW rs \in RangeLists, NEW cur, NEW n, NEW open \in BOOLEAN,
           scanState' = [fingerprint |-> rs, cursor |-> cur, scanned |-> n, lapOpen |-> open],
           cur \in Cursors(rs), n = PositionOf(rs, cur), ProbedUpTo(rs, n)'
    PROVE  RowOK'
<1>1. /\ scanState'.fingerprint = rs /\ scanState'.cursor = cur
      /\ scanState'.scanned = n /\ scanState'.lapOpen = open
    OBVIOUS
<1>2. rs # NoFingerprint
    BY DiscoveryAssumption
<1> QED BY <1>1, <1>2 DEF RowOK

\* A reset, and the end of a lap, leave a row at the start.
LEMMA RowReset ==
    ASSUME NEW rs \in RangeLists,
           scanState' = resetScanCursor(rs) \/ scanState' = recordLapComplete(rs)
    PROVE  RowOK'
<1>1. PICK open \in BOOLEAN :
          scanState' = [fingerprint |-> rs, cursor |-> CURSOR_START, scanned |-> 0, lapOpen |-> open]
    BY DEF resetScanCursor, saveScanCursor, recordLapComplete
<1>2. ProbedUpTo(rs, 0)'
    BY DEF ProbedUpTo
<1> QED BY <1>1, <1>2, StartIsOK, RowWritten

\* A row nobody writes stays right as the history grows.
LEMMA RowKept ==
    ASSUME RowOK, UNCHANGED scanState, seen \subseteq seen' PROVE RowOK'
BY DEF RowOK, ProbedUpTo

\* The locals before scan() runs are well typed.
LEMMA NoChunkType == NoChunk \in Chunk
<1>1. CURSOR_START \in [rangeIdx : Nat, offset : Nat]
    BY DEF CURSOR_START, CursorAt
<1> QED BY <1>1 DEF NoChunk, Chunk

\* Nothing is taken when scan() is idle.
LEMMA IdleIsOK ==
    ASSUME phase' = "idle", chunk' = NoChunk PROVE ChunkOK' /\ TakenOK'
<1>3. NoChunk.taken = 0 /\ NoChunk.probing = {} /\ NoChunk.plan = <<>> /\ Len(<<>>) = 0
    BY DEF NoChunk
<1>4. ChunkOK'
    BY NoChunkType DEF ChunkOK
<1>5. TakenOK'
    <2>1. chunk'.taken = 0 /\ chunk'.probing = {} /\ chunk'.plan = <<>>
        BY <1>3
    <2>2. Cardinality({}) <= CONCURRENCY_LIMIT
        BY FS_EmptySet, DiscoveryAssumption
    <2> QED BY <1>3, <2>1, <2>2 DEF TakenOK
<1> QED BY <1>4, <1>5

\* A cursor is a pair of numbers.
LEMMA CursorType ==
    ASSUME NEW rs \in RangeLists
    PROVE  Cursors(rs) \subseteq [rangeIdx : Nat, offset : Nat]
<1>1. \A idx \in Nat, off \in Nat : CursorAt(idx, off) \in [rangeIdx : Nat, offset : Nat]
    BY DEF CursorAt
<1> SUFFICES ASSUME NEW c \in Cursors(rs) PROVE c \in [rangeIdx : Nat, offset : Nat]
    OBVIOUS
<1>2. CASE c = CURSOR_START
    BY <1>1, <1>2 DEF CURSOR_START
<1>3. ASSUME NEW idx \in 0 .. Len(rs) - 1, NEW off \in 0 .. rangeSize(rs[idx + 1]), c = CursorAt(idx, off)
      PROVE  c \in [rangeIdx : Nat, offset : Nat]
    <2>1. idx \in Nat /\ off \in Nat
        OBVIOUS
    <2> QED BY <1>1, <1>3, <2>1
<1> QED BY <1>2, <1>3 DEF Cursors

\* The workers start with the first addresses of the plan, and nothing else changes.
LEMMA WorkersStart ==
    ASSUME NEW c \in Chunk, startWorkers(c)
    PROVE  /\ chunk' \in Chunk /\ TakenOK'
           /\ chunk'.ranges = c.ranges /\ chunk'.cursor = c.cursor /\ chunk'.scanned = c.scanned
           /\ chunk'.plan = c.plan
<1> DEFINE len == Len(c.plan)
<1>1. len \in Nat /\ CONCURRENCY_LIMIT \in Nat
    BY DiscoveryAssumption DEF Chunk
<1>2. PICK n \in Nat : n = AtMost(CONCURRENCY_LIMIT, len) /\ n <= len /\ n <= CONCURRENCY_LIMIT
    <2> HIDE DEF len
    <2> QED BY <1>1 DEF AtMost
<1>3. chunk' = [c EXCEPT !.taken = n, !.probing = 1 .. n]
    BY <1>2 DEF startWorkers
<1>4. chunk'.taken = n /\ chunk'.probing = 1 .. n /\ chunk'.plan = c.plan
    BY <1>3 DEF Chunk
<1>5. chunk' \in Chunk
    <2>1. 1 .. n \in SUBSET Nat
        OBVIOUS
    <2> QED BY <1>3, <2>1 DEF Chunk
<1>6. Cardinality(1 .. n) = n
    BY FS_Interval
<1>7. TakenOK'
    BY <1>2, <1>4, <1>6 DEF TakenOK
<1> QED BY <1>3, <1>4, <1>5, <1>7 DEF Chunk

\* scan() begins: a changed list of ranges starts over, and the chunk goes on from the row.
LEMMA SweepStarts ==
    ASSUME SweepInv, ScanStarts PROVE SweepInv'
<1> USE DEF SweepInv
<1> DEFINE changed == scanState.fingerprint # ranges
           st == IF changed THEN resetScanCursor(ranges) ELSE scanState
           opening == isAtLapStart(st)
           c == [NoChunk EXCEPT !.ranges = ranges, !.cursor = st.cursor,
                     !.scanned = st.scanned,
                     !.plan = planChunk(ranges, st.cursor, CHUNK_MAX_IPS)]
<1>1. ranges \in RangeLists /\ phase = "idle"
    BY DEF FlagsOK, ScanStarts
<1>2. /\ scanState' = IF opening /\ ~st.lapOpen
                      THEN saveScanCursor(ranges, CURSOR_START, 0) ELSE st
      /\ seen' = IF changed THEN {} ELSE seen
      /\ IF opening /\ NumHosts > 0
         THEN phase' = "pinned" /\ chunk' = c
         ELSE phase' = "chunk" /\ startWorkers(c)
      /\ UNCHANGED <<over, restartPending, scheduled, pinnedIdx, pinnedDone, asked, configVars>>
    BY DEF ScanStarts
<1>3. FlagsOK'
    BY <1>1, <1>2 DEF FlagsOK, configVars
<1>4. RowOK' /\ scanState'.fingerprint = ranges /\ scanState'.cursor = st.cursor
             /\ scanState'.scanned = st.scanned
    <2>1. CASE opening /\ ~st.lapOpen
        <3>1. scanState' = resetScanCursor(ranges) /\ st.cursor = CURSOR_START /\ st.scanned = 0
            BY <1>2, <2>1 DEF resetScanCursor, isAtLapStart
        <3> QED BY <1>1, <3>1, RowReset DEF resetScanCursor, saveScanCursor
    <2>2. CASE ~(opening /\ ~st.lapOpen)
        <3>1. scanState' = st
            BY <1>2, <2>2
        <3>2. CASE changed
            BY <1>1, <3>1, <3>2, RowReset DEF resetScanCursor, saveScanCursor
        <3>3. CASE ~changed
            BY <1>2, <3>1, <3>3, RowKept
        <3> QED BY <3>2, <3>3
    <2> QED BY <2>1, <2>2
<1>5. /\ st.cursor \in Cursors(ranges) /\ st.scanned = PositionOf(ranges, st.cursor)
    <2>1. ranges # NoFingerprint
        BY <1>1, DiscoveryAssumption
    <2> QED BY <1>1, <1>4, <2>1 DEF RowOK
<1>6. /\ c.ranges = ranges /\ c.cursor = st.cursor /\ c.scanned = st.scanned
      /\ c.plan = planChunk(ranges, st.cursor, CHUNK_MAX_IPS)
      /\ c.taken = 0 /\ c.probing = {}
    BY DEF NoChunk
<1>7. c \in Chunk
    <2>1. st.cursor \in [rangeIdx : Nat, offset : Nat]
        BY <1>1, <1>5, CursorType
    <2>2. st.scanned \in Nat /\ planChunk(ranges, st.cursor, CHUNK_MAX_IPS) \in Seq(Nat)
        BY <1>1, <1>5, PlanFits
    <2> HIDE DEF st
    <2> QED BY <1>1, <2>1, <2>2, NoChunkType DEF Chunk
<1> HIDE DEF c, st, opening, changed
<1>8. CASE opening /\ NumHosts > 0
    <2>1. phase' = "pinned" /\ chunk' = c
        BY <1>2, <1>8
    <2>2. ChunkOK'
        BY <1>1, <1>4, <1>6, <1>7, <1>8, <2>1 DEF ChunkOK
    <2>3. TakenOK'
        <3>1. Len(c.plan) \in Nat
            BY <1>7 DEF Chunk
        <3>2. Cardinality({}) <= CONCURRENCY_LIMIT
            BY FS_EmptySet, DiscoveryAssumption
        <3>3. chunk'.taken = 0 /\ chunk'.probing = {} /\ chunk'.plan = c.plan
            BY <1>6, <2>1
        <3>4. 0 <= Len(c.plan) /\ 1 .. 0 = {}
            BY <3>1
        <3> QED BY <3>2, <3>3, <3>4 DEF TakenOK
    <2> QED BY <1>3, <1>4, <2>2, <2>3
<1>9. CASE ~(opening /\ NumHosts > 0)
    <2>1. phase' = "chunk" /\ startWorkers(c)
        BY <1>2, <1>9
    <2>2. /\ chunk' \in Chunk /\ TakenOK' /\ chunk'.plan = c.plan
          /\ chunk'.ranges = c.ranges /\ chunk'.cursor = c.cursor /\ chunk'.scanned = c.scanned
        BY <1>7, <2>1, WorkersStart
    <2>3. ChunkOK'
        BY <1>1, <1>4, <1>6, <2>1, <2>2 DEF ChunkOK
    <2> QED BY <1>3, <1>4, <2>2, <2>3
<1> QED BY <1>8, <1>9

\* The pinned hosts are looked at before the workers start.
LEMMA SweepPins ==
    ASSUME SweepInv, scanPinnedHost \/ PinnedEnds PROVE SweepInv'
<1> USE DEF SweepInv
<1>1. phase = "pinned" /\ NumHosts > 0 /\ NumHosts \in Nat
    BY DiscoveryAssumption DEF scanPinnedHost, PinnedEnds, ChunkOK
<1>2. RowOK'
    BY RowKept DEF scanPinnedHost, PinnedEnds
<1>3. CASE scanPinnedHost
    <2>1. /\ UNCHANGED <<scanState, phase, chunk, over, restartPending, scheduled, pinnedIdx, seen, asked,
                         configVars>>
          /\ pinnedDone < NumHosts /\ pinnedDone' = pinnedDone + 1
        BY <1>3 DEF scanPinnedHost
    <2>2. ChunkOK' /\ TakenOK'
        BY <2>1 DEF ChunkOK, TakenOK
    <2>3. pinnedDone' \in 0 .. NumHosts
        BY <1>1, <2>1 DEF FlagsOK
    <2>4. FlagsOK'
        BY <2>1, <2>3 DEF FlagsOK, configVars
    <2> QED BY <1>2, <2>2, <2>4
<1>4. CASE PinnedEnds
    <2>1. /\ UNCHANGED <<scanState, over, restartPending, scheduled, seen, asked, configVars>>
          /\ phase' = "chunk" /\ pinnedDone' = 0 /\ pinnedIdx' = nextHost /\ startWorkers(chunk)
        BY <1>4 DEF PinnedEnds
    <2>2. nextHost \in Nat /\ 0 \in 0 .. NumHosts
        BY <1>1 DEF nextHost, FlagsOK
    <2>3. FlagsOK'
        BY <1>1, <2>1, <2>2 DEF FlagsOK, configVars
    <2>4. /\ chunk' \in Chunk /\ TakenOK' /\ chunk'.plan = chunk.plan
          /\ chunk'.ranges = chunk.ranges /\ chunk'.cursor = chunk.cursor
          /\ chunk'.scanned = chunk.scanned
        BY <2>1, WorkersStart DEF ChunkOK
    <2>5. ChunkOK'
        BY <1>1, <2>1, <2>4 DEF ChunkOK
    <2> QED BY <1>2, <2>3, <2>4, <2>5
<1> QED BY <1>3, <1>4

\* A probe ends: its address was seen, and its worker takes the next one of the plan.
LEMMA SweepProbes ==
    ASSUME SweepInv, NEW i \in Nat, probeEnds(i) PROVE SweepInv'
<1> USE DEF SweepInv
<1>1. /\ phase = "chunk" /\ i \in chunk.probing /\ seen' = seen \cup {chunk.plan[i]}
      /\ UNCHANGED <<scanState, phase, over, restartPending, scheduled, pinnedIdx, pinnedDone, asked,
                     configVars>>
    BY DEF probeEnds
<1>2. FlagsOK' /\ RowOK'
    BY <1>1, RowKept DEF FlagsOK, configVars
<1>3. /\ chunk \in Chunk /\ chunk.taken \in Nat /\ Len(chunk.plan) \in Nat
      /\ chunk.taken <= Len(chunk.plan) /\ chunk.probing \subseteq 1 .. chunk.taken
    BY DEF ChunkOK, TakenOK, Chunk
<1>4. /\ IsFiniteSet(chunk.probing) /\ Cardinality(chunk.probing) \in Nat
      /\ Cardinality(chunk.probing \ {i}) = Cardinality(chunk.probing) - 1
      /\ IsFiniteSet(chunk.probing \ {i})
    <2>1. IsFiniteSet(1 .. chunk.taken)
        <3>1. PICK t \in Nat : t = chunk.taken
            BY <1>3
        <3>2. IsFiniteSet(1 .. t)
            BY FS_Interval
        <3> QED BY <3>1, <3>2
    <2>2. IsFiniteSet(chunk.probing)
        BY <1>3, <2>1, FS_Subset
    <2> QED BY <1>1, <2>2, FS_CardinalityType, FS_RemoveElement
<1>5. PICK m \in Nat : m = Cardinality(chunk.probing) /\ m <= CONCURRENCY_LIMIT
    BY <1>4 DEF TakenOK
<1>6. CASE ~over /\ chunk.taken < Len(chunk.plan)
    <2>1. PICK t \in Nat : t = chunk.taken /\ t < Len(chunk.plan)
        BY <1>3, <1>6
    <2>2. chunk' = [chunk EXCEPT !.taken = t + 1, !.probing = (chunk.probing \ {i}) \cup {t + 1}]
        BY <1>6, <2>1 DEF probeEnds
    <2>3. /\ chunk'.taken = t + 1 /\ chunk'.probing = (chunk.probing \ {i}) \cup {t + 1}
          /\ chunk'.plan = chunk.plan /\ chunk'.ranges = chunk.ranges
          /\ chunk'.cursor = chunk.cursor /\ chunk'.scanned = chunk.scanned
        BY <1>3, <2>2 DEF Chunk
    <2>4. (chunk.probing \ {i}) \cup {t + 1} \subseteq 1 .. (t + 1)
        BY <1>3, <2>1
    <2>5. chunk' \in Chunk
        <3>1. t + 1 \in Nat /\ (chunk.probing \ {i}) \cup {t + 1} \in SUBSET Nat
            BY <1>3
        <3> QED BY <1>3, <2>2, <3>1 DEF Chunk
    <2>6. ChunkOK'
        BY <1>1, <2>3, <2>5 DEF ChunkOK
    <2>7. Cardinality(chunk'.probing) <= CONCURRENCY_LIMIT
        <3>1. t + 1 \notin chunk.probing \ {i}
            BY <1>3, <2>1
        <3>2. Cardinality((chunk.probing \ {i}) \cup {t + 1}) = Cardinality(chunk.probing \ {i}) + 1
            BY <1>4, <3>1, FS_AddElement
        <3>3. Cardinality(chunk'.probing) = (m - 1) + 1
            BY <1>4, <1>5, <2>3, <3>2
        <3> QED BY <1>5, <3>3
    <2>8. t + 1 <= Len(chunk.plan)
        BY <1>3, <2>1
    <2>9. \A j \in 1 .. (t + 1) : j \in chunk'.probing \/ chunk.plan[j] \in seen'
        <3> SUFFICES ASSUME NEW j \in 1 .. (t + 1), j # t + 1, j # i
                     PROVE  j \in chunk.probing \/ chunk.plan[j] \in seen
            BY <1>1, <2>3
        <3>1. j \in 1 .. chunk.taken
            BY <2>1
        <3> QED BY <3>1 DEF TakenOK
    <2>10. TakenOK'
        BY <2>3, <2>4, <2>7, <2>8, <2>9 DEF TakenOK
    <2> QED BY <1>2, <2>6, <2>10
<1>7. CASE ~(~over /\ chunk.taken < Len(chunk.plan))
    <2>1. chunk' = [chunk EXCEPT !.probing = chunk.probing \ {i}]
        BY <1>7 DEF probeEnds
    <2>2. /\ chunk'.taken = chunk.taken /\ chunk'.probing = chunk.probing \ {i}
          /\ chunk'.plan = chunk.plan /\ chunk'.ranges = chunk.ranges
          /\ chunk'.cursor = chunk.cursor /\ chunk'.scanned = chunk.scanned
          /\ chunk' \in Chunk
        BY <1>3, <2>1 DEF Chunk
    <2>3. ChunkOK'
        BY <1>1, <2>2 DEF ChunkOK
    <2>4. Cardinality(chunk'.probing) <= CONCURRENCY_LIMIT
        <3>1. Cardinality(chunk'.probing) = m - 1
            BY <1>4, <1>5, <2>2
        <3>2. CONCURRENCY_LIMIT \in Nat
            BY DiscoveryAssumption
        <3> QED BY <1>5, <3>1, <3>2
    <2>5. \A j \in 1 .. chunk.taken : j \in chunk'.probing \/ chunk.plan[j] \in seen'
        BY <1>1, <2>2 DEF TakenOK
    <2>6. TakenOK'
        BY <1>3, <2>2, <2>4, <2>5 DEF TakenOK
    <2> QED BY <1>2, <2>3, <2>6
<1> QED BY <1>6, <1>7

\* The chunk is over: what it took continues what had been probed.
LEMMA ChunkProbed ==
    ASSUME SweepInv, phase = "chunk", chunk.probing = {}
    PROVE  /\ chunk.ranges \in RangeLists /\ chunk.ranges = scanState.fingerprint
           /\ chunk.cursor \in Cursors(chunk.ranges) /\ chunk.taken \in Nat
           /\ chunk.scanned = PositionOf(chunk.ranges, chunk.cursor)
           /\ chunk.scanned + chunk.taken <= totalDeclaredIps(chunk.ranges)
           /\ ProbedUpTo(chunk.ranges, chunk.scanned + chunk.taken)
<1> USE DEF SweepInv
<1> DEFINE rs == chunk.ranges
           at == PositionOf(rs, chunk.cursor)
<1>1. /\ rs \in RangeLists /\ rs = scanState.fingerprint /\ chunk \in Chunk
      /\ chunk.cursor = scanState.cursor /\ chunk.scanned = scanState.scanned
      /\ chunk.plan = planChunk(rs, chunk.cursor, CHUNK_MAX_IPS)
    BY DEF ChunkOK
<1>2. chunk.cursor \in Cursors(rs) /\ chunk.scanned = at /\ ProbedUpTo(rs, at)
    BY <1>1 DEF RowOK
<1>3. chunk.taken \in Nat /\ chunk.taken <= Len(chunk.plan) /\ Len(chunk.plan) \in Nat
    BY <1>1 DEF TakenOK, Chunk
<1>4. \A j \in 1 .. chunk.taken : chunk.plan[j] \in seen
    BY DEF TakenOK
<1>5. /\ at \in Nat /\ totalDeclaredIps(rs) \in Nat
      /\ at + Len(chunk.plan) <= totalDeclaredIps(rs)
      /\ \A j \in 1 .. Len(chunk.plan) : chunk.plan[j] = Space(rs)[at + j]
    BY <1>1, <1>2, PlanFits
<1> HIDE DEF at, rs
<1>6. at + chunk.taken <= totalDeclaredIps(rs)
    BY <1>3, <1>5
<1>7. ProbedUpTo(rs, at + chunk.taken)
    <2> SUFFICES ASSUME NEW k \in 1 .. (at + chunk.taken) PROVE Space(rs)[k] \in seen
        BY DEF ProbedUpTo
    <2>1. ASSUME k <= at PROVE Space(rs)[k] \in seen
        <3>1. k \in 1 .. at
            BY <1>3, <1>5, <2>1
        <3> QED BY <1>2, <3>1 DEF ProbedUpTo
    <2>2. ASSUME ~(k <= at) PROVE Space(rs)[k] \in seen
        <3>1. PICK j \in 1 .. chunk.taken : k = at + j
            <4>1. k - at \in 1 .. chunk.taken /\ k = at + (k - at)
                BY <1>3, <1>5, <2>2
            <4> QED BY <4>1
        <3>2. j \in 1 .. Len(chunk.plan)
            BY <1>3
        <3> QED BY <1>4, <1>5, <3>1, <3>2
    <2> QED BY <2>1, <2>2
<1>8. chunk.scanned = at
    BY <1>2
<1> QED BY <1>1, <1>2, <1>3, <1>6, <1>7, <1>8 DEF rs, at

\* The end of scan() records the lap, saves where the chunk stopped, or starts over.
LEMMA SweepEnds ==
    ASSUME SweepInv, ChunkEnds PROVE SweepInv'
<1> DEFINE to == advanceCursor(chunk.ranges, chunk.cursor, chunk.taken)
<1>1. /\ phase = "chunk" /\ chunk.probing = {} /\ idleLocals /\ restartPending' = FALSE
      /\ scanState' = IF restartPending THEN resetScanCursor(ranges)
                      ELSE IF to.lapComplete THEN recordLapComplete(chunk.ranges)
                      ELSE saveScanCursor(chunk.ranges, to.next, chunk.scanned + chunk.taken)
      /\ seen' = IF restartPending \/ to.lapComplete THEN {} ELSE seen
      /\ pinnedIdx' \in {0, pinnedIdx} /\ UNCHANGED <<scheduled, configVars>>
    BY DEF ChunkEnds, consumed
<1>2. FlagsOK' /\ ranges \in RangeLists
    <2>1. 0 \in 0 .. NumHosts
        BY DiscoveryAssumption
    <2>2. pinnedIdx' \in Nat
        BY <1>1 DEF SweepInv, FlagsOK
    <2>3. /\ phase' = "idle" /\ over' = FALSE /\ pinnedDone' = 0 /\ asked' = FALSE
          /\ restartPending' = FALSE /\ UNCHANGED <<scheduled, ranges, crashes, edits>>
        BY <1>1 DEF idleLocals, configVars
    <2> QED BY <2>1, <2>2, <2>3 DEF SweepInv, FlagsOK
<1>3. ChunkOK' /\ TakenOK'
    BY <1>1, IdleIsOK DEF idleLocals
<1>4. /\ chunk.ranges \in RangeLists /\ chunk.cursor \in Cursors(chunk.ranges) /\ chunk.taken \in Nat
      /\ chunk.scanned = PositionOf(chunk.ranges, chunk.cursor)
      /\ chunk.scanned + chunk.taken <= totalDeclaredIps(chunk.ranges)
      /\ ProbedUpTo(chunk.ranges, chunk.scanned + chunk.taken)
    BY <1>1, ChunkProbed
<1>5. ~to.lapComplete => /\ to.next \in Cursors(chunk.ranges)
                         /\ PositionOf(chunk.ranges, to.next) = chunk.scanned + chunk.taken
    BY <1>4, AdvanceFits
<1> HIDE DEF to
<1>6. CASE restartPending \/ to.lapComplete
    BY <1>1, <1>2, <1>3, <1>4, <1>6, RowReset DEF SweepInv
<1>7. CASE ~restartPending /\ ~to.lapComplete
    <2>1. /\ scanState' = [fingerprint |-> chunk.ranges, cursor |-> to.next,
                           scanned |-> chunk.scanned + chunk.taken, lapOpen |-> TRUE]
          /\ seen' = seen
        BY <1>1, <1>7 DEF saveScanCursor
    <2>2. PICK rs \in RangeLists : rs = chunk.ranges
        BY <1>4
    <2>3. PICK n : n = chunk.scanned + chunk.taken
        OBVIOUS
    <2>4. PICK cur : cur = to.next
        OBVIOUS
    <2>5. ProbedUpTo(rs, n)'
        BY <1>4, <2>1, <2>2, <2>3 DEF ProbedUpTo
    <2>6. RowOK'
        BY <1>5, <1>7, <2>1, <2>2, <2>3, <2>4, <2>5, RowWritten
    <2> QED BY <1>2, <1>3, <2>6 DEF SweepInv
<1> QED BY <1>6, <1>7

\* What the environment does to the sweep: the ranges, the flags and the process change, the
\* row is kept or starts over.
LEMMA SweepDisturbed ==
    ASSUME SweepInv,
           DeadlinePasses \/ restartDiscovery \/ RangesChange \/ ScanThrows \/ AgentRestart
    PROVE  SweepInv'
<1> USE DEF SweepInv
<1>1. /\ ranges \in RangeLists /\ 0 \in 0 .. NumHosts /\ crashes \in Nat /\ edits \in Nat
      /\ MaxCrashes \in Nat /\ MaxEdits \in Nat
    BY DiscoveryAssumption DEF FlagsOK
<1>2. CASE DeadlinePasses
    <2>1. FlagsOK'
        BY <1>2 DEF DeadlinePasses, FlagsOK, configVars
    <2>2. RowOK' /\ ChunkOK' /\ TakenOK'
        BY <1>2, RowKept DEF DeadlinePasses, ChunkOK, TakenOK
    <2> QED BY <2>1, <2>2
<1>3. CASE restartDiscovery
    <2>1. edits' \in 0 .. MaxEdits
        BY <1>1, <1>3 DEF restartDiscovery
    <2>2. CASE phase # "idle"
        <3>1. /\ restartPending' = TRUE /\ asked' = TRUE
              /\ UNCHANGED <<scanState, pinnedIdx, seen, phase, chunk, over, pinnedDone, ranges,
                             crashes, scheduled>>
            BY <1>3, <2>2 DEF restartDiscovery
        <3>2. FlagsOK'
            BY <2>1, <2>2, <3>1 DEF FlagsOK
        <3>3. RowOK' /\ ChunkOK' /\ TakenOK'
            BY <3>1, RowKept DEF ChunkOK, TakenOK
        <3> QED BY <3>2, <3>3
    <2>3. CASE phase = "idle"
        <3>1. /\ scanState' = resetScanCursor(ranges) /\ pinnedIdx' = 0 /\ asked' = FALSE
              /\ UNCHANGED <<restartPending, phase, chunk, over, pinnedDone, ranges, crashes, scheduled>>
            BY <1>3, <2>3 DEF restartDiscovery
        <3>2. FlagsOK'
            BY <2>1, <2>3, <3>1 DEF FlagsOK
        <3>3. RowOK'
            BY <1>1, <3>1, RowReset
        <3>4. ChunkOK' /\ TakenOK'
            BY <2>3, <3>1, IdleIsOK DEF ChunkOK
        <3> QED BY <3>2, <3>3, <3>4
    <2> QED BY <2>2, <2>3
<1>4. CASE RangesChange
    <2>1. /\ ranges' \in RangeLists /\ edits < MaxEdits /\ edits' = edits + 1
          /\ UNCHANGED <<scanState, phase, chunk, over, restartPending, scheduled, pinnedIdx,
                         pinnedDone, seen, asked, crashes>>
        BY <1>4 DEF RangesChange
    <2>2. edits' \in 0 .. MaxEdits
        BY <1>1, <2>1
    <2>3. FlagsOK'
        BY <2>1, <2>2 DEF FlagsOK
    <2>4. RowOK' /\ ChunkOK' /\ TakenOK'
        BY <2>1, RowKept DEF ChunkOK, TakenOK
    <2> QED BY <2>3, <2>4
<1>5. CASE ScanThrows
    <2>1. /\ crashes < MaxCrashes /\ crashes' = crashes + 1 /\ restartPending' = FALSE
          /\ idleLocals /\ pinnedIdx' \in {0, pinnedIdx} /\ scheduled' \in {FALSE, scheduled}
          /\ UNCHANGED <<ranges, edits>>
          /\ scanState' = resetScanCursor(ranges) \/ UNCHANGED <<scanState, seen>>
        BY <1>5 DEF ScanThrows
    <2>2. crashes' \in 0 .. MaxCrashes
        BY <1>1, <2>1
    <2>3. FlagsOK'
        <3>1. pinnedIdx' \in Nat
            BY <2>1 DEF FlagsOK
        <3>3. scheduled' \in BOOLEAN
            <4>1. scheduled \in BOOLEAN /\ scheduled' \in {FALSE, scheduled}
                BY <2>1 DEF FlagsOK
            <4> QED BY ONLY <4>1, Zenon
        <3>2. /\ phase' = "idle" /\ over' = FALSE /\ pinnedDone' = 0 /\ asked' = FALSE
              /\ restartPending' = FALSE /\ UNCHANGED <<ranges, edits>>
            BY <2>1 DEF idleLocals
        <3> QED BY <1>1, <2>2, <3>1, <3>2, <3>3 DEF FlagsOK
    <2>4. RowOK'
        BY <1>1, <2>1, RowReset, RowKept
    <2>5. ChunkOK' /\ TakenOK'
        BY <2>1, IdleIsOK DEF idleLocals
    <2> QED BY <2>3, <2>4, <2>5
<1>6. CASE AgentRestart
    <2>1. /\ crashes < MaxCrashes /\ crashes' = crashes + 1 /\ idleLocals
          /\ restartPending' = FALSE /\ pinnedIdx' = 0 /\ scheduled' = TRUE
          /\ UNCHANGED <<scanState, seen, ranges, edits>>
        BY <1>6 DEF AgentRestart
    <2>2. crashes' \in 0 .. MaxCrashes
        BY <1>1, <2>1
    <2>3. FlagsOK'
        BY <1>1, <2>1, <2>2 DEF FlagsOK, idleLocals
    <2>4. RowOK' /\ ChunkOK' /\ TakenOK'
        BY <2>1, RowKept, IdleIsOK DEF idleLocals
    <2> QED BY <2>3, <2>4
<1> QED BY <1>2, <1>3, <1>4, <1>5, <1>6

\* Whatever happens to the agent, the row tells the truth about the sweep.
LEMMA SweepInvHolds == Spec => []SweepInv
<1>1. Init => SweepInv
    <2> SUFFICES ASSUME Init PROVE SweepInv
        OBVIOUS
    <2>1. FlagsOK
        <3>1. 0 \in 0 .. NumHosts /\ 0 \in 0 .. MaxCrashes /\ 0 \in 0 .. MaxEdits
            BY DiscoveryAssumption
        <3> QED BY <3>1 DEF Init, FlagsOK
    <2>2. RowOK
        BY DiscoveryAssumption DEF Init, RowOK, EMPTY_SCAN_STATE
    <2>3. ChunkOK
        BY NoChunkType DEF Init, ChunkOK
    <2>4. TakenOK
        <3>1. chunk.taken = 0 /\ chunk.probing = {} /\ chunk.plan = <<>> /\ Len(<<>>) = 0
            BY DEF Init, NoChunk
        <3>2. Cardinality({}) <= CONCURRENCY_LIMIT
            BY FS_EmptySet, DiscoveryAssumption
        <3> QED BY <3>1, <3>2 DEF TakenOK
    <2> QED BY <2>1, <2>2, <2>3, <2>4 DEF SweepInv
<1>2. SweepInv /\ [Next]_vars => SweepInv'
    <2> SUFFICES ASSUME SweepInv, [Next]_vars PROVE SweepInv'
        OBVIOUS
    <2>1. CASE ScanStarts BY <2>1, SweepStarts
    <2>2. CASE scanPinnedHost \/ PinnedEnds BY <2>2, SweepPins
    <2>3. CASE ChunkEnds BY <2>3, SweepEnds
    <2>4. CASE \E i \in 1 .. CHUNK_MAX_IPS : probeEnds(i)
        BY <2>4, SweepProbes
    <2>5. CASE DeadlinePasses \/ restartDiscovery \/ RangesChange \/ ScanThrows \/ AgentRestart
        BY <2>5, SweepDisturbed
    <2>6. CASE UNCHANGED vars
        BY <2>6 DEF SweepInv, FlagsOK, RowOK, ProbedUpTo, ChunkOK, TakenOK, vars, configVars
    <2> QED BY <2>1, <2>2, <2>3, <2>4, <2>5, <2>6 DEF Next, Scan
<1> QED BY <1>1, <1>2, PTL DEF Spec

\* ScanService and its row of SQLite keep their types; in particular no chunk is planned
\* longer than CHUNK_MAX_IPS and no more than CONCURRENCY_LIMIT addresses are being probed at
\* once, however the workers of runChunk take turns (runChunk, "the workers share an index").
THEOREM DiscoveryTypeCorrect == Spec => []DiscoveryTypeOK
<1>1. SweepInv => DiscoveryTypeOK
    <2> SUFFICES ASSUME SweepInv PROVE DiscoveryTypeOK
        OBVIOUS
    <2> USE DEF SweepInv
    <2>1. /\ scanState.cursor \in [rangeIdx : Nat, offset : Nat] /\ scanState.scanned \in Nat
        <3>1. CASE scanState.fingerprint = NoFingerprint
            <4>1. scanState.cursor = CURSOR_START /\ scanState.scanned = 0
                BY <3>1 DEF RowOK, EMPTY_SCAN_STATE
            <4> QED BY <4>1 DEF CURSOR_START, CursorAt
        <3>2. CASE scanState.fingerprint \in RangeLists
            BY <3>2, PlanFits, CursorType DEF RowOK
        <3> QED BY <3>1, <3>2 DEF RowOK
    <2>2. chunk \in Chunk /\ chunk.ranges \in RangeLists \cup {<<>>}
        BY DEF ChunkOK, Chunk
    <2>3. Len(chunk.plan) <= CHUNK_MAX_IPS
        <3>1. CASE phase = "idle"
            <4>1. chunk.plan = <<>> /\ Len(<<>>) = 0
                BY <3>1 DEF ChunkOK, NoChunk
            <4> QED BY <4>1, DiscoveryAssumption
        <3>2. CASE phase # "idle"
            <4>1. /\ chunk.ranges \in RangeLists /\ chunk.cursor \in Cursors(chunk.ranges)
                  /\ chunk.plan = planChunk(chunk.ranges, chunk.cursor, CHUNK_MAX_IPS)
                BY <3>2 DEF ChunkOK, RowOK
            <4> QED BY <4>1, PlanFits
        <3> QED BY <3>1, <3>2
    <2> QED BY <2>1, <2>2, <2>3 DEF DiscoveryTypeOK, FlagsOK, RowOK, TakenOK
<1> QED BY <1>1, SweepInvHolds, PTL

\* buildDiscoveryState never reports more addresses scanned than are declared, and during a
\* lap reports the position of the cursor, whatever the ranges became since the row was
\* written (heartbeat.ts, "900/10").
THEOREM CursorStaysSound == Spec => []CursorIsSound
<1>1. SweepInv => CursorIsSound
    <2> SUFFICES ASSUME SweepInv PROVE ProgressFits
        BY ArithmeticIsRight DEF CursorIsSound
    <2>1. ranges \in RangeLists
        BY DEF SweepInv, FlagsOK
    <2>2. totalDeclaredIps(ranges) \in Nat
        BY <2>1, StartIsOK, PlanFits
    <2>3. CASE scanState.fingerprint # ranges
        <3>1. /\ buildDiscoveryState.scanned = 0 /\ buildDiscoveryState.in_progress = FALSE
              /\ buildDiscoveryState.total = totalDeclaredIps(ranges)
            BY <2>3 DEF buildDiscoveryState
        <3>2. 0 <= totalDeclaredIps(ranges)
            BY <2>2
        <3> QED BY <3>1, <3>2 DEF ProgressFits
    <2>4. CASE scanState.fingerprint = ranges
        <3>1. /\ scanState.cursor \in Cursors(ranges)
              /\ scanState.scanned = PositionOf(ranges, scanState.cursor)
            BY <2>1, <2>4 DEF SweepInv, RowOK
        <3>2. scanState.scanned <= totalDeclaredIps(ranges)
            BY <2>1, <3>1, PlanFits
        <3> QED BY <2>4, <3>1, <3>2 DEF ProgressFits, buildDiscoveryState
    <2> QED BY <2>3, <2>4
<1> QED BY <1>1, SweepInvHolds, PTL

\* A lap that scan() records as complete probed every declared address of its ranges: chunks
\* cut short by their budget, restarts of the process in the middle of one, ranges replaced
\* by a heartbeat and restarts by command never make the cursor skip an address
\* (ScanService.scan, "the cursor never skips IPs").
THEOREM LapsAreWhole == Spec => LapIsWhole
<1> DEFINE Whole == scanState.lapOpen /\ ~scanState'.lapOpen
                        => Declared(scanState'.fingerprint) \subseteq seen
<1>1. SweepInv /\ [Next]_vars => [Whole]_vars
    <2> SUFFICES ASSUME SweepInv, Next, scanState.lapOpen, ~scanState'.lapOpen
                 PROVE  Declared(scanState'.fingerprint) \subseteq seen
        OBVIOUS
    <2>1. \A rs : resetScanCursor(rs).lapOpen = TRUE
        BY DEF resetScanCursor, saveScanCursor
    <2>2. ChunkEnds
        <3>1. ~ScanStarts
            BY <2>1 DEF ScanStarts, saveScanCursor
        <3>2. ~scanPinnedHost /\ ~PinnedEnds /\ ~DeadlinePasses /\ ~RangesChange /\ ~AgentRestart
            BY DEF scanPinnedHost, PinnedEnds, DeadlinePasses, RangesChange, AgentRestart
        <3>3. ~restartDiscovery /\ ~ScanThrows
            BY <2>1 DEF restartDiscovery, ScanThrows
        <3>4. ~ \E i \in 1 .. CHUNK_MAX_IPS : probeEnds(i)
            BY DEF probeEnds
        <3> QED BY <3>1, <3>2, <3>3, <3>4 DEF Next, Scan
    <2> DEFINE to == advanceCursor(chunk.ranges, chunk.cursor, chunk.taken)
               sp == Space(chunk.ranges)
    <2>3. /\ scanState' = IF restartPending THEN resetScanCursor(ranges)
                          ELSE IF to.lapComplete THEN recordLapComplete(chunk.ranges)
                          ELSE saveScanCursor(chunk.ranges, to.next, chunk.scanned + chunk.taken)
          /\ phase = "chunk" /\ chunk.probing = {}
        BY <2>2 DEF ChunkEnds, consumed
    <2>4. to.lapComplete /\ scanState'.fingerprint = chunk.ranges
        BY <2>1, <2>3 DEF saveScanCursor, recordLapComplete
    <2>5. /\ chunk.ranges \in RangeLists /\ chunk.cursor \in Cursors(chunk.ranges) /\ chunk.taken \in Nat
          /\ chunk.scanned = PositionOf(chunk.ranges, chunk.cursor)
          /\ chunk.scanned + chunk.taken <= totalDeclaredIps(chunk.ranges)
          /\ ProbedUpTo(chunk.ranges, chunk.scanned + chunk.taken)
        BY <2>3, ChunkProbed
    <2>6. chunk.scanned + chunk.taken = totalDeclaredIps(chunk.ranges)
        BY <2>4, <2>5, AdvanceFits
    <2>7. /\ sp \in Seq(Declared(chunk.ranges)) /\ Declared(chunk.ranges) \subseteq Range(sp)
          /\ Len(sp) = totalDeclaredIps(chunk.ranges)
        BY <2>5, ArithmeticIsRight DEF SpaceIsDeclared
    <2>8. \A k \in 1 .. Len(sp) : sp[k] \in seen
        BY <2>5, <2>6, <2>7 DEF ProbedUpTo
    <2> HIDE DEF sp, to
    <2>9. Range(sp) \subseteq seen
        BY <2>7, <2>8 DEF Range
    <2> QED BY <2>4, <2>7, <2>9
<1> QED BY <1>1, SweepInvHolds, PTL DEF Spec, LapIsWhole

=============================================================================

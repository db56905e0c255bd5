---------------------------- MODULE CommandProofs ---------------------------
(***************************************************************************)
(* What holds of the command channel and of the bulk actions on top of it, *)
(* for any number of commands, heartbeats, connections, batches and items. *)
(* The channel's facts are stated for one step of it, so that the bulk     *)
(* actions, whose steps include them, can cite them.                       *)
(***************************************************************************)
EXTENDS RemoteActions, SequenceTheorems, FiniteSetTheorems, TLAPS

----------------------------------------------------------------------------
(* Types of the channel *)

Executions == [cmd : Commands, named : BOOLEAN, beat : BOOLEAN]
Distinct(seq) == \A j, k \in DOMAIN seq : seq[j] = seq[k] => j = k
Remembers(seq, c) == \E k \in DOMAIN seq : seq[k] = c
Remember(seq, c) ==
    IF Len(Append(seq, c)) > ProcessedCap THEN Tail(Append(seq, c)) ELSE Append(seq, c)

\* markProcessed keeps the list within its cap and without repetitions, adds
\* the command, and brings no other back.
LEMMA RememberFacts ==
    ASSUME NEW seq \in Seq(Commands), Len(seq) <= ProcessedCap, Distinct(seq),
           NEW c \in Commands, ~Remembers(seq, c)
    PROVE  /\ Remember(seq, c) \in Seq(Commands)
           /\ Len(Remember(seq, c)) <= ProcessedCap
           /\ Distinct(Remember(seq, c))
           /\ Remembers(Remember(seq, c), c)
           /\ Len(seq) < ProcessedCap => Remember(seq, c) = Append(seq, c)
<1> DEFINE ids == Append(seq, c)
<1>1. /\ ids \in Seq(Commands) /\ ids # << >> /\ Len(ids) = Len(seq) + 1
      /\ \A i \in 1 .. Len(seq) : ids[i] = seq[i]
      /\ ids[Len(seq) + 1] = c
    BY AppendProperties
<1>2. Len(seq) \in Nat /\ DOMAIN seq = 1 .. Len(seq) /\ DOMAIN ids = 1 .. (Len(seq) + 1)
    BY <1>1, LenProperties
<1>3. ProcessedCap \in Nat /\ ProcessedCap >= 1
    BY CommandsAssumption
<1> HIDE DEF ids
<1>4. Distinct(ids)
    BY <1>1, <1>2 DEF Distinct, Remembers
<1>5. Remembers(ids, c)
    BY <1>1, <1>2 DEF Remembers
<1>6. CASE Len(ids) > ProcessedCap
    <2>1. Remember(seq, c) = Tail(ids)
        BY <1>6 DEF Remember, ids
    <2>2. /\ Tail(ids) \in Seq(Commands) /\ Len(Tail(ids)) = Len(seq)
          /\ \A i \in 1 .. Len(Tail(ids)) : Tail(ids)[i] = ids[i + 1]
        BY <1>1, <1>2, HeadTailProperties
    <2>3. DOMAIN Tail(ids) = 1 .. Len(seq)
        BY <2>2, LenProperties
    <2>4. Distinct(Tail(ids))
        <3> SUFFICES ASSUME NEW j \in 1 .. Len(seq), NEW k \in 1 .. Len(seq),
                            Tail(ids)[j] = Tail(ids)[k]
                     PROVE  j = k
            BY <2>3 DEF Distinct
        <3>1. ids[j + 1] = ids[k + 1]
            BY <2>2
        <3>2. j + 1 \in DOMAIN ids /\ k + 1 \in DOMAIN ids
            BY <1>2
        <3>3. j + 1 = k + 1
            BY <1>4, <3>1, <3>2 DEF Distinct
        <3> QED BY <1>2, <3>3
    <2>5. Remembers(Tail(ids), c)
        <3>1. Len(seq) \in 1 .. Len(seq)
            BY <1>1, <1>2, <1>3, <1>6
        <3>2. Tail(ids)[Len(seq)] = c
            BY <1>1, <2>2, <3>1
        <3> QED BY <2>3, <3>1, <3>2 DEF Remembers
    <2>6. ~(Len(seq) < ProcessedCap)
        BY <1>1, <1>2, <1>3, <1>6
    <2> QED BY <2>1, <2>2, <2>4, <2>5, <2>6
<1>7. CASE ~(Len(ids) > ProcessedCap)
    <2>1. Remember(seq, c) = ids
        BY <1>7 DEF Remember, ids
    <2>2. Len(ids) <= ProcessedCap
        BY <1>1, <1>2, <1>3, <1>7
    <2> QED BY <1>1, <1>4, <1>5, <2>1, <2>2 DEF ids
<1> QED BY <1>6, <1>7

\* The executions and the memory the two handlers of a command leave behind.
LEMMA HandledOnce ==
    ASSUME TypeOK, NEW c \in Commands, NEW named \in BOOLEAN, NEW viaBeat \in BOOLEAN,
           ~isProcessed(c) \/ ~named, handleCommand(Execution(c, named, viaBeat)),
           IF named THEN markProcessed(c) ELSE UNCHANGED processed
    PROVE  /\ processed' \in Seq(Commands) /\ Len(processed') <= ProcessedCap
           /\ Distinct(processed')
           /\ running' \subseteq Executions
           /\ runs' \in [Commands -> Nat]
<1> USE DEF TypeOK
<1>1. Execution(c, named, viaBeat) \in Executions /\ Execution(c, named, viaBeat).cmd = c
    BY DEF Execution, Executions
<1>2. running' \subseteq Executions /\ runs' \in [Commands -> Nat]
    BY <1>1 DEF handleCommand, Executions
<1>3. Distinct(processed)
    BY DEF Distinct
<1>4. CASE named
    <2>1. ~Remembers(processed, c)
        BY <1>4 DEF isProcessed, Remembers
    <2>2. processed' = Remember(processed, c)
        BY <1>4 DEF markProcessed, Remember
    <2> QED BY <1>2, <1>3, <2>1, <2>2, RememberFacts
<1>5. CASE ~named
    BY <1>2, <1>3, <1>5
<1> QED BY <1>4, <1>5

\* The channel starts well typed.
LEMMA ChannelTypeInit == CommandsInit => TypeOK
<1> SUFFICES ASSUME CommandsInit PROVE TypeOK
    OBVIOUS
<1>1. processed \in Seq(Commands) /\ Len(processed) = 0 /\ DOMAIN processed = {}
    BY EmptySeq DEF CommandsInit
<1> QED
    BY <1>1, CommandsAssumption
       DEF CommandsInit, TypeOK, Statuses, Beat, BeatPhases, FreeBeat, Ends

\* The portal's steps, and the INSERT the bulk actions share with them.
LEMMA PortalTypes ==
    ASSUME TypeOK, NEW c \in Commands,
           \/ AddCommand(c) \/ PushCommand(c) \/ TriggerScan(c)
           \/ insertPending(c) /\ UNCHANGED <<rescans, toPush, wireVars, beatVars, agentVars>>
    PROVE  TypeOK'
<1> USE DEF TypeOK, wireVars, beatVars, agentVars
<1>1. ASSUME NEW m \in Message PROVE pushed(m) \in [Sockets -> SUBSET Message]
    BY DEF pushed
<1>2. ASSUME NEW n \in BOOLEAN PROVE [cmd |-> c, named |-> n] \in Message
    BY DEF Message
<1>3. CASE AddCommand(c)
    BY <1>3 DEF AddCommand, insertPending, Statuses
<1>4. CASE PushCommand(c)
    BY <1>1, <1>2, <1>4 DEF PushCommand
<1>5. CASE TriggerScan(c)
    BY <1>1, <1>2, <1>5 DEF TriggerScan, insertPending, Statuses
<1>6. CASE insertPending(c) /\ UNCHANGED <<rescans, toPush, wireVars, beatVars, agentVars>>
    BY <1>6 DEF insertPending, Statuses
<1> QED BY <1>3, <1>4, <1>5, <1>6

\* The heartbeats' steps.
LEMMA HeartbeatTypes == TypeOK /\ HeartbeatStep => TypeOK'
<1> SUFFICES ASSUME TypeOK, HeartbeatStep PROVE TypeOK'
    OBVIOUS
<1> USE DEF TypeOK, tableVars, wireVars, agentVars, Beat, BeatPhases
<1>0. ASSUME NEW h \in Beats, NEW p \in BeatPhases
      PROVE  [beat[h] EXCEPT !.phase = p] \in Beat /\ FreeBeat \in Beat
    <2>1. beat[h] \in Beat
        OBVIOUS
    <2> QED BY <2>1 DEF FreeBeat
<1>1. ASSUME NEW h \in Beats, NEW p \in BeatPhases PROVE Ended(h, p) \in Beat
    BY <1>0, ZenonT(60) DEF Ended
<1>2. ASSUME NEW h \in Beats PROVE Forsaken(h) \in Beat
    BY DEF Forsaken, FreeBeat
<1>3. ASSUME NEW h \in Beats, SendHeartbeat(h) PROVE TypeOK'
    <2>1. beat' = [beat EXCEPT ![h] = [beat[h] EXCEPT !.phase = "sent"]]
        BY <1>3 DEF SendHeartbeat
    <2>2. beat' \in [Beats -> Beat]
        <3>1. [beat[h] EXCEPT !.phase = "sent"] \in Beat
            BY <1>0
        <3> QED BY <2>1, <3>1
    <2> QED BY <1>3, <2>2 DEF SendHeartbeat
<1>4. ASSUME NEW h \in Beats, SelectPending(h) PROVE TypeOK'
    BY <1>4 DEF SelectPending, Pending
<1>5. ASSUME NEW h \in Beats, UpdateSent(h) PROVE TypeOK'
    BY <1>1, <1>5 DEF UpdateSent, markSent, Statuses
<1>6. ASSUME NEW h \in Beats, HeartbeatLost(h) PROVE TypeOK'
    BY <1>1, <1>6 DEF HeartbeatLost
<1>7. CASE ReceiveAnswer
    BY <1>7 DEF ReceiveAnswer, FreeBeat
<1>8. CASE AbandonHeartbeat
    BY <1>2, <1>8 DEF AbandonHeartbeat
<1> QED BY <1>3, <1>4, <1>5, <1>6, <1>7, <1>8 DEF HeartbeatStep

\* The executions' steps.
LEMMA ExecutionTypes == TypeOK /\ ExecutionStep => TypeOK'
<1> SUFFICES ASSUME TypeOK, ExecutionStep PROVE TypeOK'
    OBVIOUS
<1> USE DEF tableVars, wireVars, beatVars
<1>1. ASSUME NEW c \in Commands, HandleFromHeartbeat(c) PROVE TypeOK'
    <2>1. CASE isProcessed(c)
        BY <1>1, <2>1 DEF HandleFromHeartbeat, TypeOK
    <2>2. CASE ~isProcessed(c)
        <3>1. markProcessed(c) /\ handleCommand(Execution(c, TRUE, TRUE))
            BY <1>1, <2>2 DEF HandleFromHeartbeat
        <3>2. /\ processed' \in Seq(Commands) /\ Len(processed') <= ProcessedCap
              /\ Distinct(processed')
              /\ running' \subseteq Executions /\ runs' \in [Commands -> Nat]
            BY <2>2, <3>1, HandledOnce
        <3> QED BY <1>1, <3>2 DEF HandleFromHeartbeat, TypeOK, Distinct, Executions
    <2> QED BY <2>1, <2>2
<1>2. ASSUME NEW s \in Sockets, NEW m \in down[s], HandleFromSocket(s, m) PROVE TypeOK'
    <2>1. m \in Message /\ m.cmd \in Commands /\ m.named \in BOOLEAN
        BY DEF TypeOK, Message
    <2>2. CASE m.named /\ isProcessed(m.cmd)
        BY <1>2, <2>2 DEF HandleFromSocket, HandlePush, TypeOK
    <2>3. CASE ~(m.named /\ isProcessed(m.cmd))
        <3>1. /\ handleCommand(Execution(m.cmd, m.named, FALSE))
              /\ IF m.named THEN markProcessed(m.cmd) ELSE UNCHANGED processed
            BY <1>2, <2>3 DEF HandleFromSocket, HandlePush
        <3>2. /\ processed' \in Seq(Commands) /\ Len(processed') <= ProcessedCap
              /\ Distinct(processed')
              /\ running' \subseteq Executions /\ runs' \in [Commands -> Nat]
            BY <2>1, <2>3, <3>1, HandledOnce
        <3> QED BY <1>2, <3>2 DEF HandleFromSocket, TypeOK, Distinct, Executions
    <2> QED BY <2>2, <2>3
<1>3. ASSUME NEW x \in running, NEW o \in Outcomes, FinishCommand(x, o) PROVE TypeOK'
    <2>1. x.cmd \in Commands /\ [cmd |-> x.cmd, named |-> x.named, outcome |-> o] \in Result
        BY DEF TypeOK, Result
    <2>2. up' \in [Sockets -> SUBSET Result]
        BY <1>3, <2>1 DEF FinishCommand, TypeOK
    <2>3. outcomes' \in [Commands -> SUBSET Outcomes]
        BY <1>3, <2>1 DEF FinishCommand, TypeOK
    <2> QED BY <1>3, <2>2, <2>3 DEF FinishCommand, TypeOK
<1>4. ASSUME NEW s \in Sockets, NEW r \in up[s], ReceiveResult(s, r) PROVE TypeOK'
    <2>1. r.cmd \in Commands /\ resultStatus(r.outcome) \in Statuses
        BY DEF TypeOK, Result, resultStatus, Statuses
    <2>2. status' \in [Commands -> Statuses]
        BY <1>4, <2>1 DEF ReceiveResult, TypeOK
    <2> QED BY <1>4, <2>2 DEF ReceiveResult, TypeOK, agentVars
<1>5. CASE AgentRestart
    <2>1. beat' \in [Beats -> Beat]
        BY <1>5 DEF AgentRestart, Forsaken, FreeBeat, TypeOK, Beat, BeatPhases
    <2>2. processed' \in Seq(Commands) /\ Len(processed') = 0 /\ DOMAIN processed' = {}
        BY <1>5, EmptySeq DEF AgentRestart
    <2>3. restarts' \in 0 .. MaxRestarts
        BY <1>5, CommandsAssumption DEF AgentRestart, TypeOK
    <2> QED BY <1>5, <2>1, <2>2, <2>3, CommandsAssumption DEF AgentRestart, TypeOK
<1> QED BY <1>1, <1>2, <1>3, <1>4, <1>5 DEF ExecutionStep

\* The connections' steps.
LEMMA SocketTypes == TypeOK /\ SocketStep => TypeOK'
<1> SUFFICES ASSUME TypeOK, SocketStep PROVE TypeOK'
    OBVIOUS
<1> USE DEF TypeOK, tableVars, beatVars, agentVars, Ends
<1>1. ASSUME NEW s \in Sockets, Connect(s) PROVE TypeOK'
    BY <1>1 DEF Connect
<1>2. ASSUME NEW s \in Sockets, Register(s) PROVE TypeOK'
    BY <1>2 DEF Register
<1>3. ASSUME NEW s \in Sockets, RefuseHandshake(s) PROVE TypeOK'
    BY <1>3 DEF RefuseHandshake
<1>4. ASSUME NEW s \in Sockets, CloseSocket(s) PROVE TypeOK'
    BY <1>4 DEF CloseSocket
<1>5. CASE Disconnect
    BY <1>5 DEF Disconnect
<1>6. CASE CloudRestart
    <2>1. \A h \in Beats : Ended(h, "lost") \in Beat
        BY DEF Ended, FreeBeat, Beat, BeatPhases
    <2> QED BY <1>6, <2>1 DEF CloudRestart
<1> QED BY <1>1, <1>2, <1>3, <1>4, <1>5, <1>6 DEF SocketStep

\* A step of the channel keeps the types.
LEMMA ChannelTypeStep == TypeOK /\ [CommandStep]_commandVars => TypeOK'
<1>1. TypeOK /\ UNCHANGED commandVars => TypeOK'
    BY DEF TypeOK, commandVars, tableVars, wireVars, beatVars, agentVars
<1> QED BY <1>1, PortalTypes, HeartbeatTypes, ExecutionTypes, SocketTypes
        DEF CommandStep, PortalStep

\* Every variable of the channel keeps its type, and the agent's memory its cap.
THEOREM ChannelTypeCorrect == ChannelSpec => []TypeOK
BY ChannelTypeInit, ChannelTypeStep, PTL DEF ChannelSpec, ChannelInit
----------------------------------------------------------------------------
(* A life of the agent runs a command once.  The bound alone is not         *)
(* inductive: an execution is paid for by the agent's memory, which then    *)
(* holds the command, or by the one unnamed message of a "scan now", which  *)
(* is then gone.  The memory must not have forgotten: with more commands    *)
(* than ProcessedCap in one life it may, and the bound does not hold.       *)

MemoryFits == IsFiniteSet(Commands) /\ Cardinality(Commands) <= ProcessedCap

Unnamed(c) == [cmd |-> c, named |-> FALSE]
OnItsWay(c) == \E s \in Sockets : Unnamed(c) \in down[s]
Known(c) == IF isProcessed(c) THEN 1 ELSE 0
Delivered(c) == IF c \in rescans /\ ~OnItsWay(c) THEN 1 ELSE 0
Budget(c) == runs[c] <= restarts + Known(c) + Delivered(c)
OneUnnamed(c) ==
    /\ c \in rescans => status[c] # "none"
    /\ OnItsWay(c) => c \in rescans
    /\ \A s, t \in Sockets : Unnamed(c) \in down[s] /\ Unnamed(c) \in down[t] => s = t
LifeInv == TypeOK /\ \A c \in Commands : Budget(c) /\ OneUnnamed(c)

\* A list of different commands that lacks one is shorter than their number.
LEMMA MemoryHasRoom ==
    ASSUME MemoryFits, NEW seq \in Seq(Commands), Distinct(seq), NEW c \in Commands,
           ~Remembers(seq, c)
    PROVE  Len(seq) < ProcessedCap
<1> DEFINE ids == Append(seq, c)
           n == Len(seq) + 1
<1>1. /\ ids \in Seq(Commands) /\ Len(ids) = n
      /\ \A i \in 1 .. Len(seq) : ids[i] = seq[i]
      /\ ids[n] = c
    BY AppendProperties
<1>2. Len(seq) \in Nat /\ DOMAIN seq = 1 .. Len(seq) /\ DOMAIN ids = 1 .. n
    BY <1>1, LenProperties
<1>3. ids \in [1 .. n -> Commands]
    BY <1>1, <1>2, LenProperties
<1> HIDE DEF ids
<1>4. IsFiniteSet(1 .. n) /\ Cardinality(1 .. n) = n /\ n \in Nat
    BY <1>2, FS_Interval
<1>5. \A x, y \in 1 .. n : ids[x] = ids[y] => x = y
    BY <1>1, <1>2 DEF Distinct, Remembers
<1>6. ~(Cardinality(Commands) < n)
    BY <1>3, <1>4, <1>5, FS_PigeonHole DEF MemoryFits
<1>7. Cardinality(Commands) \in Nat
    BY FS_CardinalityType DEF MemoryFits
<1> QED BY <1>2, <1>6, <1>7, CommandsAssumption DEF MemoryFits

\* What the agent runs it then remembers, and it forgets nothing.
LEMMA RememberedStays ==
    ASSUME MemoryFits, TypeOK, NEW c \in Commands, ~isProcessed(c), markProcessed(c)
    PROVE  /\ isProcessed(c)'
           /\ \A d : isProcessed(d) => isProcessed(d)'
<1> USE DEF TypeOK
<1>1. ~Remembers(processed, c) /\ Distinct(processed) /\ processed' = Remember(processed, c)
    BY DEF isProcessed, Remembers, Distinct, markProcessed, Remember
<1>2. Len(processed) < ProcessedCap
    BY <1>1, MemoryHasRoom
<1>3. processed' = Append(processed, c) /\ Remembers(processed', c)
    BY <1>1, <1>2, RememberFacts
<1>4. /\ \A i \in 1 .. Len(processed) : processed'[i] = processed[i]
      /\ Len(processed') = Len(processed) + 1 /\ processed' \in Seq(Commands)
    BY <1>3, AppendProperties
<1>5. /\ DOMAIN processed = 1 .. Len(processed) /\ Len(processed) \in Nat
      /\ DOMAIN processed' = 1 .. (Len(processed) + 1)
    BY <1>4, LenProperties
<1>6. ASSUME NEW d, isProcessed(d) PROVE isProcessed(d)'
    BY <1>4, <1>5, <1>6 DEF isProcessed
<1> QED BY <1>3, <1>6 DEF isProcessed, Remembers

\* The arithmetic of the bound: what was run is paid for, now or before.
LEMMA Paid ==
    ASSUME NEW r \in Nat, NEW n \in Nat, NEW k \in {0, 1}, NEW e \in {0, 1}, r <= n + k + e,
           NEW r1 \in Nat, NEW n1 \in Nat, NEW k1 \in {0, 1}, NEW e1 \in {0, 1},
           \/ r1 = r /\ n1 = n /\ k1 >= k /\ e1 >= e
           \/ r1 = r /\ n1 = n + 1 /\ e1 >= e
           \/ r1 = r + 1 /\ n1 = n /\ k = 0 /\ k1 = 1 /\ e1 >= e
           \/ r1 = r + 1 /\ n1 = n /\ k1 >= k /\ e = 0 /\ e1 = 1
    PROVE  r1 <= n1 + k1 + e1
OBVIOUS

\* The quantities of the bound are numbers, before and after a step.
LEMMA BudgetNumbers ==
    ASSUME TypeOK, TypeOK', NEW c \in Commands
    PROVE  /\ runs[c] \in Nat /\ restarts \in Nat
           /\ runs'[c] \in Nat /\ restarts' \in Nat
           /\ Known(c) \in {0, 1} /\ Delivered(c) \in {0, 1}
           /\ Known(c)' \in {0, 1} /\ Delivered(c)' \in {0, 1}
BY CommandsAssumption DEF TypeOK, Known, Delivered

\* A step that runs nothing, forgets nothing and pushes nothing unnamed keeps
\* the bound of a command.
LEMMA QuietLife ==
    ASSUME LifeInv, TypeOK', NEW c \in Commands,
           UNCHANGED <<rescans, runs, restarts, processed>>,
           status[c] # "none" => status'[c] # "none",
           \A s \in Sockets : Unnamed(c) \in down'[s] => Unnamed(c) \in down[s]
    PROVE  Budget(c)' /\ OneUnnamed(c)'
<1>1. Budget(c) /\ OneUnnamed(c) /\ TypeOK
    BY DEF LifeInv
<1>2. OneUnnamed(c)'
    BY <1>1 DEF OneUnnamed, OnItsWay
<1>3. Known(c)' = Known(c)
    BY DEF Known, isProcessed
<1>4. Delivered(c)' >= Delivered(c)
    <2>1. c \in rescans /\ ~OnItsWay(c) => c \in rescans' /\ ~OnItsWay(c)'
        BY DEF OnItsWay
    <2>2. Delivered(c) = 1 => Delivered(c)' = 1
        BY <2>1 DEF Delivered
    <2>3. Delivered(c) \in {0, 1} /\ Delivered(c)' \in {0, 1}
        BY <1>1, BudgetNumbers
    <2> QED BY <2>2, <2>3
<1>5. Budget(c)'
    <2>1. Known(c)' >= Known(c)
        BY <1>1, <1>3, BudgetNumbers
    <2>2. runs'[c] = runs[c] /\ restarts' = restarts
        OBVIOUS
    <2> QED BY <1>1, <1>4, <2>1, <2>2, BudgetNumbers, Paid DEF Budget
<1> QED BY <1>2, <1>5

\* An execution of a command is paid for by the memory or by its message.
LEMMA RunOnce ==
    ASSUME MemoryFits, LifeInv, TypeOK', NEW c \in Commands, NEW named \in BOOLEAN,
           NEW viaBeat \in BOOLEAN, handleCommand(Execution(c, named, viaBeat)),
           UNCHANGED <<rescans, restarts, status>>,
           \A d \in Commands, s \in Sockets : Unnamed(d) \in down'[s] => Unnamed(d) \in down[s],
           \/ named /\ ~isProcessed(c) /\ markProcessed(c)
           \/ ~named /\ UNCHANGED processed /\ OnItsWay(c) /\ ~OnItsWay(c)',
           NEW d \in Commands
    PROVE  Budget(d)' /\ OneUnnamed(d)'
<1>1. /\ TypeOK
      /\ \A x \in Commands : Budget(x) /\ OneUnnamed(x)
    BY DEF LifeInv
<1>2. OneUnnamed(d)'
    BY <1>1 DEF OneUnnamed, OnItsWay
<1>3. runs' = [runs EXCEPT ![c] = runs[c] + 1]
    BY DEF handleCommand, Execution
<1>4. \A x : isProcessed(x) => isProcessed(x)'
    <2>1. CASE named
        BY <1>1, <2>1, RememberedStays
    <2>2. CASE ~named
        BY <2>2 DEF isProcessed
    <2> QED BY <2>1, <2>2
<1>5. Known(d)' >= Known(d)
    <2>1. Known(d) = 1 => Known(d)' = 1
        BY <1>4 DEF Known
    <2>2. Known(d) \in {0, 1} /\ Known(d)' \in {0, 1}
        BY <1>1, BudgetNumbers
    <2> QED BY <2>1, <2>2
<1>6. Delivered(d)' >= Delivered(d)
    <2>1. d \in rescans /\ ~OnItsWay(d) => d \in rescans' /\ ~OnItsWay(d)'
        BY DEF OnItsWay
    <2>2. Delivered(d) = 1 => Delivered(d)' = 1
        BY <2>1 DEF Delivered
    <2>3. Delivered(d) \in {0, 1} /\ Delivered(d)' \in {0, 1}
        BY <1>1, BudgetNumbers
    <2> QED BY <2>2, <2>3
<1>7. CASE d # c
    <2>1. runs'[d] = runs[d] /\ restarts' = restarts
        BY <1>1, <1>3, <1>7 DEF TypeOK
    <2>2. Budget(d)'
        BY <1>1, <1>5, <1>6, <2>1, BudgetNumbers, Paid DEF Budget
    <2> QED BY <1>2, <2>2
<1>8. CASE d = c
    <2>1. runs'[d] = runs[d] + 1 /\ restarts' = restarts
        BY <1>1, <1>3, <1>8 DEF TypeOK
    <2>2. CASE named
        <3>1. Known(d) = 0 /\ Known(d)' = 1
            BY <1>1, <1>8, <2>2, RememberedStays DEF Known
        <3>2. Budget(d)'
            BY <1>1, <1>6, <2>1, <3>1, BudgetNumbers, Paid DEF Budget
        <3> QED BY <1>2, <3>2
    <2>3. CASE ~named
        <3>1. OnItsWay(d) /\ ~OnItsWay(d)' /\ d \in rescans /\ d \in rescans'
            BY <1>1, <1>8, <2>3 DEF OneUnnamed
        <3>2. Delivered(d) = 0 /\ Delivered(d)' = 1
            BY <3>1 DEF Delivered
        <3>3. Budget(d)'
            BY <1>1, <1>5, <2>1, <3>2, BudgetNumbers, Paid DEF Budget
        <3> QED BY <1>2, <3>3
    <2> QED BY <2>2, <2>3
<1> QED BY <1>7, <1>8

\* What the portal inserts and pushes leaves every command within its bound.
LEMMA LifePortal ==
    ASSUME LifeInv, TypeOK', NEW c \in Commands,
           AddCommand(c) \/ PushCommand(c) \/ TriggerScan(c), NEW d \in Commands
    PROVE  Budget(d)' /\ OneUnnamed(d)'
<1>0. TypeOK /\ Budget(d) /\ OneUnnamed(d)
    BY DEF LifeInv
<1> USE DEF wireVars, beatVars, agentVars
<1>1. CASE AddCommand(c)
    <2>1. /\ UNCHANGED <<rescans, runs, restarts, processed, down>>
          /\ status'[d] \in {status[d], "pending"}
        BY <1>0, <1>1 DEF AddCommand, insertPending, TypeOK
    <2> QED BY <2>1, QuietLife
<1>2. CASE PushCommand(c)
    <2>1. UNCHANGED <<rescans, runs, restarts, processed, status>>
        BY <1>2 DEF PushCommand
    <2>2. \A s \in Sockets : Unnamed(d) \in down'[s] => Unnamed(d) \in down[s]
        <3>1. [cmd |-> c, named |-> TRUE] # Unnamed(d)
            BY DEF Unnamed
        <3> QED BY <1>0, <1>2, <3>1 DEF PushCommand, pushed, TypeOK
    <2> QED BY <2>1, <2>2, QuietLife
<1>3. CASE TriggerScan(c)
    <2>1. /\ UNCHANGED <<runs, restarts, processed>>
          /\ rescans' = rescans \cup {c}
          /\ status[c] = "none" /\ status' = [status EXCEPT ![c] = "pending"]
          /\ down' = pushed(Unnamed(c))
        BY <1>3 DEF TriggerScan, insertPending, Unnamed
    <2>2. CASE d # c
        <3>1. Unnamed(c) # Unnamed(d)
            <4>1. Unnamed(c).cmd # Unnamed(d).cmd
                BY <2>2 DEF Unnamed
            <4> QED BY <4>1
        <3>2. \A s \in Sockets : Unnamed(d) \in down'[s] <=> Unnamed(d) \in down[s]
            BY <1>0, <2>1, <3>1 DEF pushed, TypeOK
        <3>3. OnItsWay(d)' = OnItsWay(d) /\ (d \in rescans' <=> d \in rescans)
            BY <2>1, <2>2, <3>2 DEF OnItsWay
        <3>4. Delivered(d)' = Delivered(d) /\ Known(d)' = Known(d)
            BY <2>1, <3>3 DEF Delivered, Known, isProcessed
        <3>5. Budget(d)'
            BY <1>0, <2>1, <3>4 DEF Budget
        <3>6. status'[d] = status[d]
            BY <1>0, <2>1, <2>2 DEF TypeOK
        <3> QED BY <1>0, <3>2, <3>3, <3>5, <3>6 DEF OneUnnamed
    <2>3. CASE d = c
        <3>1. d \notin rescans /\ ~OnItsWay(d)
            BY <1>0, <2>1, <2>3 DEF OneUnnamed
        <3>2. Delivered(d) = 0
            BY <3>1 DEF Delivered
        <3>3. Known(d)' = Known(d)
            BY <2>1 DEF Known, isProcessed
        <3>4. Budget(d)'
            <4>1. Delivered(d)' >= Delivered(d) /\ Known(d)' >= Known(d)
                BY <1>0, <3>2, <3>3, BudgetNumbers
            <4>2. runs'[d] = runs[d] /\ restarts' = restarts
                BY <2>1
            <4> QED BY <1>0, <4>1, <4>2, BudgetNumbers, Paid DEF Budget
        <3>5. \A s \in Sockets : Unnamed(d) \in down'[s] => s = registered
            BY <1>0, <2>1, <2>3, <3>1 DEF OnItsWay, pushed, TypeOK
        <3>6. d \in rescans' /\ status'[d] = "pending"
            BY <1>0, <2>1, <2>3 DEF TypeOK
        <3>7. OneUnnamed(d)'
            BY <3>5, <3>6 DEF OneUnnamed
        <3> QED BY <3>4, <3>7
    <2> QED BY <2>2, <2>3
<1> QED BY <1>1, <1>2, <1>3

\* A restart pays for everything the agent ran before it.
LEMMA LifeRestart ==
    ASSUME LifeInv, TypeOK', AgentRestart, NEW d \in Commands
    PROVE  Budget(d)' /\ OneUnnamed(d)'
<1>0. TypeOK /\ Budget(d) /\ OneUnnamed(d)
    BY DEF LifeInv
<1>1. UNCHANGED <<status, rescans, down, runs>> /\ restarts' = restarts + 1
    BY DEF AgentRestart, tableVars
<1>2. Delivered(d)' = Delivered(d) /\ OneUnnamed(d)'
    BY <1>0, <1>1 DEF Delivered, OneUnnamed, OnItsWay
<1>3. Budget(d)'
    <2>1. Delivered(d)' >= Delivered(d)
        BY <1>0, <1>2, BudgetNumbers
    <2>2. runs'[d] = runs[d] /\ restarts' = restarts + 1
        BY <1>1
    <2> QED BY <1>0, <2>1, <2>2, BudgetNumbers, Paid DEF Budget
<1> QED BY <1>2, <1>3

\* The agent's handlers run what is named once, and each unnamed message.
LEMMA LifeHandlers ==
    ASSUME MemoryFits, LifeInv, TypeOK', NEW d \in Commands,
           \/ \E c \in Commands : HandleFromHeartbeat(c)
           \/ \E s \in Sockets : \E m \in down[s] : HandleFromSocket(s, m)
    PROVE  Budget(d)' /\ OneUnnamed(d)'
<1>0. TypeOK /\ \A c \in Commands : OneUnnamed(c)
    BY DEF LifeInv
<1> USE DEF tableVars, wireVars, beatVars
<1>1. ASSUME NEW c \in Commands, HandleFromHeartbeat(c) PROVE Budget(d)' /\ OneUnnamed(d)'
    <2>1. UNCHANGED <<status, rescans, restarts, down>>
        BY <1>1 DEF HandleFromHeartbeat
    <2>2. CASE isProcessed(c)
        <3>1. UNCHANGED <<runs, processed>>
            BY <1>1, <2>2 DEF HandleFromHeartbeat
        <3> QED BY <2>1, <3>1, QuietLife
    <2>3. CASE ~isProcessed(c)
        <3>1. markProcessed(c) /\ handleCommand(Execution(c, TRUE, TRUE))
            BY <1>1, <2>3 DEF HandleFromHeartbeat
        <3> QED BY <2>1, <2>3, <3>1, RunOnce
    <2> QED BY <2>2, <2>3
<1>2. ASSUME NEW s \in Sockets, NEW m \in down[s], HandleFromSocket(s, m)
      PROVE  Budget(d)' /\ OneUnnamed(d)'
    <2>1. /\ UNCHANGED <<status, rescans, restarts>>
          /\ down' = [down EXCEPT ![s] = down[s] \ {m}]
          /\ HandlePush(m)
        BY <1>2 DEF HandleFromSocket
    <2>2. m \in Message /\ m.cmd \in Commands /\ m.named \in BOOLEAN
        BY <1>0 DEF TypeOK, Message
    <2>3. \A c \in Commands, t \in Sockets : Unnamed(c) \in down'[t] => Unnamed(c) \in down[t]
        BY <1>0, <2>1 DEF TypeOK
    <2>4. CASE m.named /\ isProcessed(m.cmd)
        <3>1. UNCHANGED <<runs, processed>>
            BY <2>1, <2>4 DEF HandlePush
        <3> QED BY <2>1, <2>3, <3>1, QuietLife
    <2>5. CASE m.named /\ ~isProcessed(m.cmd)
        <3>1. markProcessed(m.cmd) /\ handleCommand(Execution(m.cmd, m.named, FALSE))
            BY <2>1, <2>5 DEF HandlePush
        <3> QED BY <2>1, <2>2, <2>3, <2>5, <3>1, RunOnce
    <2>6. CASE ~m.named
        <3>1. UNCHANGED processed /\ handleCommand(Execution(m.cmd, m.named, FALSE))
            BY <2>1, <2>6 DEF HandlePush
        <3>2. m = Unnamed(m.cmd)
            BY <2>2, <2>6 DEF Message, Unnamed
        <3>3. OnItsWay(m.cmd)
            BY <3>2 DEF OnItsWay
        <3>4. ~OnItsWay(m.cmd)'
            BY <1>0, <2>1, <2>2, <3>2 DEF OnItsWay, OneUnnamed, TypeOK
        <3> QED BY <2>1, <2>2, <2>3, <2>6, <3>1, <3>3, <3>4, RunOnce
    <2> QED BY <2>2, <2>4, <2>5, <2>6
<1> QED BY <1>1, <1>2

\* Every other step of the channel runs, forgets and pushes nothing.
LEMMA LifeOthers ==
    ASSUME LifeInv, TypeOK', NEW d \in Commands,
           \/ HeartbeatStep \/ SocketStep
           \/ \E x \in running, o \in Outcomes : FinishCommand(x, o)
           \/ \E s \in Sockets : \E r \in up[s] : ReceiveResult(s, r)
    PROVE  Budget(d)' /\ OneUnnamed(d)'
<1> DEFINE Quiet == /\ UNCHANGED <<rescans, runs, restarts, processed>>
                    /\ status[d] # "none" => status'[d] # "none"
                    /\ \A s \in Sockets : Unnamed(d) \in down'[s] => Unnamed(d) \in down[s]
<1> USE DEF LifeInv, TypeOK, tableVars, wireVars, beatVars, agentVars
<1>1. CASE HeartbeatStep
    <2>1. UNCHANGED <<rescans, runs, restarts, processed, down>>
        BY <1>1 DEF HeartbeatStep, SendHeartbeat, SelectPending, UpdateSent, HeartbeatLost,
                    ReceiveAnswer, AbandonHeartbeat
    <2>2. status[d] # "none" => status'[d] # "none"
        BY <1>1 DEF HeartbeatStep, SendHeartbeat, SelectPending, UpdateSent, HeartbeatLost,
                    ReceiveAnswer, AbandonHeartbeat, markSent
    <2> QED BY <2>1, <2>2, QuietLife
<1>2. CASE SocketStep
    <2>1. UNCHANGED <<rescans, runs, restarts, processed, status>>
        BY <1>2 DEF SocketStep, Connect, Register, RefuseHandshake, CloseSocket, Disconnect,
                    CloudRestart
    <2>2. \A s \in Sockets : down'[s] = down[s] \/ down'[s] = {}
        BY <1>2 DEF SocketStep, Connect, Register, RefuseHandshake, CloseSocket, Disconnect,
                    CloudRestart
    <2> QED BY <2>1, <2>2, QuietLife
<1>3. ASSUME NEW x \in running, NEW o \in Outcomes, FinishCommand(x, o)
      PROVE  Budget(d)' /\ OneUnnamed(d)'
    <2>1. UNCHANGED <<rescans, runs, restarts, processed, status, down>>
        BY <1>3 DEF FinishCommand
    <2> QED BY <2>1, QuietLife
<1>4. ASSUME NEW s \in Sockets, NEW r \in up[s], ReceiveResult(s, r)
      PROVE  Budget(d)' /\ OneUnnamed(d)'
    <2>1. UNCHANGED <<rescans, runs, restarts, processed, down>>
        BY <1>4 DEF ReceiveResult
    <2>2. status[d] # "none" => status'[d] # "none"
        BY <1>4 DEF ReceiveResult, resultStatus
    <2> QED BY <2>1, <2>2, QuietLife
<1> QED BY <1>1, <1>2, <1>3, <1>4

\* The bound of every command is inductive.
LEMMA LifeStep ==
    ASSUME MemoryFits, LifeInv, [CommandStep]_commandVars
    PROVE  LifeInv'
<1>1. TypeOK'
    BY ChannelTypeStep DEF LifeInv
<1>2. ASSUME NEW d \in Commands PROVE Budget(d)' /\ OneUnnamed(d)'
    <2>1. CASE UNCHANGED commandVars
        BY <1>1, <2>1, QuietLife DEF commandVars, tableVars, wireVars, beatVars, agentVars
    <2>2. CASE PortalStep
        BY <1>1, <2>2, LifePortal DEF PortalStep
    <2>3. CASE HeartbeatStep \/ SocketStep
        BY <1>1, <2>3, LifeOthers
    <2>4. CASE ExecutionStep
        BY <1>1, <2>4, LifeHandlers, LifeOthers, LifeRestart DEF ExecutionStep
    <2> QED BY <2>1, <2>2, <2>3, <2>4 DEF CommandStep
<1> QED BY <1>1, <1>2 DEF LifeInv

\* As long as the agent's memory holds every command, a life of the agent runs
\* each of them once, and a "scan now" once more (processedCommandIds in
\* HeartbeatService, main.ts onCommand).
THEOREM OneRunPerLife ==
    ASSUME MemoryFits
    PROVE  ChannelSpec => []RunsOncePerLife
<1>1. CommandsInit => LifeInv
    <2> SUFFICES ASSUME CommandsInit PROVE LifeInv
        OBVIOUS
    <2>1. TypeOK
        BY ChannelTypeInit
    <2>2. ASSUME NEW c \in Commands PROVE Budget(c) /\ OneUnnamed(c)
        <3>1. runs[c] = 0 /\ restarts = 0 /\ c \notin rescans /\ ~OnItsWay(c)
            BY DEF CommandsInit, OnItsWay
        <3>2. Known(c) \in {0, 1} /\ Delivered(c) \in {0, 1}
            BY DEF Known, Delivered
        <3>3. Budget(c)
            BY <3>1, <3>2 DEF Budget
        <3> QED BY <3>1, <3>3 DEF OneUnnamed, OnItsWay
    <2> QED BY <2>1, <2>2 DEF LifeInv
<1>2. LifeInv => RunsOncePerLife
    <2> SUFFICES ASSUME LifeInv, NEW c \in Commands
                 PROVE  runs[c] <= 1 + restarts + (IF c \in rescans THEN 1 ELSE 0)
        BY DEF RunsOncePerLife
    <2>1. /\ runs[c] \in Nat /\ restarts \in Nat /\ Known(c) \in {0, 1}
          /\ runs[c] <= restarts + Known(c) + Delivered(c)
        BY CommandsAssumption DEF LifeInv, TypeOK, Known, Budget
    <2>2. CASE c \in rescans
        <3>1. Delivered(c) \in {0, 1}
            BY DEF Delivered
        <3> QED BY <2>1, <2>2, <3>1
    <2>3. CASE c \notin rescans
        <3>1. Delivered(c) = 0
            BY <2>3 DEF Delivered
        <3> QED BY <2>1, <2>3, <3>1
    <2> QED BY <2>2, <2>3
<1>3. LifeInv /\ [CommandStep]_commandVars => LifeInv'
    BY LifeStep
<1> QED BY <1>1, <1>2, <1>3, PTL DEF ChannelSpec, ChannelInit
----------------------------------------------------------------------------
(* What the cloud records.  A result on its way is how an execution ended,  *)
(* and whatever ended, or is under way, was run.                            *)

Insert(c) == insertPending(c) /\ UNCHANGED <<rescans, toPush, wireVars, beatVars, agentVars>>
ChannelStep == [CommandStep]_commandVars \/ \E c \in Commands : Insert(c)

ResultsAreReal == \A s \in Sockets : \A r \in up[s] : r.outcome \in outcomes[r.cmd]
EndedWasRun == \A c \in Commands : outcomes[c] # {} => runs[c] > 0
RunningWasRun == \A x \in running : runs[x.cmd] > 0
OutcomeFacts == ResultsAreReal /\ RecordedOutcomeIsReal /\ EndedWasRun /\ RunningWasRun
OutcomeInv == TypeOK /\ OutcomeFacts

\* A step of the channel, or an INSERT, keeps the types.
LEMMA StepTypes == TypeOK /\ ChannelStep => TypeOK'
BY ChannelTypeStep, PortalTypes DEF ChannelStep, Insert

\* A step that runs and ends nothing, and records no outcome, keeps the facts.
LEMMA QuietOutcome ==
    ASSUME OutcomeInv, UNCHANGED <<runs, outcomes>>, running' \subseteq running,
           \A s \in Sockets : up'[s] \subseteq up[s],
           \A c \in Commands : status'[c] \in {status[c], "pending", "sent"}
    PROVE  OutcomeFacts'
BY DEF OutcomeInv, OutcomeFacts, ResultsAreReal, RecordedOutcomeIsReal, EndedWasRun, RunningWasRun

\* An execution that starts was run.
LEMMA RunOutcome ==
    ASSUME OutcomeInv, NEW c \in Commands, NEW named \in BOOLEAN, NEW viaBeat \in BOOLEAN,
           handleCommand(Execution(c, named, viaBeat)), UNCHANGED <<status, up, outcomes>>
    PROVE  OutcomeFacts'
<1> USE DEF OutcomeInv, OutcomeFacts
<1>1. Execution(c, named, viaBeat).cmd = c
    BY DEF Execution
<1>2. runs' = [runs EXCEPT ![c] = runs[c] + 1] /\ runs \in [Commands -> Nat]
    BY <1>1 DEF handleCommand, TypeOK
<1>3. \A d \in Commands : runs[d] > 0 => runs'[d] > 0
    BY <1>2
<1>4. runs'[c] > 0
    BY <1>2
<1>5. RunningWasRun'
    <2>1. running' = running \cup {Execution(c, named, viaBeat)}
        BY DEF handleCommand
    <2>2. \A x \in running : x.cmd \in Commands
        BY DEF TypeOK
    <2> QED BY <1>1, <1>3, <1>4, <2>1, <2>2 DEF RunningWasRun
<1>6. EndedWasRun'
    BY <1>3 DEF EndedWasRun
<1> QED BY <1>5, <1>6 DEF ResultsAreReal, RecordedOutcomeIsReal

\* The end of an execution is what its result says.
LEMMA FinishOutcome ==
    ASSUME OutcomeInv, NEW x \in running, NEW o \in Outcomes, FinishCommand(x, o)
    PROVE  OutcomeFacts'
<1> DEFINE result == [cmd |-> x.cmd, named |-> x.named, outcome |-> o]
<1> USE DEF OutcomeInv, OutcomeFacts
<1>1. x.cmd \in Commands /\ runs[x.cmd] > 0
    BY DEF TypeOK, RunningWasRun
<1>2. /\ UNCHANGED <<runs, status>> /\ running' \subseteq running
      /\ outcomes' = [outcomes EXCEPT ![x.cmd] = outcomes[x.cmd] \cup {o}]
    BY DEF FinishCommand, tableVars
<1>3. /\ \A c \in Commands : outcomes[c] \subseteq outcomes'[c]
      /\ o \in outcomes'[x.cmd]
      /\ \A c \in Commands : c # x.cmd => outcomes'[c] = outcomes[c]
    BY <1>1, <1>2 DEF TypeOK
<1>4. result.cmd = x.cmd /\ result.outcome = o
    OBVIOUS
<1>5. \A s \in Sockets : up'[s] \subseteq up[s] \cup {result}
    <2>1. up \in [Sockets -> SUBSET Result]
        BY DEF TypeOK
    <2>2. up' = IF socket = NoSocket THEN up ELSE [up EXCEPT ![socket] = up[socket] \cup {result}]
        BY DEF FinishCommand
    <2> HIDE DEF result
    <2> QED BY <2>1, <2>2
<1>6. ResultsAreReal'
    <2> HIDE DEF result
    <2>1. \A s \in Sockets : \A r \in up[s] : r.cmd \in Commands
        BY DEF TypeOK, Result
    <2> QED BY <1>3, <1>4, <1>5, <2>1 DEF ResultsAreReal
<1>7. RecordedOutcomeIsReal'
    BY <1>2, <1>3 DEF RecordedOutcomeIsReal
<1>8. EndedWasRun' /\ RunningWasRun'
    BY <1>1, <1>2, <1>3 DEF EndedWasRun, RunningWasRun
<1> QED BY <1>6, <1>7, <1>8

\* What the cloud records is the result it received.
LEMMA ReceiveOutcome ==
    ASSUME OutcomeInv, NEW s \in Sockets, NEW r \in up[s], ReceiveResult(s, r)
    PROVE  OutcomeFacts'
<1> USE DEF OutcomeInv, OutcomeFacts
<1>1. r.cmd \in Commands /\ r.outcome \in Outcomes /\ r.outcome \in outcomes[r.cmd]
    BY DEF TypeOK, Result, ResultsAreReal
<1>2. /\ UNCHANGED <<runs, outcomes, running>>
      /\ \A t \in Sockets : up'[t] \subseteq up[t]
    BY DEF ReceiveResult, agentVars, TypeOK
<1>3. \A c \in Commands :
          status'[c] = status[c] \/ (c = r.cmd /\ status'[c] = resultStatus(r.outcome))
    BY <1>1 DEF ReceiveResult, TypeOK
<1>4. RecordedOutcomeIsReal'
    BY <1>1, <1>2, <1>3 DEF RecordedOutcomeIsReal, resultStatus, Outcomes
<1> QED BY <1>2, <1>4 DEF ResultsAreReal, EndedWasRun, RunningWasRun

\* The facts are kept by every step of the channel and by an INSERT.
LEMMA OutcomeStep ==
    ASSUME OutcomeInv, ChannelStep
    PROVE  OutcomeInv'
<1> USE DEF tableVars, wireVars, beatVars, agentVars
<1>0. TypeOK /\ TypeOK'
    BY StepTypes DEF OutcomeInv
<1> SUFFICES OutcomeFacts'
    BY <1>0 DEF OutcomeInv
<1>1. ASSUME NEW c \in Commands, AddCommand(c) \/ PushCommand(c) \/ TriggerScan(c) \/ Insert(c)
      PROVE  OutcomeFacts'
    <2>1. UNCHANGED <<runs, outcomes, running, up>>
        BY <1>1 DEF AddCommand, PushCommand, TriggerScan, Insert
    <2>2. \A d \in Commands : status'[d] \in {status[d], "pending", "sent"}
        BY <1>0, <1>1 DEF AddCommand, PushCommand, TriggerScan, Insert, insertPending, TypeOK
    <2> QED BY <2>1, <2>2, QuietOutcome
<1>2. CASE HeartbeatStep
    <2>1. UNCHANGED <<runs, outcomes, running, up>>
        BY <1>2 DEF HeartbeatStep, SendHeartbeat, SelectPending, UpdateSent, HeartbeatLost,
                    ReceiveAnswer, AbandonHeartbeat
    <2>2. \A d \in Commands : status'[d] \in {status[d], "pending", "sent"}
        BY <1>0, <1>2 DEF HeartbeatStep, SendHeartbeat, SelectPending, UpdateSent, HeartbeatLost,
                          ReceiveAnswer, AbandonHeartbeat, markSent, TypeOK
    <2> QED BY <2>1, <2>2, QuietOutcome
<1>3. CASE SocketStep
    <2>1. UNCHANGED <<runs, outcomes, running, status>>
        BY <1>3 DEF SocketStep, Connect, Register, RefuseHandshake, CloseSocket, Disconnect,
                    CloudRestart
    <2>2. \A s \in Sockets : up'[s] \subseteq up[s]
        BY <1>0, <1>3 DEF SocketStep, Connect, Register, RefuseHandshake, CloseSocket, Disconnect,
                          CloudRestart, TypeOK
    <2> QED BY <2>1, <2>2, QuietOutcome
<1>4. ASSUME NEW c \in Commands, HandleFromHeartbeat(c) PROVE OutcomeFacts'
    <2>1. UNCHANGED <<status, up, outcomes>>
        BY <1>4 DEF HandleFromHeartbeat
    <2>2. CASE isProcessed(c)
        <3>1. UNCHANGED <<running, runs>>
            BY <1>4, <2>2 DEF HandleFromHeartbeat
        <3> QED BY <2>1, <3>1, QuietOutcome
    <2>3. CASE ~isProcessed(c)
        <3>1. handleCommand(Execution(c, TRUE, TRUE))
            BY <1>4, <2>3 DEF HandleFromHeartbeat
        <3> QED BY <2>1, <3>1, RunOutcome
    <2> QED BY <2>2, <2>3
<1>5. ASSUME NEW s \in Sockets, NEW m \in down[s], HandleFromSocket(s, m) PROVE OutcomeFacts'
    <2>1. UNCHANGED <<status, up, outcomes>> /\ HandlePush(m)
        BY <1>5 DEF HandleFromSocket
    <2>2. m.cmd \in Commands /\ m.named \in BOOLEAN
        BY <1>0 DEF TypeOK, Message
    <2>3. CASE m.named /\ isProcessed(m.cmd)
        <3>1. UNCHANGED <<running, runs>>
            BY <2>1, <2>3 DEF HandlePush
        <3> QED BY <2>1, <3>1, QuietOutcome
    <2>4. CASE ~(m.named /\ isProcessed(m.cmd))
        <3>1. handleCommand(Execution(m.cmd, m.named, FALSE))
            BY <2>1, <2>4 DEF HandlePush
        <3> QED BY <2>1, <2>2, <3>1, RunOutcome
    <2> QED BY <2>3, <2>4
<1>6. CASE AgentRestart
    <2>1. UNCHANGED <<status, up, runs, outcomes>> /\ running' = {}
        BY <1>6 DEF AgentRestart
    <2> QED BY <2>1, QuietOutcome
<1>7. CASE ExecutionStep
    BY <1>4, <1>5, <1>6, <1>7, FinishOutcome, ReceiveOutcome DEF ExecutionStep
<1>8. CASE UNCHANGED commandVars
    BY <1>8, QuietOutcome DEF commandVars
<1> QED BY <1>1, <1>2, <1>3, <1>7, <1>8 DEF ChannelStep, CommandStep, PortalStep

\* At first nothing was run.
LEMMA OutcomeInit == CommandsInit => OutcomeInv
BY ChannelTypeInit
   DEF CommandsInit, OutcomeInv, OutcomeFacts, ResultsAreReal, RecordedOutcomeIsReal,
       EndedWasRun, RunningWasRun

\* What the cloud records of a command is how some execution of it ended
\* (ws/handshake.ts command_result, setResult).
THEOREM RecordsAreReal == ChannelSpec => []RecordedOutcomeIsReal
<1>1. OutcomeInv /\ [CommandStep]_commandVars => OutcomeInv'
    BY OutcomeStep DEF ChannelStep
<1>2. OutcomeInv => RecordedOutcomeIsReal
    BY DEF OutcomeInv, OutcomeFacts
<1> QED BY <1>1, <1>2, OutcomeInit, PTL DEF ChannelSpec, ChannelInit

----------------------------------------------------------------------------
(* Bulk actions: their types *)

\* A step of the bulk actions is one of the channel, or an INSERT, or leaves
\* the channel alone; and the channel's own steps leave the batches alone.
LEMMA NextIsChannel ==
    ASSUME [Next]_vars
    PROVE  ChannelStep /\ (UNCHANGED <<batchVars, workerVars>> \/ BatchStep)
<1> USE DEF ChannelStep, commandVars
<1>1. CASE UNCHANGED vars
    BY <1>1 DEF vars
<1>2. CASE Deliver(DeliveryStep)
    BY <1>2 DEF Deliver, DeliveryStep, CommandStep
<1>3. ASSUME NEW i \in Items, NEW c \in Commands, CreateCommand(i, c) PROVE Insert(c)
    BY <1>3 DEF CreateCommand, Insert
<1>4. CASE BatchStep
    <2>1. UNCHANGED commandVars \/ \E i \in Items, c \in Commands : CreateCommand(i, c)
        BY <1>4 DEF BatchStep, WorkerStep, create, cancelIfScheduled, TickStarts, BeginBatch,
                    reconcileSent, setItemCommand, EndBatch, StartReconcile, TickEnds, TickFails
    <2> QED BY <1>3, <1>4, <2>1
<1> QED BY <1>1, <1>2, <1>4 DEF Next

\* The types of the bulk actions are kept.
LEMMA ActionsTypeStep == ActionsTypeOK /\ [Next]_vars => ActionsTypeOK'
<1> SUFFICES ASSUME ActionsTypeOK, [Next]_vars PROVE ActionsTypeOK'
    OBVIOUS
<1> USE ActionsAssumption DEF ActionsTypeOK, batchVars, workerVars, BatchStatuses
<1>1. CASE UNCHANGED <<batchVars, workerVars>>
    BY <1>1
<1>2. ASSUME NEW b \in Batches, create(b) PROVE ActionsTypeOK'
    BY <1>2 DEF create
<1>3. ASSUME NEW b \in Batches, cancelIfScheduled(b) PROVE ActionsTypeOK'
    BY <1>3 DEF cancelIfScheduled
<1>4. CASE TickStarts
    BY <1>4 DEF TickStarts, listDue, With
<1>5. ASSUME NEW b \in Batches, BeginBatch(b) PROVE ActionsTypeOK'
    BY <1>5 DEF BeginBatch, undispatched, ItemsOf
<1>6. ASSUME NEW b \in Batches, reconcileSent(b) PROVE ActionsTypeOK'
    <2>1. aggregateStatus(b) \in BatchStatuses
        BY DEF aggregateStatus
    <2> QED BY <1>6, <2>1 DEF reconcileSent
<1>7. ASSUME NEW i \in Items, setItemCommand(i) PROVE ActionsTypeOK'
    BY <1>7 DEF setItemCommand
<1>8. ASSUME NEW i \in Items, NEW c \in Commands, CreateCommand(i, c) PROVE ActionsTypeOK'
    BY <1>8 DEF CreateCommand
<1>9. CASE EndBatch
    BY <1>9 DEF EndBatch
<1>10. CASE StartReconcile
    BY <1>10 DEF StartReconcile, With
<1>11. CASE TickEnds
    BY <1>11 DEF TickEnds
<1>12. CASE TickFails
    <2>1. failures' \in 0 .. MaxFailures
        BY <1>12 DEF TickFails
    <2> QED BY <1>12, <2>1 DEF TickFails
<1> QED
    BY <1>1, <1>2, <1>3, <1>4, <1>5, <1>6, <1>7, <1>8, <1>9, <1>10, <1>11, <1>12, NextIsChannel
       DEF BatchStep, WorkerStep

\* Every variable of the bulk actions keeps its type, and an item points to a
\* command that was made for it.
THEOREM ActionsTypeCorrect == Spec => []ActionsTypeOK
<1>1. Init => ActionsTypeOK
    BY ActionsAssumption DEF Init, ActionsTypeOK, BatchStatuses
<1> QED BY <1>1, ActionsTypeStep, PTL DEF Spec

----------------------------------------------------------------------------
(* Bulk actions: what a tick knows.  The batches it goes through are in the *)
(* state it listed them in, save for a cancellation; of the one it is       *)
(* dispatching, every item has a command or is still to do.                 *)

WorkIsListed ==
    /\ worker = "idle" => due = {}
    /\ worker = "dispatch" => \A b \in due : batch[b] \in {"scheduled", "cancelled"}
    /\ worker = "reconcile" => \A b \in due : batch[b] = "sent"
ItemsInHand ==
    /\ current # NoBatch =>
          /\ worker = "dispatch" /\ current \in due
          /\ \A i \in ItemsOf(current) \ todo : itemCommand[i] # NoCommand
    /\ \A i \in todo : current # NoBatch /\ BatchOf[i] = current /\ itemCommand[i] = NoCommand
DispatchInv ==
    /\ ActionsTypeOK /\ OutcomeInv
    /\ WorkIsListed /\ ItemsInHand /\ SentIsComplete /\ ClosedMeansRun

\* The worker lists, goes through its list, and forgets it when it is cut.
LEMMA WorkIsListedStep ==
    ASSUME DispatchInv, [Next]_vars
    PROVE  WorkIsListed'
<1> USE ActionsAssumption DEF DispatchInv, WorkIsListed, ActionsTypeOK, batchVars, workerVars
<1>1. CASE UNCHANGED <<batchVars, workerVars>>
    BY <1>1
<1>2. ASSUME NEW b \in Batches, create(b) PROVE WorkIsListed'
    BY <1>2 DEF create
<1>3. ASSUME NEW b \in Batches, cancelIfScheduled(b) PROVE WorkIsListed'
    BY <1>3 DEF cancelIfScheduled
<1>4. CASE TickStarts
    BY <1>4 DEF TickStarts, listDue, With
<1>5. ASSUME NEW b \in Batches, BeginBatch(b) PROVE WorkIsListed'
    BY <1>5 DEF BeginBatch
<1>6. ASSUME NEW b \in Batches, reconcileSent(b) PROVE WorkIsListed'
    BY <1>6 DEF reconcileSent
<1>7. ASSUME NEW i \in Items, setItemCommand(i) PROVE WorkIsListed'
    BY <1>7 DEF setItemCommand
<1>8. ASSUME NEW i \in Items, NEW c \in Commands, CreateCommand(i, c) PROVE WorkIsListed'
    BY <1>8 DEF CreateCommand
<1>9. CASE EndBatch
    BY <1>9 DEF EndBatch, ItemsInHand
<1>10. CASE StartReconcile
    BY <1>10 DEF StartReconcile, With
<1>11. CASE TickEnds
    BY <1>11 DEF TickEnds
<1>12. CASE TickFails
    BY <1>12 DEF TickFails
<1> QED
    BY <1>1, <1>2, <1>3, <1>4, <1>5, <1>6, <1>7, <1>8, <1>9, <1>10, <1>11, <1>12, NextIsChannel
       DEF BatchStep, WorkerStep

\* An item leaves the hand when it points to its command.
LEMMA ItemsInHandStep ==
    ASSUME DispatchInv, [Next]_vars
    PROVE  ItemsInHand'
<1> USE ActionsAssumption DEF DispatchInv, ItemsInHand, ActionsTypeOK, ItemsOf, batchVars, workerVars
<1>1. CASE UNCHANGED <<batchVars, workerVars>>
    BY <1>1
<1>2. ASSUME NEW b \in Batches, create(b) \/ cancelIfScheduled(b) PROVE ItemsInHand'
    BY <1>2 DEF create, cancelIfScheduled
<1>4. CASE TickStarts
    BY <1>4 DEF TickStarts
<1>5. ASSUME NEW b \in Batches, BeginBatch(b) PROVE ItemsInHand'
    BY <1>5 DEF BeginBatch, undispatched
<1>6. ASSUME NEW b \in Batches, reconcileSent(b) PROVE ItemsInHand'
    BY <1>6 DEF reconcileSent
<1>7. ASSUME NEW i \in Items, setItemCommand(i) PROVE ItemsInHand'
    BY <1>7 DEF setItemCommand
<1>8. ASSUME NEW i \in Items, NEW c \in Commands, CreateCommand(i, c) PROVE ItemsInHand'
    BY <1>8 DEF CreateCommand
<1>9. CASE EndBatch
    BY <1>9 DEF EndBatch, allDispatched
<1>10. CASE StartReconcile
    BY <1>10 DEF StartReconcile
<1>11. CASE TickEnds
    BY <1>11 DEF TickEnds
<1>12. CASE TickFails
    BY <1>12 DEF TickFails
<1> QED
    BY <1>1, <1>2, <1>4, <1>5, <1>6, <1>7, <1>8, <1>9, <1>10, <1>11, <1>12, NextIsChannel
       DEF BatchStep, WorkerStep

\* The batches change in five ways.
LEMMA BatchesStep ==
    ASSUME DispatchInv, [Next]_vars
    PROVE  \/ UNCHANGED batchVars
           \/ \E b \in Batches : /\ batch[b] \in {"none", "scheduled"} /\ UNCHANGED itemCommand
                                 /\ \E st \in {"scheduled", "cancelled"} :
                                        batch' = [batch EXCEPT ![b] = st]
           \/ \E b \in Batches : reconcileSent(b)
           \/ \E i \in Items : setItemCommand(i)
           \/ EndBatch
<1> USE DEF batchVars, workerVars
<1>1. \A b \in Batches : create(b) => batch' = [batch EXCEPT ![b] = "scheduled"]
    BY DEF create
<1>2. \A b \in Batches : cancelIfScheduled(b) => batch' = [batch EXCEPT ![b] = "cancelled"]
    BY DEF cancelIfScheduled
<1> QED
    BY <1>1, <1>2, NextIsChannel
       DEF BatchStep, WorkerStep, TickStarts, BeginBatch, CreateCommand, StartReconcile,
           TickEnds, TickFails, create, cancelIfScheduled

\* A batch is marked as sent when none of its items is left.
LEMMA SentIsCompleteStep ==
    ASSUME DispatchInv, [Next]_vars
    PROVE  SentIsComplete'
<1> USE ActionsAssumption DEF DispatchInv, SentIsComplete, ActionsTypeOK, batchVars, Closed
<1>1. CASE UNCHANGED batchVars
    BY <1>1
<1>2. ASSUME NEW b \in Batches, batch[b] \in {"none", "scheduled"}, UNCHANGED itemCommand,
             NEW st \in {"scheduled", "cancelled"}, batch' = [batch EXCEPT ![b] = st]
      PROVE  SentIsComplete'
    BY <1>2
<1>3. ASSUME NEW b \in Batches, reconcileSent(b) PROVE SentIsComplete'
    <2>1. b \in due /\ batch[b] = "sent"
        BY <1>3 DEF reconcileSent, WorkIsListed
    <2> QED BY <1>3, <2>1 DEF reconcileSent
<1>4. ASSUME NEW i \in Items, setItemCommand(i) PROVE SentIsComplete'
    BY <1>4 DEF setItemCommand
<1>5. CASE EndBatch
    <2>1. \A i \in Items : BatchOf[i] = current => itemCommand[i] # NoCommand
        BY <1>5 DEF EndBatch, allDispatched, ItemsInHand, ItemsOf
    <2>2. \A b \in Batches : b # current => batch'[b] = batch[b]
        BY <1>5 DEF EndBatch
    <2>3. UNCHANGED itemCommand
        BY <1>5 DEF EndBatch
    <2> QED BY <2>1, <2>2, <2>3
<1> QED BY <1>1, <1>2, <1>3, <1>4, <1>5, BatchesStep

\* A run is never taken back.
LEMMA RunsGrow ==
    ASSUME TypeOK, ChannelStep, NEW c \in Commands, runs[c] > 0
    PROVE  runs'[c] > 0
<1> USE DEF tableVars, wireVars, beatVars, agentVars, TypeOK
<1>1. ASSUME NEW x, handleCommand(x) PROVE runs'[c] > 0
    BY <1>1 DEF handleCommand
<1>2. UNCHANGED runs \/ \E x : handleCommand(x)
    BY DEF ChannelStep, CommandStep, Insert, commandVars, PortalStep, AddCommand, PushCommand,
           TriggerScan, HeartbeatStep, SendHeartbeat, SelectPending, UpdateSent, HeartbeatLost,
           ReceiveAnswer, AbandonHeartbeat, ExecutionStep, HandleFromHeartbeat, HandleFromSocket,
           HandlePush, FinishCommand, ReceiveResult, AgentRestart, SocketStep, Connect, Register,
           RefuseHandshake, CloseSocket, Disconnect, CloudRestart
<1> QED BY <1>1, <1>2

\* A batch closes when every command of its items has ended, hence was run.
LEMMA ClosedMeansRunStep ==
    ASSUME DispatchInv, [Next]_vars
    PROVE  ClosedMeansRun'
<1> USE ActionsAssumption DEF DispatchInv, ClosedMeansRun, ActionsTypeOK, batchVars, Closed
<1>0. \A c \in Commands : runs[c] > 0 => runs'[c] > 0
    BY NextIsChannel, RunsGrow DEF OutcomeInv
<1>a. \A i \in Items : batch[BatchOf[i]] \in {"sent"} \cup Closed => itemCommand[i] \in Commands
    BY DEF SentIsComplete
<1>1. CASE UNCHANGED batchVars
    BY <1>0, <1>a, <1>1
<1>2. ASSUME NEW b \in Batches, batch[b] \in {"none", "scheduled"}, UNCHANGED itemCommand,
             NEW st \in {"scheduled", "cancelled"}, batch' = [batch EXCEPT ![b] = st]
      PROVE  ClosedMeansRun'
    BY <1>0, <1>a, <1>2
<1>3. ASSUME NEW b \in Batches, reconcileSent(b) PROVE ClosedMeansRun'
    <2>1. b \in due /\ batch[b] = "sent"
        BY <1>3 DEF reconcileSent, WorkIsListed
    <2>2. batch' = [batch EXCEPT ![b] = aggregateStatus(b)] /\ UNCHANGED itemCommand
        BY <1>3 DEF reconcileSent
    <2>3. ASSUME aggregateStatus(b) \in Closed, NEW i \in Items, BatchOf[i] = b
          PROVE  runs[itemCommand[i]] > 0
        <3>1. commandStatus(i) \notin {"none", "pending", "sent"}
            BY <2>3 DEF aggregateStatus, ItemsOf
        <3>2. itemCommand[i] \in Commands /\ commandStatus(i) = status[itemCommand[i]]
            BY <1>a, <2>1, <2>3 DEF commandStatus
        <3>3. status[itemCommand[i]] \in {"completed", "error"}
            BY <3>1, <3>2 DEF OutcomeInv, TypeOK, Statuses
        <3> QED BY <3>2, <3>3 DEF OutcomeInv, OutcomeFacts, RecordedOutcomeIsReal, EndedWasRun
    <2>4. \A c \in Batches : c # b => batch'[c] = batch[c]
        BY <2>2
    <2>5. batch'[b] = aggregateStatus(b)
        BY <2>2
    <2> QED BY <1>0, <1>a, <2>1, <2>2, <2>3, <2>4, <2>5
<1>4. ASSUME NEW i \in Items, setItemCommand(i) PROVE ClosedMeansRun'
    <2>1. batch[BatchOf[i]] \in {"scheduled", "cancelled"}
        BY <1>4 DEF setItemCommand, ItemsInHand, WorkIsListed
    <2>2. UNCHANGED batch /\ \A j \in Items : j # i => itemCommand'[j] = itemCommand[j]
        BY <1>4 DEF setItemCommand
    <2> QED BY <1>0, <1>a, <2>1, <2>2
<1>5. CASE EndBatch
    <2>1. \A b \in Batches : b # current => batch'[b] = batch[b]
        BY <1>5 DEF EndBatch
    <2>2. UNCHANGED itemCommand /\ current \in Batches /\ batch'[current] = "sent"
        BY <1>5 DEF EndBatch
    <2> QED BY <1>0, <1>a, <2>1, <2>2
<1> QED BY <1>1, <1>2, <1>3, <1>4, <1>5, BatchesStep

\* What a tick knows holds in every reachable state.
LEMMA AlwaysDispatchInv == Spec => []DispatchInv
<1>1. Init => DispatchInv
    <2> SUFFICES ASSUME Init PROVE DispatchInv
        OBVIOUS
    <2>1. ActionsTypeOK
        BY ActionsAssumption DEF Init, ActionsTypeOK, BatchStatuses
    <2>2. OutcomeInv
        BY OutcomeInit DEF Init
    <2>3. WorkIsListed /\ ItemsInHand
        BY DEF Init, WorkIsListed, ItemsInHand
    <2>4. SentIsComplete /\ ClosedMeansRun
        BY ActionsAssumption DEF Init, SentIsComplete, ClosedMeansRun, Closed
    <2> QED BY <2>1, <2>2, <2>3, <2>4 DEF DispatchInv
<1>2. DispatchInv /\ [Next]_vars => DispatchInv'
    <2> SUFFICES ASSUME DispatchInv, [Next]_vars PROVE DispatchInv'
        OBVIOUS
    <2>1. ActionsTypeOK'
        BY ActionsTypeStep DEF DispatchInv
    <2>2. OutcomeInv'
        BY NextIsChannel, OutcomeStep DEF DispatchInv
    <2> QED
        BY <2>1, <2>2, WorkIsListedStep, ItemsInHandStep, SentIsCompleteStep, ClosedMeansRunStep
           DEF DispatchInv
<1> QED BY <1>1, <1>2, PTL DEF Spec

\* A batch counts as sent only when each of its items has a command, also when
\* an earlier tick died half way through it (dispatchBatch).
THEOREM SentBatchIsComplete == Spec => []SentIsComplete
<1>1. DispatchInv => SentIsComplete
    BY DEF DispatchInv
<1> QED BY <1>1, AlwaysDispatchInv, PTL

\* A batch is closed only after the agent ran the command of every item
\* (reconcileSentBatches, aggregateStatus).
THEOREM ClosedBatchWasRun == Spec => []ClosedMeansRun
<1>1. DispatchInv => ClosedMeansRun
    BY DEF DispatchInv
<1> QED BY <1>1, AlwaysDispatchInv, PTL

\* An item that points to a command gets no second one, whichever ticks were
\* cut before ("re-entrada tras un fallo parcial", dispatchBatch).
THEOREM NoCommandTwice == Spec => NoSecondCommand
<1>1. DispatchInv /\ [Next]_vars =>
          [\A i \in Items : itemCommand[i] # NoCommand => madeFor'[i] = madeFor[i]]_vars
    <2> SUFFICES ASSUME DispatchInv, [Next]_vars, NEW i \in Items, itemCommand[i] # NoCommand
                 PROVE  madeFor'[i] = madeFor[i]
        OBVIOUS
    <2>1. CASE UNCHANGED madeFor
        BY <2>1
    <2>2. ASSUME NEW j \in Items, NEW c \in Commands, CreateCommand(j, c)
          PROVE  madeFor'[i] = madeFor[i]
        BY <2>2 DEF CreateCommand, DispatchInv, ItemsInHand, ActionsTypeOK
    <2> QED
        BY <2>1, <2>2, NextIsChannel
           DEF workerVars, BatchStep, WorkerStep, create, cancelIfScheduled, TickStarts, BeginBatch,
               reconcileSent, setItemCommand, EndBatch, StartReconcile, TickEnds, TickFails
<1> QED BY <1>1, AlwaysDispatchInv, PTL DEF Spec, NoSecondCommand

\* A closed batch stays as it is: no cancellation, later tick or late result
\* rewrites it (cancelIfScheduled, listDue, listSent).
THEOREM ClosedStaysClosed == Spec => ClosedIsFinal
<1>1. DispatchInv /\ [Next]_vars =>
          [\A b \in Batches : batch[b] \in Closed => batch'[b] = batch[b]]_vars
    <2> SUFFICES ASSUME DispatchInv, [Next]_vars, NEW b \in Batches, batch[b] \in Closed
                 PROVE  batch'[b] = batch[b]
        OBVIOUS
    <2> USE DEF DispatchInv, WorkIsListed, ItemsInHand, ActionsTypeOK, Closed
    <2>1. CASE UNCHANGED batchVars \/ \E i \in Items : setItemCommand(i)
        BY <2>1 DEF batchVars, setItemCommand
    <2>2. ASSUME NEW c \in Batches, reconcileSent(c) PROVE batch'[b] = batch[b]
        BY <2>2 DEF reconcileSent
    <2>3. CASE EndBatch
        BY <2>3 DEF EndBatch
    <2> QED BY <2>1, <2>2, <2>3, BatchesStep
<1> QED BY <1>1, AlwaysDispatchInv, PTL DEF Spec, ClosedIsFinal

\* A batch cancelled while no tick is at work stays cancelled: no later tick
\* lists it (cancelIfScheduled, listDue, setStatus in dispatchBatch).
THEOREM CancellationHolds == Spec => CancelledStaysCancelled
<1> SUFFICES ASSUME NEW b \in Batches
             PROVE  Spec => [](batch[b] = "cancelled" /\ worker = "idle"
                                  => [](batch[b] = "cancelled"))
    BY DEF CancelledStaysCancelled
<1> DEFINE Inert == batch[b] = "cancelled" /\ b \notin due
<1>1. DispatchInv /\ batch[b] = "cancelled" /\ worker = "idle" => Inert
    BY DEF DispatchInv, WorkIsListed
<1>2. DispatchInv /\ Inert /\ [Next]_vars => Inert'
    <2> SUFFICES ASSUME DispatchInv, Inert, [Next]_vars PROVE Inert'
        OBVIOUS
    <2> USE DEF DispatchInv, ItemsInHand, ActionsTypeOK
    <2>1. batch'[b] = "cancelled"
        <3>1. CASE UNCHANGED batchVars \/ \E i \in Items : setItemCommand(i)
            BY <3>1 DEF batchVars, setItemCommand
        <3>2. CASE EndBatch \/ \E c \in Batches : reconcileSent(c)
            BY <3>2 DEF EndBatch, reconcileSent
        <3> QED BY <3>1, <3>2, BatchesStep
    <2>2. due' \subseteq due \cup With("scheduled") \cup With("sent")
        BY NextIsChannel
           DEF workerVars, BatchStep, WorkerStep, create, cancelIfScheduled, TickStarts, listDue,
               BeginBatch, reconcileSent, setItemCommand, CreateCommand, EndBatch, StartReconcile,
               TickEnds, TickFails
    <2> QED BY <2>1, <2>2 DEF With
<1>3. Inert => batch[b] = "cancelled"
    OBVIOUS
<1> HIDE DEF Inert
<1> QED BY <1>1, <1>2, <1>3, AlwaysDispatchInv, PTL DEF Spec

=============================================================================

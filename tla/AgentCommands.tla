---------------------------- MODULE AgentCommands ---------------------------
(***************************************************************************)
(* Remote commands for one agent.  The cloud keeps them in agent_commands  *)
(* and delivers each through two channels that know nothing of each other: *)
(* the answer of the agent's next heartbeat, and, for some of them, a push *)
(* over the agent's WebSocket.  The agent runs what arrives and reports    *)
(* over the WebSocket only.  Heartbeats time out while their handler goes  *)
(* on, sockets die without the other end noticing, the agent restarts.     *)
(***************************************************************************)
EXTENDS Naturals, Sequences, FiniteSets

CONSTANTS
    Commands,       \* rows of agent_commands
    Beats, NoBeat,  \* heartbeat exchanges that may overlap; none under way
    Sockets, NoSocket,  \* WebSocket connections, reused once forgotten; none
    ProcessedCap,   \* ids the agent remembers (1000 in the code)
    MaxRestarts     \* bound: restarts of the agent

ASSUME CommandsAssumption ==
    /\ NoBeat \notin Beats /\ NoSocket \notin Sockets
    /\ ProcessedCap \in Nat \ {0} /\ MaxRestarts \in Nat

VARIABLES
    status,       \* status[c]: agent_commands.status, "none" before the INSERT
    rescans,      \* commands that come from the portal's "scan now" button
    toPush,       \* inserted by SendAgentCommand, its push still to come
    beat,         \* beat[h]: a heartbeat exchange, [phase, cmds]
    server,       \* server[s]: the cloud's end of a connection
    registered,   \* agentClients.get(agentId): the connection pushes go to
    down, up,     \* messages on each connection: pushed commands, results
    beating,      \* the heartbeat the agent waits for, or NoBeat
    inbox,        \* commands of the last answer still to be handled
    processed,    \* processedCommandIds, oldest first
    running,      \* commands being executed
    socket,       \* SocketManager.ws: the agent's connection, or NoSocket
    restarts,     \* times the agent restarted
    runs,         \* runs[c]: times c was executed
    outcomes      \* outcomes[c]: how its executions ended

tableVars == <<status, rescans, toPush>>
wireVars == <<server, registered, down, up, socket>>
beatVars == <<beat, beating, inbox>>
agentVars == <<processed, running, restarts, runs, outcomes>>
commandVars == <<tableVars, wireVars, beatVars, agentVars>>

Statuses == {"none", "pending", "sent", "completed", "error"}
Outcomes == {"success", "error"}
\* A pushed command: the portal's "scan now" button pushes RESCAN without id.
Message == [cmd : Commands, named : BOOLEAN]
Result == [cmd : Commands, named : BOOLEAN, outcome : Outcomes]
\* "selected": between the SELECT and the UPDATE of takePending.
BeatPhases == {"free", "sent", "selected", "answered", "lost"}
Beat == [phase : BeatPhases, cmds : SUBSET Commands]
FreeBeat == [phase |-> "free", cmds |-> {}]
\* "handshake": authenticating, no listener yet; "aborted": closed meanwhile.
Ends == {"closed", "handshake", "aborted", "up"}

Pending == {c \in Commands : status[c] = "pending"}

CommandsInit ==
    /\ status = [c \in Commands |-> "none"]
    /\ rescans = {} /\ toPush = {}
    /\ beat = [h \in Beats |-> FreeBeat]
    /\ server = [s \in Sockets |-> "closed"]
    /\ registered = NoSocket
    /\ down = [s \in Sockets |-> {}] /\ up = [s \in Sockets |-> {}]
    /\ beating = NoBeat /\ inbox = {}
    /\ processed = <<>> /\ running = {}
    /\ socket = NoSocket
    /\ restarts = 0
    /\ runs = [c \in Commands |-> 0]
    /\ outcomes = [c \in Commands |-> {}]

----------------------------------------------------------------------------
(* The cloud's queue *)

insertPending(c) ==
    /\ status[c] = "none"
    /\ status' = [status EXCEPT ![c] = "pending"]

\* sendCommandToAgent: a message for the registered socket if it is open; a
\* message to an agent that is gone is lost with its connection.
pushed(m) ==
    IF registered # NoSocket /\ server[registered] = "up"
    THEN [down EXCEPT ![registered] = @ \cup {m}]
    ELSE down

\* SendAgentCommandUseCase: the INSERT, then the audit log, then the push.
AddCommand(c) ==
    /\ insertPending(c)
    /\ toPush' = toPush \cup {c}
    /\ UNCHANGED <<rescans, wireVars, beatVars, agentVars>>

PushCommand(c) ==
    /\ c \in toPush
    /\ toPush' = toPush \ {c}
    /\ down' = pushed([cmd |-> c, named |-> TRUE])
    /\ UNCHANGED <<status, rescans, server, registered, up, socket, beatVars, agentVars>>

\* TriggerScanUseCase: the push goes first and carries no id, the row that is
\* inserted next is delivered by the heartbeat as well.
TriggerScan(c) ==
    /\ insertPending(c)
    /\ rescans' = rescans \cup {c}
    /\ down' = pushed([cmd |-> c, named |-> FALSE])
    /\ UNCHANGED <<toPush, server, registered, up, socket, beatVars, agentVars>>

\* Mutant: the outcome is written as the agent words it.
sameWord(outcome) == outcome
\* Mutant: the two words are swapped.
invertedStatus(outcome) == IF outcome = "error" THEN "completed" ELSE "error"
\* The table's word for an outcome reported over the WebSocket.
resultStatus(outcome) == IF outcome = "success" THEN "completed" ELSE "error"

----------------------------------------------------------------------------
(* Heartbeats *)

\* The next beat is scheduled only when the previous one, with the commands
\* it brought, is done.
SendHeartbeat(h) ==
    /\ beating = NoBeat /\ inbox = {} /\ \A x \in running : ~x.beat
    /\ beat[h].phase = "free"
    /\ beat' = [beat EXCEPT ![h].phase = "sent"]
    /\ beating' = h
    /\ UNCHANGED <<tableVars, wireVars, inbox, agentVars>>

\* A heartbeat whose sender gave up has nobody to answer.
Ended(h, phase) == IF h = beating THEN [beat[h] EXCEPT !.phase = phase] ELSE FreeBeat

SelectPending(h) ==
    /\ beat[h].phase = "sent"
    /\ beat' = [beat EXCEPT ![h] = [phase |-> "selected", cmds |-> Pending]]
    /\ UNCHANGED <<tableVars, wireVars, beating, inbox, agentVars>>

\* The UPDATE ... WHERE id IN (...) does not look at the status again.
markSent(h) == [c \in Commands |-> IF c \in beat[h].cmds THEN "sent" ELSE status[c]]

UpdateSent(h) ==
    /\ beat[h].phase = "selected"
    /\ status' = markSent(h)
    /\ beat' = [beat EXCEPT ![h] = Ended(h, "answered")]
    /\ UNCHANGED <<rescans, toPush, wireVars, beating, inbox, agentVars>>

\* The request, the answer, or the process handling it is lost.
HeartbeatLost(h) ==
    /\ beat[h].phase \in {"sent", "selected", "answered"}
    /\ beat' = [beat EXCEPT ![h] = Ended(h, "lost")]
    /\ UNCHANGED <<tableVars, wireVars, beating, inbox, agentVars>>

ReceiveAnswer ==
    /\ beating # NoBeat /\ beat[beating].phase = "answered"
    /\ inbox' = beat[beating].cmds
    /\ beat' = [beat EXCEPT ![beating] = FreeBeat]
    /\ beating' = NoBeat
    /\ UNCHANGED <<tableVars, wireVars, agentVars>>

Forsaken(h) == IF beat[h].phase \in {"answered", "lost"} THEN FreeBeat ELSE beat[h]

\* The 65 s timeout, or the error of a lost exchange.
AbandonHeartbeat ==
    /\ beating # NoBeat
    /\ beat' = [beat EXCEPT ![beating] = Forsaken(beating)]
    /\ beating' = NoBeat
    /\ UNCHANGED <<tableVars, wireVars, inbox, agentVars>>

----------------------------------------------------------------------------
(* Execution *)

isProcessed(c) == \E k \in DOMAIN processed : processed[k] = c
markProcessed(c) ==
    LET ids == Append(processed, c) IN
    processed' = IF Len(ids) > ProcessedCap THEN Tail(ids) ELSE ids

Execution(c, named, viaBeat) == [cmd |-> c, named |-> named, beat |-> viaBeat]
handleCommand(x) ==
    /\ running' = running \cup {x}
    /\ runs' = [runs EXCEPT ![x.cmd] = @ + 1]

\* Commands of a heartbeat are handled one after the other.
HandleFromHeartbeat(c) ==
    /\ c \in inbox /\ \A x \in running : ~x.beat
    /\ inbox' = inbox \ {c}
    /\ IF isProcessed(c)
       THEN UNCHANGED <<processed, running, runs>>
       ELSE markProcessed(c) /\ handleCommand(Execution(c, TRUE, TRUE))
    /\ UNCHANGED <<tableVars, wireVars, beat, beating, restarts, outcomes>>

\* Mutant: only the heartbeat remembers what it ran.
HandleUnmarked(m) ==
    IF m.named /\ isProcessed(m.cmd)
    THEN UNCHANGED <<processed, running, runs>>
    ELSE /\ handleCommand(Execution(m.cmd, m.named, FALSE))
         /\ UNCHANGED processed
\* onCommand: a push with an id is run once, one without an id always.
HandlePush(m) ==
    IF m.named /\ isProcessed(m.cmd)
    THEN UNCHANGED <<processed, running, runs>>
    ELSE /\ handleCommand(Execution(m.cmd, m.named, FALSE))
         /\ IF m.named THEN markProcessed(m.cmd) ELSE UNCHANGED processed

HandleFromSocket(s, m) ==
    /\ s = socket /\ m \in down[s]
    /\ down' = [down EXCEPT ![s] = @ \ {m}]
    /\ HandlePush(m)
    /\ UNCHANGED <<tableVars, server, registered, up, socket, beatVars, restarts, outcomes>>

\* The execution ends and its result is sent if the socket is open then; the
\* list the heartbeat would report from is never filled.
FinishCommand(x, outcome) ==
    /\ x \in running
    /\ running' = running \ {x}
    /\ outcomes' = [outcomes EXCEPT ![x.cmd] = @ \cup {outcome}]
    /\ up' = IF socket = NoSocket THEN up
             ELSE [up EXCEPT ![socket] =
                     @ \cup {[cmd |-> x.cmd, named |-> x.named, outcome |-> outcome]}]
    /\ UNCHANGED <<tableVars, server, registered, down, socket, beatVars, processed, restarts, runs>>

\* The cloud records a result that carries an id, whatever the row says.  One
\* that comes before the handshake is over finds no listener.
ReceiveResult(s, r) ==
    /\ server[s] \in {"handshake", "up"} /\ r \in up[s]
    /\ up' = [up EXCEPT ![s] = @ \ {r}]
    /\ status' = IF r.named /\ server[s] = "up"
                 THEN [status EXCEPT ![r.cmd] = resultStatus(r.outcome)]
                 ELSE status
    /\ UNCHANGED <<rescans, toPush, server, registered, down, socket, beatVars, agentVars>>

\* RESTART, FORCE_UPDATE, a crash: only the SQLite file survives.
AgentRestart ==
    /\ restarts < MaxRestarts
    /\ restarts' = restarts + 1
    /\ beat' = IF beating = NoBeat THEN beat
               ELSE [beat EXCEPT ![beating] = Forsaken(beating)]
    /\ beating' = NoBeat /\ inbox' = {}
    /\ processed' = <<>> /\ running' = {}
    /\ socket' = NoSocket
    /\ UNCHANGED <<tableVars, server, registered, down, up, runs, outcomes>>

----------------------------------------------------------------------------
(* The WebSocket *)

Connect(s) ==
    /\ socket = NoSocket
    /\ server[s] = "closed" /\ registered # s
    /\ socket' = s
    /\ server' = [server EXCEPT ![s] = "handshake"]
    /\ UNCHANGED <<tableVars, registered, down, up, beatVars, agentVars>>

\* The token, the agent and the blacklist were checked, each with an await;
\* the connection is registered even if it closed in the meantime.
Register(s) ==
    /\ server[s] \in {"handshake", "aborted"}
    /\ server' = [server EXCEPT ![s] = IF @ = "handshake" THEN "up" ELSE "closed"]
    /\ registered' = s
    /\ UNCHANGED <<tableVars, down, up, socket, beatVars, agentVars>>

\* The token expired, or the agent is revoked or on the blacklist.
RefuseHandshake(s) ==
    /\ server[s] = "handshake"
    /\ server' = [server EXCEPT ![s] = "closed"]
    /\ socket' = IF socket = s THEN NoSocket ELSE socket
    /\ up' = [up EXCEPT ![s] = {}]
    /\ UNCHANGED <<tableVars, registered, down, beatVars, agentVars>>

\* The agent's end goes: what was pushed on it is lost with it.
Disconnect ==
    /\ socket # NoSocket
    /\ down' = [down EXCEPT ![socket] = {}]
    /\ socket' = NoSocket
    /\ UNCHANGED <<tableVars, server, registered, up, beatVars, agentVars>>

\* The cloud learns that the agent's end has gone, perhaps long after the agent
\* connected again: disconnectAgent deletes the agent's entry, whichever
\* connection it holds.  Nobody listens for a close during the handshake.
CloseSocket(s) ==
    /\ server[s] \in {"handshake", "up"} /\ socket # s
    /\ IF server[s] = "up"
       THEN server' = [server EXCEPT ![s] = "closed"] /\ registered' = NoSocket
       ELSE server' = [server EXCEPT ![s] = "aborted"] /\ UNCHANGED registered
    /\ down' = [down EXCEPT ![s] = {}] /\ up' = [up EXCEPT ![s] = {}]
    /\ UNCHANGED <<tableVars, socket, beatVars, agentVars>>

\* The api process restarts: requests, pushes and connections end with it.
CloudRestart ==
    /\ toPush # {} \/ (\E h \in Beats : beat[h].phase = "selected") \/ socket # NoSocket
    /\ toPush' = {}
    /\ beat' = [h \in Beats |-> IF beat[h].phase \in {"sent", "selected"}
                               THEN Ended(h, "lost") ELSE beat[h]]
    /\ server' = [s \in Sockets |-> "closed"] /\ registered' = NoSocket
    /\ down' = [s \in Sockets |-> {}] /\ up' = down'
    /\ socket' = NoSocket
    /\ UNCHANGED <<status, rescans, beating, inbox, agentVars>>

----------------------------------------------------------------------------

PortalStep == \E c \in Commands : AddCommand(c) \/ PushCommand(c) \/ TriggerScan(c)

HeartbeatStep ==
    \/ \E h \in Beats : \/ SendHeartbeat(h) \/ SelectPending(h) \/ UpdateSent(h)
                        \/ HeartbeatLost(h)
    \/ ReceiveAnswer
    \/ AbandonHeartbeat

ExecutionStep ==
    \/ \E c \in Commands : HandleFromHeartbeat(c)
    \/ \E s \in Sockets : \/ \E m \in down[s] : HandleFromSocket(s, m)
                          \/ \E r \in up[s] : ReceiveResult(s, r)
    \/ \E x \in running, outcome \in Outcomes : FinishCommand(x, outcome)
    \/ AgentRestart

SocketStep ==
    \/ \E s \in Sockets : Connect(s) \/ Register(s) \/ RefuseHandshake(s) \/ CloseSocket(s)
    \/ Disconnect
    \/ CloudRestart

CommandStep == PortalStep \/ HeartbeatStep \/ ExecutionStep \/ SocketStep

=============================================================================

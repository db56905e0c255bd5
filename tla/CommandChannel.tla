--------------------------- MODULE CommandChannel ---------------------------
(***************************************************************************)
(* AgentCommands on its own: the portal issues commands, the two channels  *)
(* deliver them, and what the cloud records is compared with what the      *)
(* agent did.                                                              *)
(***************************************************************************)
EXTENDS AgentCommands

ChannelInit == CommandsInit
ChannelSpec == ChannelInit /\ [][CommandStep]_commandVars

----------------------------------------------------------------------------

\* Every variable keeps its type; the agent remembers at most ProcessedCap ids,
\* each of them once.
TypeOK ==
    /\ status \in [Commands -> Statuses]
    /\ rescans \subseteq Commands /\ toPush \subseteq Commands
    /\ beat \in [Beats -> Beat]
    /\ server \in [Sockets -> Ends]
    /\ registered \in Sockets \cup {NoSocket}
    /\ down \in [Sockets -> SUBSET Message]
    /\ up \in [Sockets -> SUBSET Result]
    /\ beating \in Beats \cup {NoBeat}
    /\ inbox \subseteq Commands
    /\ processed \in Seq(Commands) /\ Len(processed) <= ProcessedCap
    /\ \A j, k \in DOMAIN processed : processed[j] = processed[k] => j = k
    /\ running \subseteq [cmd : Commands, named : BOOLEAN, beat : BOOLEAN]
    /\ socket \in Sockets \cup {NoSocket}
    /\ restarts \in 0 .. MaxRestarts
    /\ runs \in [Commands -> Nat]
    /\ outcomes \in [Commands -> SUBSET Outcomes]

\* Though a command may arrive by the heartbeat, by a push, and again after a
\* heartbeat that overlapped another, a life of the agent runs it once; the
\* portal's "scan now", pushed without an id, once more (isProcessed,
\* markProcessed in HeartbeatService.heartbeat and main.ts onCommand).
RunsOncePerLife ==
    \A c \in Commands : runs[c] <= 1 + restarts + (IF c \in rescans THEN 1 ELSE 0)

\* What the cloud records of a command is how some execution of it ended,
\* through lost connections, late results and restarts (ws/handshake.ts
\* command_result, setResult).
RecordedOutcomeIsReal ==
    \A c \in Commands :
        /\ status[c] = "completed" => "success" \in outcomes[c]
        /\ status[c] = "error" => "error" \in outcomes[c]

\* The agent whose connection is established at both ends is the one pushes go
\* to: pushCommand sends "if the agent is connected by WSS".
ConnectedIsRegistered ==
    \A s \in Sockets : server[s] = "up" /\ socket = s => registered = s

=============================================================================

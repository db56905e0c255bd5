------------------------- MODULE AgentAccessProofs -------------------------
(***************************************************************************)
(* What holds of the agent's access for any ranges and any number of       *)
(* rotations, faults and operations of the portal: types, that a revoked   *)
(* agent stays out, and that the agent's file and memory hold the one      *)
(* refresh token the cloud accepts.                                        *)
(***************************************************************************)
EXTENDS AgentAccess, TLAPS

----------------------------------------------------------------------------
(* Types.  What a loop holds is only known to be a configuration while it   *)
(* needs it: the object a request was made from, the object about to be     *)
(* saved; and an answer with tokens brings a pair that was issued.          *)

LoopState == [at : {"idle", "posting", "refreshing", "saving", "reposting", "storing"},
              object : Config \cup {NoConfig}, fresh : Config \cup {NoConfig}]
GoodLoops == {s \in LoopState :
                 /\ s.at \in {"posting", "refreshing", "storing"} => s.object \in Config
                 /\ s.at \in {"saving", "reposting"} => s.fresh \in Config}
HttpState == [at : {"none", "post", "authorised", "refresh", "matched"} \cup Answers,
              token : Tokens \cup {NoToken}, ranges : IpRanges]
GoodHttp == {h \in HttpState : h.at = "tokens" => h.token \in Tokens}

LoopsOK == loop \in [Loops -> GoodLoops]
HttpOK == http \in [Loops -> GoodHttp]
FilesOK == config \in Config /\ disk \in Config
RowOK ==
    /\ status \in {"pending", "active", "offline", "revoked"}
    /\ hash \in Tokens \cup {NoToken}
    /\ remote \in IpRanges
FlagsOK ==
    /\ keyOut \in BOOLEAN /\ blacklisted \in BOOLEAN /\ cutOff \in BOOLEAN
    /\ (status = "pending" => hash = NoToken /\ keyOut)
CountsOK ==
    /\ issued \in Tokens /\ expired \in Tokens
    /\ stranded \subseteq {"answer lost", "repost lost", "stale file", "overwritten"}
    /\ faults \in 0 .. MaxFaults /\ edits \in 0 .. MaxEdits
AccessInv == LoopsOK /\ HttpOK /\ FilesOK /\ RowOK /\ FlagsOK /\ CountsOK

LEMMA AccessInvTypes == AccessInv => AccessTypeOK
<1> SUFFICES ASSUME AccessInv PROVE AccessTypeOK
    OBVIOUS
<1>1. GoodLoops \subseteq LoopState /\ GoodHttp \subseteq HttpState
    BY DEF GoodLoops, GoodHttp
<1>2. loop \in [Loops -> LoopState] /\ http \in [Loops -> HttpState]
    BY <1>1 DEF AccessInv, LoopsOK, HttpOK
<1> QED BY <1>2 DEF AccessInv, FilesOK, RowOK, FlagsOK, CountsOK, AccessTypeOK, LoopState, HttpState

\* The states a loop or an exchange is put into.
LEMMA IdleIsGood == Idle \in GoodLoops
BY DEF Idle, GoodLoops, LoopState

LEMMA QuietIsGood == Quiet \in GoodHttp
BY AccessAssumption DEF Quiet, GoodHttp, HttpState, Answers

LEMMA RequestsAreGood ==
    ASSUME NEW t \in Tokens \cup {NoToken}
    PROVE  Post(t) \in GoodHttp /\ Refresh(t) \in GoodHttp
BY AccessAssumption DEF Post, Refresh, Quiet, GoodHttp, HttpState, Answers

LEMMA TokenOfConfig ==
    ASSUME NEW c \in Config \cup {NoConfig} PROVE c.token \in Tokens \cup {NoToken}
BY DEF Config, NoConfig

LEMMA NoConfigHasNoPair == NoConfig.token \notin Tokens
BY AccessAssumption DEF NoConfig, NoToken, Tokens

\* A pair that is issued is within the bound.
LEMMA NextPair ==
    ASSUME CountsOK, issued < MaxTokens, issued' = issued + 1 PROVE issued' \in Tokens
<1>1. issued \in Tokens
    BY DEF CountsOK
<1> QED BY <1>1, AccessAssumption DEF Tokens

\* So are a fault and an operation.
LEMMA NextFault ==
    ASSUME CountsOK, fault PROVE faults' \in 0 .. MaxFaults
<1>1. faults \in 0 .. MaxFaults
    BY DEF CountsOK
<1> QED BY <1>1, AccessAssumption DEF fault

LEMMA NextEdit ==
    ASSUME CountsOK, edit PROVE edits' \in 0 .. MaxEdits
<1>1. edits \in 0 .. MaxEdits
    BY DEF CountsOK
<1> QED BY <1>1, AccessAssumption DEF edit

LEMMA GoKeepsLoops ==
    ASSUME LoopsOK, NEW l \in Loops, NEW s \in GoodLoops, go(l, s) PROVE LoopsOK'
BY DEF LoopsOK, go

LEMMA SendKeepsHttp ==
    ASSUME HttpOK, NEW l \in Loops, NEW h \in GoodHttp, send(l, h) PROVE HttpOK'
BY DEF HttpOK, send

LEMMA AccessInit == Init => AccessInv
<1> SUFFICES ASSUME Init PROVE AccessInv
    OBVIOUS
<1>1. LoopsOK
    BY IdleIsGood DEF Init, LoopsOK
<1>2. HttpOK
    BY QuietIsGood DEF Init, HttpOK
<1>3. FilesOK
    BY AccessAssumption DEF Init, FilesOK, Config, Tokens
<1>4. RowOK
    BY AccessAssumption DEF Init, RowOK, Tokens
<1>5. CountsOK
    BY AccessAssumption DEF Init, CountsOK, Tokens
<1>6. FlagsOK
    BY DEF Init, FlagsOK
<1> QED BY <1>1, <1>2, <1>3, <1>4, <1>5, <1>6 DEF AccessInv

\* The row and the counters in a step of the agent, which touches neither but `stranded`.
LEMMA AgentLeavesRow ==
    ASSUME RowOK, FlagsOK, CountsOK, UNCHANGED <<rowVars, tokenVars, cutOff, boundVars>>,
           stranded' \subseteq {"answer lost", "repost lost", "stale file", "overwritten"}
    PROVE  RowOK' /\ FlagsOK' /\ CountsOK'
BY DEF RowOK, FlagsOK, CountsOK, rowVars, tokenVars, boundVars

\* The steps of the two loops.
LEMMA AccessByAgent == AccessInv /\ Agent => AccessInv'
<1> SUFFICES ASSUME AccessInv, Agent PROVE AccessInv'
    OBVIOUS
<1>0. /\ LoopsOK /\ HttpOK /\ FilesOK /\ RowOK /\ FlagsOK /\ CountsOK
      /\ \A l \in Loops : loop[l] \in GoodLoops /\ http[l] \in GoodHttp
      /\ stranded \subseteq {"answer lost", "repost lost", "stale file", "overwritten"}
    BY DEF AccessInv, LoopsOK, HttpOK, CountsOK
<1> USE <1>0
<1>1. ASSUME NEW l \in Loops, Starts(l) PROVE AccessInv'
    <2>1. [Idle EXCEPT !.at = "posting", !.object = config] \in GoodLoops
        BY DEF FilesOK, Idle, GoodLoops, LoopState
    <2>2. Post(config.token) \in GoodHttp
        BY RequestsAreGood, TokenOfConfig DEF FilesOK
    <2>3. LoopsOK' /\ HttpOK'
        BY <1>1, <2>1, <2>2, GoKeepsLoops, SendKeepsHttp DEF Starts
    <2>4. FilesOK' /\ RowOK' /\ FlagsOK' /\ CountsOK'
        BY <1>1, AgentLeavesRow DEF Starts, FilesOK
    <2> QED BY <2>3, <2>4 DEF AccessInv
<1>2. ASSUME NEW l \in Loops, PostEnds(l) \/ RefreshRefused(l) PROVE AccessInv'
    <2>1. LoopsOK' /\ HttpOK'
        BY <1>2, IdleIsGood, QuietIsGood, GoKeepsLoops, SendKeepsHttp DEF PostEnds, RefreshRefused
    <2>2. FilesOK' /\ RowOK' /\ FlagsOK' /\ CountsOK'
        BY <1>2, AgentLeavesRow DEF PostEnds, RefreshRefused, FilesOK
    <2> QED BY <2>1, <2>2 DEF AccessInv
<1>3. ASSUME NEW l \in Loops, Unauthorized(l) PROVE AccessInv'
    <2>1. [loop[l] EXCEPT !.at = "refreshing"] \in GoodLoops
        BY <1>3 DEF Unauthorized, GoodLoops, LoopState
    <2>2. Refresh(loop[l].object.token) \in GoodHttp
        BY RequestsAreGood, TokenOfConfig DEF GoodLoops, LoopState
    <2>3. LoopsOK' /\ HttpOK'
        BY <1>3, <2>1, <2>2, GoKeepsLoops, SendKeepsHttp DEF Unauthorized
    <2>4. FilesOK' /\ RowOK' /\ FlagsOK' /\ CountsOK'
        BY <1>3, AgentLeavesRow DEF Unauthorized, FilesOK
    <2> QED BY <2>3, <2>4 DEF AccessInv
<1>4. ASSUME NEW l \in Loops, Refreshed(l) PROVE AccessInv'
    <2> DEFINE fresh == [loop[l].object EXCEPT !.token = http[l].token]
    <2>1. loop[l].object \in Config /\ http[l].token \in Tokens
        BY <1>4 DEF Refreshed, answered, GoodLoops, GoodHttp
    <2>2. fresh \in Config
        BY <2>1 DEF Config
    <2> HIDE DEF fresh
    <2>3. [loop[l] EXCEPT !.at = "saving", !.fresh = fresh] \in GoodLoops
        BY <2>2 DEF GoodLoops, LoopState
    <2>4. LoopsOK' /\ HttpOK'
        BY <1>4, <2>3, QuietIsGood, GoKeepsLoops, SendKeepsHttp DEF Refreshed, fresh
    <2>5. FilesOK' /\ RowOK' /\ FlagsOK' /\ CountsOK'
        BY <1>4, AgentLeavesRow DEF Refreshed, FilesOK
    <2> QED BY <2>4, <2>5 DEF AccessInv
<1>5. ASSUME NEW l \in Loops, RefreshSaved(l) PROVE AccessInv'
    <2>1. loop[l].fresh \in Config
        BY <1>5 DEF RefreshSaved, GoodLoops
    <2>2. [loop[l] EXCEPT !.at = "reposting"] \in GoodLoops
        BY <2>1 DEF GoodLoops, LoopState
    <2>3. Post(loop[l].fresh.token) \in GoodHttp
        BY <2>1, RequestsAreGood, TokenOfConfig
    <2>4. LoopsOK'
        BY <1>5, <2>2, IdleIsGood, GoKeepsLoops DEF RefreshSaved
    <2>5. HttpOK'
        BY <1>5, <2>3, SendKeepsHttp DEF RefreshSaved, HttpOK
    <2>6. FilesOK' /\ RowOK' /\ FlagsOK' /\ CountsOK'
        BY <1>5, <2>1, AgentLeavesRow DEF RefreshSaved, FilesOK
    <2> QED BY <2>4, <2>5, <2>6 DEF AccessInv
<1>6. ASSUME NEW l \in Loops, Unheard(l) PROVE AccessInv'
    <2>1. LoopsOK' /\ FilesOK'
        BY <1>6 DEF Unheard, agentVars, LoopsOK, FilesOK
    <2>2. HttpOK'
        BY <1>6, QuietIsGood, SendKeepsHttp DEF Unheard
    <2>3. RowOK' /\ FlagsOK' /\ CountsOK'
        BY <1>6, AgentLeavesRow DEF Unheard
    <2> QED BY <2>1, <2>2, <2>3 DEF AccessInv
<1>7. CASE RepostEnds
    <2>1. "sync" \in Loops /\ loop["sync"].fresh \in Config
        BY <1>7 DEF RepostEnds, GoodLoops, Loops
    <2>2. LoopsOK' /\ HttpOK'
        BY <1>7, <2>1, IdleIsGood, QuietIsGood, GoKeepsLoops, SendKeepsHttp DEF RepostEnds
    <2>3. FilesOK' /\ RowOK' /\ FlagsOK' /\ CountsOK'
        BY <1>7, <2>1, AgentLeavesRow DEF RepostEnds, FilesOK
    <2> QED BY <2>2, <2>3 DEF AccessInv
<1>8. CASE handleRemoteConfig
    <2> DEFINE rs == http["heartbeat"].ranges
               now == [config EXCEPT !.ranges = rs]
    <2>1. "heartbeat" \in Loops /\ "sync" \in Loops /\ rs \in IpRanges
        BY DEF Loops, GoodHttp, HttpState
    <2>2. now \in Config
        BY <2>1 DEF FilesOK, Config
    <2>3. inPlace("sync", rs) \in GoodLoops
        <3>1. CASE loop["sync"].object.token = config.token
            <4>1. loop["sync"].object \in Config \cup {NoConfig}
                BY <2>1 DEF GoodLoops, LoopState
            <4>2. loop["sync"].object \in Config
                <5>1. NoConfig.token \notin Tokens
                    BY NoConfigHasNoPair
                <5>2. config.token \in Tokens
                    BY DEF FilesOK, Config
                <5> QED BY <3>1, <4>1, <5>1, <5>2
            <4>3. [loop["sync"].object EXCEPT !.ranges = rs] \in Config
                BY <4>2, <2>1 DEF Config
            <4> HIDE DEF rs
            <4>4. [loop["sync"] EXCEPT !.object.ranges = rs] \in GoodLoops
                BY <4>3, <2>1 DEF GoodLoops, LoopState
            <4> QED BY <4>4, <2>1 DEF inPlace
        <3>2. CASE loop["sync"].object.token # config.token
            BY <3>2, <2>1 DEF inPlace
        <3> QED BY <3>1, <3>2
    <2>4. [Idle EXCEPT !.at = "storing", !.object = now] \in GoodLoops
        <3> HIDE DEF now
        <3> QED BY <2>2 DEF Idle, GoodLoops, LoopState
    <2> HIDE DEF now, rs
    <2>5. LoopsOK'
        <3>1. loop' = [sync |-> inPlace("sync", rs),
                       heartbeat |-> IF rs = config.ranges THEN Idle
                                     ELSE [Idle EXCEPT !.at = "storing", !.object = now]]
            BY <1>8 DEF handleRemoteConfig, now, rs
        <3> DEFINE mine == IF rs = config.ranges THEN Idle
                           ELSE [Idle EXCEPT !.at = "storing", !.object = now]
        <3>2. mine \in GoodLoops
            BY <2>4, IdleIsGood
        <3> HIDE DEF mine
        <3>3. loop' = [sync |-> inPlace("sync", rs), heartbeat |-> mine]
            BY <3>1 DEF mine
        <3>4. [sync |-> inPlace("sync", rs), heartbeat |-> mine] \in [Loops -> GoodLoops]
            <4> DEFINE his == inPlace("sync", rs)
            <4> HIDE DEF his
            <4>1. his \in GoodLoops
                BY <2>3 DEF his
            <4>2. [sync |-> his, heartbeat |-> mine] \in [sync : GoodLoops, heartbeat : GoodLoops]
                BY <3>2, <4>1
            <4>3. [sync : GoodLoops, heartbeat : GoodLoops] \subseteq [Loops -> GoodLoops]
                BY DEF Loops
            <4> QED BY <4>2, <4>3 DEF his
        <3> QED BY <3>3, <3>4 DEF LoopsOK
    <2>6. HttpOK'
        BY <1>8, <2>1, QuietIsGood, SendKeepsHttp DEF handleRemoteConfig
    <2>7. FilesOK' /\ RowOK' /\ FlagsOK' /\ CountsOK'
        BY <1>8, <2>2, AgentLeavesRow DEF handleRemoteConfig, FilesOK, now, rs
    <2> QED BY <2>5, <2>6, <2>7 DEF AccessInv
<1>9. CASE ConfigStored
    <2>1. "heartbeat" \in Loops /\ loop["heartbeat"].object \in Config
        BY <1>9 DEF ConfigStored, GoodLoops, Loops
    <2>2. LoopsOK' /\ HttpOK'
        BY <1>9, <2>1, IdleIsGood, GoKeepsLoops DEF ConfigStored, HttpOK
    <2>3. FilesOK' /\ RowOK' /\ FlagsOK' /\ CountsOK'
        BY <1>9, <2>1, AgentLeavesRow DEF ConfigStored, FilesOK
    <2> QED BY <2>2, <2>3 DEF AccessInv
<1> QED BY <1>1, <1>2, <1>3, <1>4, <1>5, <1>6, <1>7, <1>8, <1>9 DEF Agent

\* A request that moves on keeps its token, or has no token to bring.
LEMMA MovesOn ==
    ASSUME HttpOK, NEW l \in Loops,
           NEW at \in {"unauthorized", "refused", "authorised", "ok", "matched"},
           http' = [http EXCEPT ![l].at = at]
    PROVE  HttpOK'
<1>1. http[l] \in GoodHttp
    BY DEF HttpOK
<1>2. [http[l] EXCEPT !.at = at] \in GoodHttp
    BY <1>1 DEF GoodHttp, HttpState, Answers
<1> QED BY <1>2 DEF HttpOK

\* The steps of the cloud.
LEMMA AccessByCloud == AccessInv /\ Cloud => AccessInv'
<1> SUFFICES ASSUME AccessInv, Cloud PROVE AccessInv'
    OBVIOUS
<1>0. LoopsOK /\ HttpOK /\ FilesOK /\ RowOK /\ FlagsOK /\ CountsOK
    BY DEF AccessInv
<1>1. LoopsOK' /\ FilesOK'
    BY <1>0 DEF Cloud, touchOnSync, heartbeat, agentAuth, RefreshCompares, rotateRefreshToken,
                agentVars, LoopsOK, FilesOK
<1>6. FlagsOK'
    BY <1>0 DEF Cloud, touchOnSync, heartbeat, agentAuth, RefreshCompares, rotateRefreshToken,
                rowVars, FlagsOK
<1>2. CASE touchOnSync
    <2>1. HttpOK'
        BY <1>0, <1>2, MovesOn DEF touchOnSync, Loops
    <2>2. RowOK' /\ CountsOK'
        BY <1>0, <1>2 DEF touchOnSync, RowOK, CountsOK, tokenVars, boundVars
    <2> QED BY <1>1, <1>6, <2>1, <2>2 DEF AccessInv
<1>3. CASE heartbeat
    <2>1. "heartbeat" \in Loops /\ http["heartbeat"] \in GoodHttp /\ remote \in IpRanges
        BY <1>0 DEF HttpOK, RowOK, Loops
    <2>2. [http["heartbeat"] EXCEPT !.at = "ok", !.ranges = remote] \in GoodHttp
        BY <2>1 DEF GoodHttp, HttpState, Answers
    <2>3. HttpOK'
        BY <1>0, <1>3, <2>1, <2>2 DEF heartbeat, HttpOK
    <2>4. RowOK' /\ CountsOK'
        BY <1>0, <1>3 DEF heartbeat, RowOK, CountsOK, tokenVars, boundVars
    <2> QED BY <1>1, <1>6, <2>3, <2>4 DEF AccessInv
<1>4. ASSUME NEW l \in Loops, agentAuth(l) \/ RefreshCompares(l) PROVE AccessInv'
    <2>1. HttpOK'
        BY <1>0, <1>4, MovesOn DEF agentAuth, RefreshCompares
    <2>2. RowOK' /\ CountsOK'
        BY <1>0, <1>4 DEF agentAuth, RefreshCompares, RowOK, CountsOK, rowVars, tokenVars, boundVars
    <2> QED BY <1>1, <1>6, <2>1, <2>2 DEF AccessInv
<1>5. ASSUME NEW l \in Loops, rotateRefreshToken(l) PROVE AccessInv'
    <2>1. issued' \in Tokens
        BY <1>0, <1>5, NextPair DEF rotateRefreshToken
    <2>2. http[l] \in GoodHttp
        BY <1>0 DEF HttpOK
    <2>3. [http[l] EXCEPT !.at = "tokens", !.token = issued'] \in GoodHttp
        BY <2>1, <2>2 DEF GoodHttp, HttpState, Answers
    <2>4. HttpOK'
        BY <1>0, <1>5, <2>3 DEF rotateRefreshToken, HttpOK
    <2>5. RowOK' /\ CountsOK'
        BY <1>0, <1>5, <2>1 DEF rotateRefreshToken, RowOK, CountsOK, boundVars
    <2> QED BY <1>1, <1>6, <2>4, <2>5 DEF AccessInv
<1> QED BY <1>2, <1>3, <1>4, <1>5 DEF Cloud

\* The clock, the monitor, the portal, the installer, and what fails.
LEMMA AccessByEnvironment == AccessInv /\ Environment => AccessInv'
<1> SUFFICES ASSUME AccessInv, Environment PROVE AccessInv'
    OBVIOUS
<1>0. LoopsOK /\ HttpOK /\ FilesOK /\ RowOK /\ FlagsOK /\ CountsOK
    BY DEF AccessInv
<1> USE <1>0
<1>6. FlagsOK'
    <2>1. CASE TokenExpires \/ MonitorTick \/ updateConfig \/ BlacklistExpires \/ AgentRestart
               \/ \E l \in Loops : SaveFails(l) \/ Fails(l)
        BY <2>1 DEF TokenExpires, MonitorTick, monitorMarks, updateConfig, BlacklistExpires,
                    AgentRestart, SaveFails, Fails, rowVars, FlagsOK
    <2>2. CASE RevokeToken
        BY <2>2 DEF RevokeToken, FlagsOK
    <2>3. CASE RegenerateActivationKey
        BY <2>3 DEF RegenerateActivationKey, FlagsOK
    <2>4. CASE ActivateAgent \/ ActivationLost
        BY <2>4 DEF ActivateAgent, ActivationLost, activate, FlagsOK
    <2> QED BY <2>1, <2>2, <2>3, <2>4 DEF Environment
<1> USE <1>6
<1>1. CASE TokenExpires \/ MonitorTick \/ updateConfig \/ RevokeToken \/ BlacklistExpires
           \/ RegenerateActivationKey
    <2>1. LoopsOK' /\ HttpOK' /\ FilesOK'
        BY <1>1 DEF TokenExpires, MonitorTick, updateConfig, RevokeToken, BlacklistExpires,
                    RegenerateActivationKey, agentVars, LoopsOK, HttpOK, FilesOK
    <2>2. RowOK'
        BY <1>1 DEF TokenExpires, MonitorTick, monitorMarks, updateConfig, RevokeToken,
                    BlacklistExpires, RegenerateActivationKey, rowVars, RowOK
    <2>3. CountsOK'
        <3>1. CASE TokenExpires
            <4>1. expired' \in Tokens
                <5>1. expired \in Tokens /\ expired < MaxTokens /\ expired' = expired + 1
                    BY <3>1 DEF TokenExpires, CountsOK
                <5> QED BY <5>1, AccessAssumption DEF Tokens
            <4> QED BY <3>1, <4>1 DEF TokenExpires, boundVars, CountsOK
        <3>2. CASE ~TokenExpires
            BY <1>1, <3>2, NextEdit
            DEF MonitorTick, updateConfig, RevokeToken, BlacklistExpires,
                RegenerateActivationKey, tokenVars, boundVars, CountsOK
        <3> QED BY <3>1, <3>2
    <2> QED BY <2>1, <2>2, <2>3 DEF AccessInv
<1>2. CASE ActivateAgent \/ ActivationLost
    <2>1. issued' \in Tokens
        BY <1>2, NextPair DEF ActivateAgent, ActivationLost, activate
    <2>2. FilesOK'
        <3>1. [token |-> issued', ranges |-> NoRanges] \in Config
            BY <2>1, AccessAssumption DEF Config
        <3> QED BY <1>2, <3>1 DEF ActivateAgent, ActivationLost, FilesOK, agentVars
    <2>3. LoopsOK' /\ HttpOK'
        BY <1>2, IdleIsGood
        DEF ActivateAgent, ActivationLost, activate, agentVars, LoopsOK, HttpOK
    <2>4. RowOK'
        BY <1>2, <2>1 DEF ActivateAgent, ActivationLost, activate, RowOK
    <2>5. CountsOK'
        BY <1>2, <2>1, NextFault DEF ActivateAgent, ActivationLost, activate, CountsOK
    <2> QED BY <2>2, <2>3, <2>4, <2>5 DEF AccessInv
<1>3. CASE AgentRestart
    <2>1. LoopsOK' /\ HttpOK' /\ FilesOK'
        BY <1>3, IdleIsGood DEF AgentRestart, LoopsOK, HttpOK, FilesOK
    <2>2. RowOK' /\ CountsOK'
        BY <1>3, NextFault DEF AgentRestart, RowOK, CountsOK, rowVars, tokenVars
    <2> QED BY <2>1, <2>2 DEF AccessInv
<1>4. ASSUME NEW l \in Loops, SaveFails(l) PROVE AccessInv'
    <2>1. LoopsOK' /\ HttpOK' /\ FilesOK'
        BY <1>4, IdleIsGood, GoKeepsLoops DEF SaveFails, HttpOK, FilesOK
    <2>2. RowOK' /\ CountsOK'
        BY <1>4, NextFault DEF SaveFails, RowOK, CountsOK, rowVars, tokenVars
    <2> QED BY <2>1, <2>2 DEF AccessInv
<1>5. ASSUME NEW l \in Loops, Fails(l) PROVE AccessInv'
    <2>1. [http EXCEPT ![l] = Quiet] \in [Loops -> GoodHttp]
        BY QuietIsGood DEF HttpOK
    <2>2. LoopsOK' /\ HttpOK' /\ FilesOK'
        BY <1>5, <2>1, IdleIsGood, GoKeepsLoops DEF Fails, HttpOK, FilesOK
    <2>3. RowOK' /\ CountsOK'
        BY <1>5, NextFault DEF Fails, RowOK, CountsOK, rowVars, tokenVars
    <2> QED BY <2>2, <2>3 DEF AccessInv
<1> QED BY <1>1, <1>2, <1>3, <1>4, <1>5 DEF Environment

LEMMA AccessStep == AccessInv /\ [Next]_vars => AccessInv'
<1>1. ASSUME AccessInv, UNCHANGED vars PROVE AccessInv'
    BY <1>1 DEF AccessInv, LoopsOK, HttpOK, FilesOK, RowOK, FlagsOK, CountsOK, vars, agentVars,
                rowVars, tokenVars, boundVars
<1> QED BY <1>1, AccessByAgent, AccessByCloud, AccessByEnvironment DEF Next

\* Every variable of the agent's access keeps its type, in every reachable state; an
\* agent waiting for its activation key has no refresh token that would be accepted.
THEOREM AccessTypeCorrect == Spec => []AccessTypeOK
<1> QED BY AccessInvTypes, AccessInit, AccessStep, PTL DEF Spec

----------------------------------------------------------------------------
(* Revocation.  "Stays out" is not inductive: a request that has passed its *)
(* check would set the status again.  None has, after a revocation that cut *)
(* the agent off, and none can: both checks look at the status first.       *)

CutOff == cutOff => status = "revoked" /\ AtWork = {}

LEMMA CutOffInit == Init => CutOff
BY DEF Init, CutOff

\* A step that leaves the row alone and lets no request through keeps the agent out.
LEMMA CutOffKept ==
    ASSUME CutOff, cutOff' = cutOff, status' = status,
           \A l \in Loops : http'[l].at \in {"authorised", "matched"} => http'[l].at = http[l].at
    PROVE  CutOff'
BY DEF CutOff, AtWork

\* What the agent sends has yet to be checked.
LEMMA SendLetsNobodyIn ==
    ASSUME HttpOK, CutOff, cutOff' = cutOff, status' = status,
           NEW l \in Loops, NEW h, h.at \notin {"authorised", "matched"}, send(l, h)
    PROVE  CutOff'
<1>1. \A k \in Loops : http'[k].at \in {"authorised", "matched"} => http'[k].at = http[k].at
    BY DEF HttpOK, send
<1> QED BY <1>1, CutOffKept

LEMMA RequestsAreUnchecked ==
    /\ Quiet.at \notin {"authorised", "matched"}
    /\ \A t : Post(t).at \notin {"authorised", "matched"}
    /\ \A t : Refresh(t).at \notin {"authorised", "matched"}
BY DEF Post, Refresh, Quiet

LEMMA CutOffStep == AccessInv /\ CutOff /\ [Next]_vars => CutOff'
<1> SUFFICES ASSUME AccessInv, CutOff, [Next]_vars PROVE CutOff'
    OBVIOUS
<1>1. HttpOK /\ http \in [Loops -> HttpState]
    BY AccessInvTypes DEF AccessInv, AccessTypeOK, HttpState
<1> USE <1>1
<1>2. CASE Agent
    <2>1. cutOff' = cutOff /\ status' = status
        BY <1>2 DEF Agent, Starts, PostEnds, Unauthorized, RefreshRefused, Refreshed, RefreshSaved,
                    Unheard, RepostEnds, handleRemoteConfig, ConfigStored, rowVars
    <2>2. ASSUME http' = http PROVE CutOff'
        BY <2>1, <2>2, CutOffKept
    <2>3. ASSUME NEW l \in Loops,
                 \/ Starts(l) \/ PostEnds(l) \/ Unauthorized(l) \/ RefreshRefused(l)
                 \/ Refreshed(l) \/ RefreshSaved(l) \/ Unheard(l)
          PROVE  CutOff'
        BY <2>1, <2>2, <2>3, SendLetsNobodyIn, RequestsAreUnchecked
        DEF Starts, PostEnds, Unauthorized, RefreshRefused, Refreshed, RefreshSaved, Unheard
    <2>4. CASE RepostEnds \/ handleRemoteConfig \/ ConfigStored
        BY <2>1, <2>2, <2>4, SendLetsNobodyIn, RequestsAreUnchecked
        DEF RepostEnds, handleRemoteConfig, ConfigStored, Loops
    <2> QED BY <1>2, <2>3, <2>4 DEF Agent
<1>3. ASSUME NEW l \in Loops, agentAuth(l) \/ RefreshCompares(l) PROVE CutOff'
    <2>1. cutOff' = cutOff /\ status' = status
        BY <1>3 DEF agentAuth, RefreshCompares, rowVars
    <2>2. status = "revoked" => http'[l].at \notin {"authorised", "matched"}
        <3>1. CASE agentAuth(l)
            <4>1. http'[l].at = IF http[l].token < expired THEN "unauthorized"
                                ELSE IF status = "revoked" THEN "refused"
                                ELSE IF blacklisted THEN "unauthorized" ELSE "authorised"
                BY <3>1 DEF agentAuth
            <4> QED BY <4>1
        <3>2. CASE RefreshCompares(l)
            <4>1. http'[l].at = IF isRefreshable(l) THEN "matched" ELSE "refused"
                BY <3>2 DEF RefreshCompares
            <4>2. status = "revoked" => ~isRefreshable(l)
                BY DEF isRefreshable
            <4> QED BY <4>1, <4>2
        <3> QED BY <1>3, <3>1, <3>2
    <2>3. \A k \in Loops \ {l} : http'[k] = http[k]
        BY <1>3 DEF agentAuth, RefreshCompares
    <2> QED BY <2>1, <2>2, <2>3 DEF CutOff, AtWork
<1>4. ASSUME NEW l \in Loops, http[l].at \in {"authorised", "matched"}, cutOff' = cutOff
      PROVE  CutOff'
    BY <1>4 DEF CutOff, AtWork
<1>5. CASE touchOnSync \/ heartbeat \/ \E l \in Loops : rotateRefreshToken(l)
    BY <1>4, <1>5 DEF touchOnSync, heartbeat, rotateRefreshToken, answered, Loops
<1>6. CASE RevokeToken
    BY <1>6 DEF RevokeToken, CutOff, AtWork
<1>7. CASE RegenerateActivationKey
    BY <1>7 DEF RegenerateActivationKey, CutOff
<1>8. CASE MonitorTick \/ ActivateAgent \/ ActivationLost
    BY <1>8 DEF MonitorTick, monitorMarks, ActivateAgent, ActivationLost, activate, CutOff
<1>9. CASE TokenExpires \/ updateConfig \/ BlacklistExpires \/ AgentRestart
           \/ \E l \in Loops : SaveFails(l)
    BY <1>9, CutOffKept
    DEF TokenExpires, updateConfig, BlacklistExpires, AgentRestart, SaveFails, rowVars
<1>10. ASSUME NEW l \in Loops, Fails(l) PROVE CutOff'
    <2>1. cutOff' = cutOff /\ status' = status
        BY <1>10 DEF Fails, rowVars
    <2>2. http' = http \/ send(l, Quiet)
        BY <1>10 DEF Fails, send
    <2> QED BY <2>1, <2>2, CutOffKept, SendLetsNobodyIn, RequestsAreUnchecked
<1>11. CASE UNCHANGED vars
    BY <1>11, CutOffKept DEF vars, rowVars
<1> QED BY <1>2, <1>3, <1>5, <1>6, <1>7, <1>8, <1>9, <1>10, <1>11
        DEF Next, Cloud, Environment

\* A revoked agent stays out, if no request of it was at work when it was revoked,
\* whatever it retries, whatever expires and whoever looks at its row.
THEOREM RevokedAgentStaysOut == Spec => []RevokedStaysOut
<1>1. CutOff => RevokedStaysOut
    BY DEF CutOff, RevokedStaysOut
<1> QED BY <1>1, AccessInit, AccessStep, CutOffInit, CutOffStep, PTL DEF Spec

----------------------------------------------------------------------------
(* The pair.  While no history says that the pair was lost, the one refresh *)
(* token the cloud accepts is the newest pair, and it is in the file, in an *)
(* answer, or in the hands of a loop that is about to save it.  A loop that *)
(* carries it is alone: nobody else has seen that token, so no other        *)
(* exchange can rotate it, and what the others save or make current is      *)
(* older, which the histories record.                                      *)

Kept == stranded \subseteq {"repost lost"} /\ Linked

\* Every token in circulation was issued; the cloud accepts the last one.
PairsIssued ==
    /\ Linked => hash = issued
    /\ config.token <= issued /\ disk.token <= issued
    /\ \A l \in Loops :
          /\ loop[l].at # "idle" => loop[l].object.token <= issued
          /\ loop[l].at \in {"saving", "reposting"} => loop[l].fresh.token <= issued
          /\ http[l].at # "none" => http[l].token <= issued

\* The exchange a loop waits for is the one it started.
Matching(at, answer) ==
    /\ at \in {"saving", "storing"} => answer = "none"
    /\ at = "refreshing" => answer \in {"refresh", "matched", "tokens", "refused"}
    /\ at \in {"posting", "reposting"} =>
           answer \in {"post", "authorised", "ok", "unauthorized", "refused"}
Paired == \A l \in Loops : Matching(loop[l].at, http[l].at)

\* A loop between the answer of a rotation and the moment memory and file have it.
Answered(l) == loop[l].at = "refreshing" /\ http[l].at = "tokens"
Unpublished(l) == loop[l].at \in {"saving", "reposting"}
Carries(l) == Answered(l) \/ Unpublished(l)

CarriesThePair(l) ==
    /\ Answered(l) => http[l].token = hash
    /\ Unpublished(l) => loop[l].fresh.token = hash
    /\ loop[l].at = "reposting" => disk.token = hash
\* Nobody but l knows the pair.
OnlyKnownTo(l) ==
    /\ config.token # hash
    /\ \A m \in Loops \ {l} :
          /\ loop[m].at # "idle" => loop[m].object.token # hash
          /\ http[m].at # "none" => http[m].token # hash
          /\ ~Unpublished(m)
CarriersOK == Kept => \A l \in Loops : Carries(l) => CarriesThePair(l) /\ OnlyKnownTo(l)

UnderWay == \E l \in Loops : loop[l].at = "saving" \/ (http[l].at = "tokens" /\ http[l].token = hash)
FileOrUnderWay == Kept => hash = disk.token \/ UnderWay
MemoryOrUnderWay ==
    stranded = {} /\ Linked =>
        hash = config.token \/ UnderWay \/ \E l \in Loops : loop[l].at = "reposting"

PairInv == PairsIssued /\ Paired /\ CarriersOK /\ FileOrUnderWay /\ MemoryOrUnderWay

LEMMA PairInvIsHeld == PairInv => PairIsHeld
BY DEF PairInv, FileOrUnderWay, MemoryOrUnderWay, UnderWay, Kept, PairIsHeld, FileHoldsThePair,
       MemoryHoldsThePair, Rotating

LEMMA PairInit == Init => PairInv
<1> SUFFICES ASSUME Init PROVE PairInv
    OBVIOUS
<1>1. /\ \A l \in Loops : loop[l].at = "idle" /\ http[l].at = "none"
      /\ config.token = 0 /\ disk.token = 0 /\ hash = 0 /\ issued = 0
    BY DEF Init, Idle, Quiet
<1>2. PairsIssued /\ Paired
    BY <1>1 DEF PairsIssued, Paired, Matching
<1>3. CarriersOK
    BY <1>1 DEF CarriersOK, Carries, Answered, Unpublished
<1>4. FileOrUnderWay /\ MemoryOrUnderWay
    BY <1>1 DEF FileOrUnderWay, MemoryOrUnderWay
<1> QED BY <1>2, <1>3, <1>4 DEF PairInv

\* What a loop holds, and what its exchange brings, in a step that hands on only tokens
\* that were known where they come from.
HandsOn(l) ==
    /\ loop'[l].at # "idle" =>
           \/ loop'[l].object.token = config.token
           \/ loop[l].at # "idle" /\ loop'[l].object.token = loop[l].object.token
    /\ http'[l].at # "none" =>
           \/ http'[l].token = config.token
           \/ loop[l].at # "idle" /\ http'[l].token = loop[l].object.token
           \/ http[l].at # "none" /\ http'[l].token = http[l].token
    /\ loop[l].at \in {"saving", "reposting"} \/ loop'[l].at \in {"saving", "reposting"} =>
           loop'[l].at = loop[l].at /\ loop'[l].fresh = loop[l].fresh
    /\ http[l].at = "tokens" \/ http'[l].at = "tokens" =>
           /\ http'[l].at = http[l].at /\ http'[l].token = http[l].token
           /\ loop'[l].at = "refreshing" => loop[l].at = "refreshing"

Gentle ==
    /\ UNCHANGED <<hash, issued, disk, stranded>> /\ config'.token = config.token
    /\ \A l \in Loops : HandsOn(l)
    /\ Paired'

LEMMA GentleKeeps == ASSUME PairInv, Gentle PROVE PairInv'
<1>1. PairsIssued'
    <2>1. ASSUME NEW l \in Loops
          PROVE  /\ loop'[l].at # "idle" => loop'[l].object.token <= issued
                 /\ loop'[l].at \in {"saving", "reposting"} => loop'[l].fresh.token <= issued
                 /\ http'[l].at # "none" => http'[l].token <= issued
        BY DEF Gentle, HandsOn, PairInv, PairsIssued
    <2> QED BY <2>1 DEF Gentle, PairInv, PairsIssued, Linked
<1>2. ASSUME NEW l \in Loops, Kept', Carries(l)' PROVE CarriesThePair(l)' /\ OnlyKnownTo(l)'
    <2>1. Kept /\ Carries(l)
        BY <1>2 DEF Gentle, HandsOn, Kept, Linked, Carries, Answered, Unpublished
    <2>2. CarriesThePair(l) /\ OnlyKnownTo(l)
        BY <2>1 DEF PairInv, CarriersOK
    <2>3. CarriesThePair(l)'
        BY <2>2 DEF Gentle, HandsOn, CarriesThePair, Answered, Unpublished
    <2>4. ASSUME NEW m \in Loops \ {l}
          PROVE  /\ loop'[m].at # "idle" => loop'[m].object.token # hash
                 /\ http'[m].at # "none" => http'[m].token # hash
                 /\ ~(loop'[m].at \in {"saving", "reposting"})
        BY <2>2 DEF Gentle, HandsOn, OnlyKnownTo, Unpublished
    <2> QED BY <2>2, <2>3, <2>4 DEF OnlyKnownTo, Unpublished, Gentle
<1>3. UnderWay => UnderWay'
    BY DEF Gentle, HandsOn, UnderWay
<1>4. FileOrUnderWay'
    BY <1>3 DEF PairInv, FileOrUnderWay, Gentle, Kept, Linked
<1>5. MemoryOrUnderWay'
    <2>1. ASSUME NEW l \in Loops, loop[l].at = "reposting" PROVE loop'[l].at = "reposting"
        BY <2>1 DEF Gentle, HandsOn
    <2> QED BY <1>3, <2>1 DEF PairInv, MemoryOrUnderWay, Gentle, Linked
<1> QED BY <1>1, <1>2, <1>4, <1>5 DEF PairInv, CarriersOK, Gentle

\* Once the pair may be lost, or the agent is unlinked, little is left to show.
LEMMA LostKeeps ==
    ASSUME PairsIssued', Paired', ~Kept' PROVE PairInv'
BY DEF PairInv, CarriersOK, FileOrUnderWay, MemoryOrUnderWay, Kept

\* Steps of one loop and its exchange.
Others(l) == \A m \in Loops \ {l} : loop'[m] = loop[m] /\ http'[m] = http[m]

LEMMA OneLoopGentle ==
    ASSUME PairInv, NEW l \in Loops, Others(l), HandsOn(l), Matching(loop'[l].at, http'[l].at),
           UNCHANGED <<hash, issued, disk, stranded>>, config'.token = config.token
    PROVE  PairInv'
<1>1. Paired'
    BY DEF PairInv, Paired, Others
<1>2. \A m \in Loops \ {l} : HandsOn(m)
    BY DEF Others, HandsOn
<1> QED BY <1>1, <1>2, GentleKeeps DEF Gentle

LEMMA GoSend ==
    ASSUME AccessInv, NEW l \in Loops
    PROVE  /\ \A s : go(l, s) => loop'[l] = s /\ \A m \in Loops \ {l} : loop'[m] = loop[m]
           /\ \A h : send(l, h) => http'[l] = h /\ \A m \in Loops \ {l} : http'[m] = http[m]
           /\ \A h : http' = [http EXCEPT ![l] = h] =>
                  http'[l] = h /\ \A m \in Loops \ {l} : http'[m] = http[m]
BY DEF AccessInv, LoopsOK, HttpOK, go, send

\* The requests and answers that are handed on within a loop.
LEMMA PairByLoop ==
    ASSUME AccessInv, PairInv, NEW l \in Loops,
           Starts(l) \/ PostEnds(l) \/ Unauthorized(l) \/ RefreshRefused(l)
    PROVE  PairInv'
<1>1. UNCHANGED <<hash, issued, disk, stranded, config>>
    BY DEF Starts, PostEnds, Unauthorized, RefreshRefused, rowVars, tokenVars
<1>2. loop[l] \in GoodLoops /\ http[l] \in GoodHttp
    BY DEF AccessInv, LoopsOK, HttpOK
<1>3. CASE Starts(l)
    <2>1. PICK s : s = [Idle EXCEPT !.at = "posting", !.object = config]
        OBVIOUS
    <2>2. s.at = "posting" /\ s.object = config
        BY <2>1 DEF Idle
    <2>3. Post(config.token).at = "post" /\ Post(config.token).token = config.token
        BY DEF Post, Quiet
    <2>4. loop'[l] = s /\ http'[l] = Post(config.token) /\ Others(l)
        BY <1>3, <2>1, GoSend DEF Starts, Others
    <2>5. HandsOn(l) /\ Matching(loop'[l].at, http'[l].at)
        BY <1>3, <2>2, <2>3, <2>4 DEF Starts, HandsOn, Matching
    <2> QED BY <1>1, <2>4, <2>5, OneLoopGentle
<1>4. CASE PostEnds(l) \/ RefreshRefused(l)
    <2>1. loop'[l] = Idle /\ http'[l] = Quiet /\ Others(l)
        BY <1>4, GoSend DEF PostEnds, RefreshRefused, Others
    <2>2. Idle.at = "idle" /\ Quiet.at = "none"
        BY DEF Idle, Quiet
    <2>3. loop[l].at \in {"posting", "refreshing"} /\ http[l].at \in {"ok", "refused"}
        BY <1>4 DEF PostEnds, RefreshRefused, answered
    <2>4. HandsOn(l) /\ Matching(loop'[l].at, http'[l].at)
        BY <2>1, <2>2, <2>3 DEF HandsOn, Matching
    <2> QED BY <1>1, <2>1, <2>4, OneLoopGentle
<1>5. CASE Unauthorized(l)
    <2>1. PICK s : s = [loop[l] EXCEPT !.at = "refreshing"]
        OBVIOUS
    <2>2. s.at = "refreshing" /\ s.object = loop[l].object
        BY <1>2, <2>1 DEF GoodLoops, LoopState
    <2>3. PICK h : h = Refresh(loop[l].object.token)
        OBVIOUS
    <2>4. h.at = "refresh" /\ h.token = loop[l].object.token
        BY <2>3 DEF Refresh, Quiet
    <2>5. loop'[l] = s /\ http'[l] = h /\ Others(l)
        BY <1>5, <2>1, <2>3, GoSend DEF Unauthorized, Others
    <2>6. loop[l].at = "posting" /\ http[l].at = "unauthorized"
        BY <1>5 DEF Unauthorized, answered
    <2>7. HandsOn(l) /\ Matching(loop'[l].at, http'[l].at)
        BY <2>2, <2>4, <2>5, <2>6 DEF HandsOn, Matching
    <2> QED BY <1>1, <2>5, <2>7, OneLoopGentle
<1> QED BY <1>3, <1>4, <1>5

\* The cloud looks at a request; its token stays.
LEMMA PairByCheck ==
    ASSUME AccessInv, PairInv, NEW l \in Loops, NEW h \in HttpState,
           http' = [http EXCEPT ![l] = h], h.token = http[l].token,
           \/ http[l].at = "post" /\ h.at \in {"unauthorized", "refused", "authorised"}
           \/ http[l].at = "authorised" /\ h.at = "ok"
           \/ http[l].at = "refresh" /\ h.at \in {"matched", "refused"},
           UNCHANGED <<agentVars, hash, issued, stranded>>
    PROVE  PairInv'
<1>1. UNCHANGED <<config, disk, loop>>
    BY DEF agentVars
<1>2. http'[l] = h /\ Others(l)
    BY <1>1, GoSend DEF Others
<1>3. Matching(loop[l].at, http[l].at)
    BY DEF PairInv, Paired
<1>4. HandsOn(l) /\ Matching(loop'[l].at, http'[l].at)
    BY <1>1, <1>2, <1>3 DEF HandsOn, Matching
<1> QED BY <1>1, <1>2, <1>4, OneLoopGentle

LEMMA PairByCloud ==
    ASSUME AccessInv, PairInv,
           touchOnSync \/ heartbeat \/ \E l \in Loops : agentAuth(l) \/ RefreshCompares(l)
    PROVE  PairInv'
<1>1. \A l \in Loops : http[l] \in HttpState
    BY DEF AccessInv, HttpOK, GoodHttp
<1>2. CASE touchOnSync
    <2>1. PICK h : h = [http["sync"] EXCEPT !.at = "ok"]
        OBVIOUS
    <2>2. h \in HttpState /\ h.at = "ok" /\ h.token = http["sync"].token
        BY <1>1, <2>1 DEF HttpState, Answers, Loops
    <2>3. http' = [http EXCEPT !["sync"] = h] /\ http["sync"].at = "authorised" /\ "sync" \in Loops
        BY <1>2, <2>1 DEF touchOnSync, answered, Loops
    <2>4. UNCHANGED <<agentVars, hash, issued, stranded>>
        BY <1>2 DEF touchOnSync, tokenVars
    <2> QED BY <2>2, <2>3, <2>4, PairByCheck
<1>3. CASE heartbeat
    <2>1. PICK h : h = [http["heartbeat"] EXCEPT !.at = "ok", !.ranges = remote]
        OBVIOUS
    <2>2. h \in HttpState /\ h.at = "ok" /\ h.token = http["heartbeat"].token
        BY <1>1, <2>1 DEF HttpState, Answers, Loops, AccessInv, RowOK
    <2>3. /\ http' = [http EXCEPT !["heartbeat"] = h] /\ http["heartbeat"].at = "authorised"
          /\ "heartbeat" \in Loops
        BY <1>3, <2>1 DEF heartbeat, answered, Loops
    <2>4. UNCHANGED <<agentVars, hash, issued, stranded>>
        BY <1>3 DEF heartbeat, tokenVars
    <2> QED BY <2>2, <2>3, <2>4, PairByCheck
<1>4. ASSUME NEW l \in Loops, agentAuth(l) \/ RefreshCompares(l) PROVE PairInv'
    <2>1. PICK at \in {"unauthorized", "refused", "authorised", "matched"} :
              /\ http' = [http EXCEPT ![l].at = at]
              /\ \/ http[l].at = "post" /\ at \in {"unauthorized", "refused", "authorised"}
                 \/ http[l].at = "refresh" /\ at \in {"matched", "refused"}
        BY <1>4 DEF agentAuth, RefreshCompares, answered
    <2>2. PICK h : h = [http[l] EXCEPT !.at = at]
        OBVIOUS
    <2>3. h \in HttpState /\ h.at = at /\ h.token = http[l].token
        BY <1>1, <2>2 DEF HttpState, Answers
    <2>4. http' = [http EXCEPT ![l] = h]
        BY <2>1, <2>2
    <2>5. UNCHANGED <<agentVars, hash, issued, stranded>>
        BY <1>4 DEF agentAuth, RefreshCompares, rowVars, tokenVars
    <2> QED BY <2>1, <2>3, <2>4, <2>5, PairByCheck
<1> QED BY <1>2, <1>3, <1>4

\* Steps in which no token moves at all.
LEMMA PairStill ==
    ASSUME AccessInv, PairInv, UNCHANGED <<agentVars, http, hash, issued, stranded>> PROVE PairInv'
<1>1. UNCHANGED <<config, disk, loop, http>>
    BY DEF agentVars
<1>2. Gentle
    BY <1>1 DEF Gentle, HandsOn, PairInv, Paired
<1> QED BY <1>2, GentleKeeps

\* handleRemoteConfig changes ranges, never tokens; the sync loop may hold the object.
LEMMA PairByRemoteConfig == ASSUME AccessInv, PairInv, handleRemoteConfig PROVE PairInv'
<1> DEFINE rs == http["heartbeat"].ranges
           now == [config EXCEPT !.ranges = rs]
           mine == IF rs = config.ranges THEN Idle ELSE [Idle EXCEPT !.at = "storing", !.object = now]
<1>1. /\ loop' = [sync |-> inPlace("sync", rs), heartbeat |-> mine]
      /\ config' = now /\ http' = [http EXCEPT !["heartbeat"] = Quiet]
      /\ UNCHANGED <<hash, issued, disk, stranded>>
      /\ loop["heartbeat"].at = "posting" /\ http["heartbeat"].at = "ok"
    BY DEF handleRemoteConfig, rowVars, tokenVars, send, answered
<1>2. loop["sync"] \in LoopState /\ "heartbeat" \in Loops /\ "sync" \in Loops
    BY DEF AccessInv, LoopsOK, GoodLoops, Loops
<1>3. now.token = config.token
    BY DEF AccessInv, FilesOK, Config
<1>4. loop'["sync"] = inPlace("sync", rs) /\ loop'["heartbeat"] = mine
    BY <1>1
<1>5. http'["heartbeat"] = Quiet /\ http'["sync"] = http["sync"] /\ Quiet.at = "none"
    BY <1>1 DEF AccessInv, HttpOK, Loops, Quiet
<1>6. /\ inPlace("sync", rs).at = loop["sync"].at /\ inPlace("sync", rs).fresh = loop["sync"].fresh
      /\ loop["sync"].at # "idle" => inPlace("sync", rs).object.token = loop["sync"].object.token
    <2>1. CASE loop["sync"].at # "idle" /\ loop["sync"].object.token = config.token
        <3>1. loop["sync"].object \in Config \cup {NoConfig}
            BY <1>2 DEF LoopState
        <3>2. PICK o : o = [loop["sync"].object EXCEPT !.ranges = rs]
            OBVIOUS
        <3>3. o.token = loop["sync"].object.token
            BY <3>1, <3>2 DEF Config, NoConfig
        <3>4. inPlace("sync", rs) = [loop["sync"] EXCEPT !.object = o]
            BY <2>1, <3>2 DEF inPlace
        <3> QED BY <1>2, <3>3, <3>4 DEF LoopState
    <2>2. CASE ~(loop["sync"].at # "idle" /\ loop["sync"].object.token = config.token)
        BY <2>2 DEF inPlace
    <2> QED BY <2>1, <2>2
<1>7. /\ mine.at \in {"idle", "storing"}
      /\ mine.at # "idle" => mine.object = now
    BY DEF Idle
<1> HIDE DEF rs, now, mine
<1>8. HandsOn("sync") /\ HandsOn("heartbeat")
    BY <1>1, <1>3, <1>4, <1>5, <1>6, <1>7 DEF HandsOn
<1>9. Paired'
    <2>1. Matching(loop["sync"].at, http["sync"].at)
        BY <1>2 DEF PairInv, Paired
    <2>2. Matching(mine.at, "none")
        BY <1>7 DEF Matching
    <2> QED BY <1>4, <1>5, <1>6, <2>1, <2>2 DEF Paired, Loops
<1>10. Gentle
    BY <1>1, <1>3, <1>8, <1>9 DEF Gentle, Loops
<1> QED BY <1>10, GentleKeeps

\* What a step of loop l leaves of the two conjuncts that hold whatever was lost.
LEMMA PairsStayIssued ==
    ASSUME PairInv, NEW l \in Loops, Others(l), issued \in Nat, issued' \in Nat, issued <= issued',
           hash' # NoToken => hash' = issued',
           config'.token <= issued', disk'.token <= issued',
           \A k \in Loops : loop[k] \in LoopState /\ http[k] \in HttpState,
           loop'[l].at # "idle" => loop'[l].object.token <= issued',
           loop'[l].at \in {"saving", "reposting"} => loop'[l].fresh.token <= issued',
           http'[l].at # "none" => http'[l].token <= issued',
           Matching(loop'[l].at, http'[l].at)
    PROVE  PairsIssued' /\ Paired'
<1>1. Paired'
    BY DEF PairInv, Paired, Others
<1>2. ASSUME NEW m \in Loops \ {l}
      PROVE  /\ loop'[m].at # "idle" => loop'[m].object.token <= issued'
             /\ loop'[m].at \in {"saving", "reposting"} => loop'[m].fresh.token <= issued'
             /\ http'[m].at # "none" => http'[m].token <= issued'
    <2>1. loop'[m] = loop[m] /\ http'[m] = http[m]
        BY DEF Others
    <2>2. loop[m].object.token \in Nat /\ loop[m].fresh.token \in Nat /\ http[m].token \in Nat
        BY AccessAssumption DEF LoopState, HttpState, Config, NoConfig, Tokens, NoToken
    <2>3. /\ loop[m].at # "idle" => loop[m].object.token <= issued
          /\ loop[m].at \in {"saving", "reposting"} => loop[m].fresh.token <= issued
          /\ http[m].at # "none" => http[m].token <= issued
        BY DEF PairInv, PairsIssued
    <2> QED BY <2>1, <2>2, <2>3
<1>3. PairsIssued'
    BY <1>2 DEF PairsIssued, Linked
<1> QED BY <1>1, <1>3

LEMMA Numbered ==
    ASSUME AccessInv
    PROVE  /\ issued \in Nat /\ hash \in Nat /\ config.token \in Nat /\ disk.token \in Nat
           /\ \A k \in Loops :
                 /\ loop[k] \in LoopState /\ http[k] \in HttpState
                 /\ loop[k].object.token \in Nat /\ loop[k].fresh.token \in Nat /\ http[k].token \in Nat
<1>1. \A k \in Loops : loop[k] \in LoopState /\ http[k] \in HttpState
    BY DEF AccessInv, LoopsOK, HttpOK, GoodLoops, GoodHttp
<1>2. Tokens \subseteq Nat /\ NoToken \in Nat
    BY AccessAssumption DEF Tokens, NoToken
<1>3. issued \in Nat /\ hash \in Nat /\ config.token \in Nat /\ disk.token \in Nat
    BY <1>2 DEF AccessInv, CountsOK, RowOK, FilesOK, Config
<1>4. ASSUME NEW k \in Loops
      PROVE  loop[k].object.token \in Nat /\ loop[k].fresh.token \in Nat /\ http[k].token \in Nat
    BY <1>1, <1>2, TokenOfConfig DEF LoopState, HttpState
<1> QED BY <1>1, <1>3, <1>4

\* The new pair is in the hands of the loop that asked for it.
LEMMA PairByRefreshed == ASSUME AccessInv, PairInv, NEW l \in Loops, Refreshed(l) PROVE PairInv'
<1>1. /\ UNCHANGED <<config, disk, hash, issued, stranded>>
      /\ loop[l].at = "refreshing" /\ http[l].at = "tokens"
    BY DEF Refreshed, answered, rowVars, tokenVars
<1>2. PICK f : f = [loop[l].object EXCEPT !.token = http[l].token]
    OBVIOUS
<1>3. f.token = http[l].token
    BY <1>2, Numbered DEF LoopState, Config, NoConfig
<1>4. PICK s : s = [loop[l] EXCEPT !.at = "saving", !.fresh = f]
    OBVIOUS
<1>5. s.at = "saving" /\ s.fresh = f /\ s.object = loop[l].object
    BY <1>4, Numbered DEF LoopState
<1>6. loop'[l] = s /\ http'[l] = Quiet /\ Others(l) /\ Quiet.at = "none"
    BY <1>2, <1>4, GoSend DEF Refreshed, Others, Quiet
<1>7. PairsIssued' /\ Paired'
    <2>1. http[l].token <= issued /\ loop[l].object.token <= issued
          /\ config.token <= issued /\ disk.token <= issued /\ (hash # NoToken => hash = issued)
        BY <1>1 DEF PairInv, PairsIssued, Linked
    <2>2. Matching(loop'[l].at, http'[l].at)
        BY <1>5, <1>6 DEF Matching
    <2> QED BY <1>1, <1>3, <1>5, <1>6, <2>1, <2>2, Numbered, PairsStayIssued
<1>8. CarriersOK'
    <2> SUFFICES ASSUME Kept, NEW k \in Loops, Carries(k)' PROVE CarriesThePair(k)' /\ OnlyKnownTo(k)'
        BY <1>1 DEF CarriersOK, Kept, Linked
    <2>1. Carries(l) /\ CarriesThePair(l) /\ OnlyKnownTo(l)
        BY <1>1 DEF Carries, Answered, PairInv, CarriersOK
    <2>2. CASE k = l
        BY <1>1, <1>3, <1>5, <1>6, <2>1, <2>2
        DEF CarriesThePair, OnlyKnownTo, Answered, Unpublished, Others
    <2>3. CASE k # l
        <3>1. Carries(k)
            BY <1>6, <2>3 DEF Carries, Answered, Unpublished, Others
        <3>2. OnlyKnownTo(k)
            BY <3>1 DEF PairInv, CarriersOK
        <3> QED BY <1>1, <2>1, <2>3, <3>2 DEF OnlyKnownTo, CarriesThePair, Answered
    <2> QED BY <2>2, <2>3
<1>9. UnderWay'
    BY <1>5, <1>6 DEF UnderWay
<1> QED BY <1>7, <1>8, <1>9 DEF PairInv, FileOrUnderWay, MemoryOrUnderWay

\* The pair reaches the file and, the heartbeat's, the memory; the sync loop's once its
\* request was repeated.
LEMMA PairBySaved == ASSUME AccessInv, PairInv, NEW l \in Loops, RefreshSaved(l) PROVE PairInv'
<1>1. /\ UNCHANGED <<hash, issued, stranded>> /\ loop[l].at = "saving" /\ disk' = loop[l].fresh
    BY DEF RefreshSaved, rowVars, tokenVars
<1>2. PICK s : s = [loop[l] EXCEPT !.at = "reposting"]
    OBVIOUS
<1>3. s.at = "reposting" /\ s.fresh = loop[l].fresh /\ s.object = loop[l].object
    BY <1>2, Numbered DEF LoopState
<1>4. PICK h : h = Post(loop[l].fresh.token)
    OBVIOUS
<1>5. h.at = "post" /\ h.token = loop[l].fresh.token
    BY <1>4 DEF Post, Quiet
<1>6. Idle.at = "idle" /\ http[l].at = "none"
    BY <1>1 DEF Idle, PairInv, Paired, Matching
<1>7. /\ Others(l)
      /\ \/ config' = loop[l].fresh /\ loop'[l] = Idle /\ http'[l] = http[l]
         \/ config' = config /\ loop'[l] = s /\ http'[l] = h
    <2>1. CASE l = "heartbeat"
        <3>1. config' = loop[l].fresh /\ go(l, Idle) /\ http' = http
            BY <2>1 DEF RefreshSaved
        <3> QED BY <3>1, GoSend DEF Others
    <2>2. CASE l # "heartbeat"
        <3>1. config' = config /\ go(l, s) /\ send(l, h)
            BY <1>2, <1>4, <2>2 DEF RefreshSaved
        <3> QED BY <3>1, GoSend DEF Others
    <2> QED BY <2>1, <2>2
<1>8. /\ loop[l].fresh.token <= issued /\ loop[l].object.token <= issued
      /\ config.token <= issued /\ (hash # NoToken => hash = issued)
    BY <1>1 DEF PairInv, PairsIssued, Linked
<1>9. PairsIssued' /\ Paired'
    <2>1. Matching(loop'[l].at, http'[l].at)
        BY <1>3, <1>5, <1>6, <1>7 DEF Matching
    <2>2. config'.token <= issued' /\ disk'.token <= issued' /\ (hash' # NoToken => hash' = issued')
        BY <1>1, <1>7, <1>8
    <2>3. /\ loop'[l].at # "idle" => loop'[l].object.token <= issued'
          /\ loop'[l].at \in {"saving", "reposting"} => loop'[l].fresh.token <= issued'
          /\ http'[l].at # "none" => http'[l].token <= issued'
        BY <1>1, <1>3, <1>5, <1>6, <1>7, <1>8
    <2>4. issued' \in Nat /\ issued <= issued' /\ issued \in Nat
        BY <1>1, Numbered
    <2> QED BY <1>7, <2>1, <2>2, <2>3, <2>4, Numbered, PairsStayIssued
<1>10. Kept => loop[l].fresh.token = hash /\ OnlyKnownTo(l)
    BY <1>1 DEF PairInv, CarriersOK, Carries, Unpublished, CarriesThePair
<1>11. CarriersOK'
    <2> SUFFICES ASSUME Kept, NEW k \in Loops, Carries(k)' PROVE CarriesThePair(k)' /\ OnlyKnownTo(k)'
        BY <1>1 DEF CarriersOK, Kept, Linked
    <2>1. CASE k # l
        <3>1. Carries(k)
            BY <1>7, <2>1 DEF Carries, Answered, Unpublished, Others
        <3>2. OnlyKnownTo(k)
            BY <3>1 DEF PairInv, CarriersOK
        <3> QED BY <1>1, <2>1, <3>2 DEF OnlyKnownTo, Unpublished
    <2>2. CASE k = l
        <3>1. config' = config /\ loop'[l] = s /\ http'[l] = h
            BY <1>6, <1>7, <2>2 DEF Carries, Answered, Unpublished
        <3> QED BY <1>1, <1>3, <1>5, <1>7, <1>10, <2>2, <3>1
            DEF CarriesThePair, OnlyKnownTo, Answered, Unpublished, Others
    <2> QED BY <2>1, <2>2
<1>12. FileOrUnderWay'
    BY <1>1, <1>10 DEF FileOrUnderWay, Kept, Linked
<1>13. MemoryOrUnderWay'
    BY <1>1, <1>3, <1>7, <1>10 DEF MemoryOrUnderWay, Kept, Linked
<1> QED BY <1>9, <1>11, <1>12, <1>13 DEF PairInv

\* setConfig of the pair, and an exchange of the sync loop given up before it.
LEMMA PairByRepost ==
    ASSUME AccessInv, PairInv, NEW l \in Loops, loop[l].at = "reposting",
           Others(l), loop'[l] = Idle, http'[l] = Quiet \/ http'[l] = http[l],
           UNCHANGED <<hash, issued, disk>>, stranded \subseteq stranded',
           \/ config' = loop[l].fresh /\ stranded' = stranded
           \/ config' = config /\ stranded' # {}
    PROVE  PairInv'
<1>1. Idle.at = "idle" /\ Quiet.at = "none"
    BY DEF Idle, Quiet
<1>2. /\ loop[l].fresh.token <= issued /\ config.token <= issued /\ disk.token <= issued
      /\ (hash # NoToken => hash = issued) /\ (http[l].at # "none" => http[l].token <= issued)
    BY DEF PairInv, PairsIssued, Linked
<1>3. PairsIssued' /\ Paired'
    <2>1. Matching(loop'[l].at, http'[l].at)
        BY <1>1 DEF Matching
    <2>2. config'.token <= issued' /\ disk'.token <= issued' /\ (hash' # NoToken => hash' = issued')
        BY <1>2
    <2>3. /\ loop'[l].at # "idle" => loop'[l].object.token <= issued'
          /\ loop'[l].at \in {"saving", "reposting"} => loop'[l].fresh.token <= issued'
          /\ http'[l].at # "none" => http'[l].token <= issued'
        BY <1>1, <1>2
    <2>4. issued' \in Nat /\ issued <= issued' /\ issued \in Nat
        BY Numbered
    <2> QED BY <2>1, <2>2, <2>3, <2>4, Numbered, PairsStayIssued
<1>4. Kept' => Kept
    BY DEF Kept, Linked
<1>5. Kept => loop[l].fresh.token = hash /\ disk.token = hash
    BY DEF PairInv, CarriersOK, Carries, Unpublished, CarriesThePair
<1>6. CarriersOK'
    <2> SUFFICES ASSUME Kept', NEW k \in Loops, Carries(k)' PROVE FALSE
        BY DEF CarriersOK
    <2>1. k # l
        BY <1>1 DEF Carries, Answered, Unpublished
    <2>2. Carries(k)
        BY <2>1 DEF Carries, Answered, Unpublished, Others
    <2>3. OnlyKnownTo(k)
        BY <1>4, <2>2 DEF PairInv, CarriersOK
    <2> QED BY <2>1, <2>3 DEF OnlyKnownTo, Unpublished
<1>7. FileOrUnderWay'
    BY <1>4, <1>5 DEF FileOrUnderWay
<1>8. MemoryOrUnderWay'
    BY <1>5 DEF MemoryOrUnderWay, Kept, Linked
<1> QED BY <1>3, <1>6, <1>7, <1>8 DEF PairInv

\* The configuration a heartbeat stores over a renewal is older, and recorded.
LEMMA PairByStored == ASSUME AccessInv, PairInv, ConfigStored PROVE PairInv'
<1> DEFINE l == "heartbeat"
<1>1. /\ UNCHANGED <<config, http, hash, issued>> /\ loop[l].at = "storing"
      /\ disk' = loop[l].object /\ l \in Loops
      /\ stranded' = IF disk.token > disk'.token THEN stranded \cup {"stale file"} ELSE stranded
    BY DEF ConfigStored, rowVars, tokenVars, Loops
<1>2. loop'[l] = Idle /\ Others(l) /\ Idle.at = "idle"
    BY <1>1, GoSend DEF ConfigStored, Others, Idle
<1> HIDE DEF l
<1>3. /\ loop[l].object.token <= issued /\ config.token <= issued /\ disk.token <= issued
      /\ (hash # NoToken => hash = issued) /\ (http[l].at # "none" => http[l].token <= issued)
    BY <1>1 DEF PairInv, PairsIssued, Linked
<1>4. PairsIssued' /\ Paired'
    <2>1. Matching(loop'[l].at, http'[l].at)
        BY <1>2 DEF Matching
    <2>2. config'.token <= issued' /\ disk'.token <= issued' /\ (hash' # NoToken => hash' = issued')
        BY <1>1, <1>3
    <2>3. /\ loop'[l].at # "idle" => loop'[l].object.token <= issued'
          /\ loop'[l].at \in {"saving", "reposting"} => loop'[l].fresh.token <= issued'
          /\ http'[l].at # "none" => http'[l].token <= issued'
        BY <1>1, <1>2, <1>3
    <2>4. issued' \in Nat /\ issued <= issued' /\ issued \in Nat
        <3>1. issued \in Nat
            BY Numbered
        <3>2. issued' = issued
            BY <1>1
        <3> QED BY ONLY <3>1, <3>2
    <2> QED BY <1>1, <1>2, <2>1, <2>2, <2>3, <2>4, Numbered, PairsStayIssued
<1>5. CASE disk.token > disk'.token
    <2>1. ~Kept'
        BY <1>1, <1>5 DEF Kept
    <2> QED BY <1>4, <2>1, LostKeeps
<1>6. CASE ~(disk.token > disk'.token)
    <2>1. stranded' = stranded /\ (Kept' <=> Kept)
        BY <1>1, <1>6 DEF Kept, Linked
    <2>2. Kept /\ disk.token = hash => disk'.token = hash
        <3> SUFFICES ASSUME Kept, disk.token = hash PROVE disk'.token = hash
            OBVIOUS
        <3>1. hash = issued
            BY <1>3 DEF Kept, Linked
        <3>2. disk'.token <= issued /\ ~(disk.token > disk'.token) /\ disk.token \in Nat /\ disk'.token \in Nat
            BY <1>1, <1>3, <1>6, Numbered
        <3> QED BY <3>1, <3>2
    <2>3. CarriersOK'
        <3> SUFFICES ASSUME Kept, NEW k \in Loops, Carries(k)' PROVE CarriesThePair(k)' /\ OnlyKnownTo(k)'
            BY <2>1 DEF CarriersOK
        <3>1. k # l
            BY <1>2 DEF Carries, Answered, Unpublished
        <3>2. Carries(k)
            BY <1>2, <3>1 DEF Carries, Answered, Unpublished, Others
        <3>3. CarriesThePair(k) /\ OnlyKnownTo(k)
            BY <3>2 DEF PairInv, CarriersOK
        <3>4. CarriesThePair(k)'
            BY <1>1, <1>2, <2>2, <3>1, <3>3 DEF CarriesThePair, Answered, Unpublished, Others
        <3>5. ASSUME NEW m \in Loops \ {k}
              PROVE  /\ loop'[m].at # "idle" => loop'[m].object.token # hash
                     /\ http'[m].at # "none" => http'[m].token # hash
                     /\ ~(loop'[m].at \in {"saving", "reposting"})
            BY <1>1, <1>2, <3>3 DEF OnlyKnownTo, Unpublished, Others
        <3>6. config'.token # hash
            BY <1>1, <3>3 DEF OnlyKnownTo
        <3> QED BY <1>1, <3>4, <3>5, <3>6 DEF OnlyKnownTo, Unpublished
    <2>4. UnderWay => UnderWay'
        BY <1>1, <1>2 DEF UnderWay, Others
    <2>5. FileOrUnderWay'
        BY <1>1, <2>1, <2>2, <2>4 DEF PairInv, FileOrUnderWay
    <2>6. MemoryOrUnderWay'
        <3>1. ASSUME NEW k \in Loops, loop[k].at = "reposting" PROVE loop'[k].at = "reposting"
            BY <1>1, <1>2, <3>1 DEF Others
        <3> QED BY <1>1, <2>1, <2>4, <3>1 DEF PairInv, MemoryOrUnderWay, Linked
    <2> QED BY <1>4, <2>3, <2>5, <2>6 DEF PairInv
<1> QED BY <1>5, <1>6

\* A loop gives up: its exchange failed, its file could not be written, or an answer came
\* that it no longer waits for.  What may have lost the pair is recorded.
LEMMA PairGivenUp ==
    ASSUME AccessInv, PairInv, NEW l \in Loops,
           Others(l), loop'[l].at = "idle", http'[l] = Quiet \/ http'[l] = http[l],
           UNCHANGED <<hash, issued, disk, config>>,
           \/ "answer lost" \in stranded'
           \/ /\ stranded' = stranded
              /\ loop[l].at \notin {"saving", "reposting"}
              /\ http[l].at = "tokens" => http'[l] = http[l]
    PROVE  PairInv'
<1>1. Quiet.at = "none"
    BY DEF Quiet
<1>2. /\ config.token <= issued /\ disk.token <= issued
      /\ (hash # NoToken => hash = issued) /\ (http[l].at # "none" => http[l].token <= issued)
    BY DEF PairInv, PairsIssued, Linked
<1>3. Matching(loop'[l].at, http'[l].at)
    BY DEF Matching
<1>4. CASE "answer lost" \in stranded'
    <2>1. PairsIssued' /\ Paired'
        <3>1. config'.token <= issued' /\ disk'.token <= issued' /\ (hash' # NoToken => hash' = issued')
            BY <1>2
        <3>2. /\ loop'[l].at # "idle" => loop'[l].object.token <= issued'
              /\ loop'[l].at \in {"saving", "reposting"} => loop'[l].fresh.token <= issued'
              /\ http'[l].at # "none" => http'[l].token <= issued'
            BY <1>1, <1>2
        <3>3. issued' \in Nat /\ issued <= issued' /\ issued \in Nat
            <4>1. issued \in Nat
                BY Numbered
            <4>2. issued' = issued
                OBVIOUS
            <4> QED BY ONLY <4>1, <4>2
        <3> QED BY <1>3, <3>1, <3>2, <3>3, Numbered, PairsStayIssued
    <2>2. ~Kept'
        BY <1>4 DEF Kept
    <2> QED BY <2>1, <2>2, LostKeeps
<1>5. CASE /\ stranded' = stranded
           /\ loop[l].at \notin {"saving", "reposting"}
           /\ http[l].at = "tokens" => http'[l] = http[l]
    <2>1. HandsOn(l)
        BY <1>1, <1>5 DEF HandsOn
    <2> QED BY <1>3, <1>5, <2>1, OneLoopGentle
<1> QED BY <1>4, <1>5

LEMMA PairByFaults ==
    ASSUME AccessInv, PairInv, NEW l \in Loops, SaveFails(l) \/ Fails(l) \/ Unheard(l)
    PROVE  PairInv'
<1>1. UNCHANGED <<hash, issued, disk, config>>
    BY DEF SaveFails, Fails, Unheard, rowVars, tokenVars, agentVars
<1>2. Matching(loop[l].at, http[l].at) /\ Idle.at = "idle"
    BY DEF PairInv, Paired, Idle
<1>3. CASE SaveFails(l)
    <2>1. Others(l) /\ loop'[l].at = "idle" /\ http'[l] = http[l]
        BY <1>2, <1>3, GoSend DEF SaveFails, Others
    <2>2. \/ "answer lost" \in stranded'
          \/ stranded' = stranded /\ loop[l].at = "storing"
        BY <1>3 DEF SaveFails
    <2> QED BY <1>1, <2>1, <2>2, PairGivenUp
<1>4. CASE Unheard(l)
    <2>1. Others(l) /\ loop'[l].at = "idle" /\ http'[l] = Quiet
        BY <1>4, GoSend DEF Unheard, Others, agentVars
    <2>2. \/ "answer lost" \in stranded'
          \/ stranded' = stranded /\ loop[l].at = "idle" /\ http[l].at # "tokens"
        BY <1>4 DEF Unheard, answered
    <2> QED BY <1>1, <2>1, <2>2, PairGivenUp
<1>5. CASE Fails(l)
    <2>1. go(l, Idle) /\ (http' = http \/ send(l, Quiet))
        BY <1>5 DEF Fails, send
    <2>2. Others(l) /\ loop'[l] = Idle /\ (http'[l] = Quiet \/ http'[l] = http[l])
        BY <2>1, GoSend DEF Others
    <2>3. CASE http[l].at = "tokens"
        <3>1. "answer lost" \in stranded'
            BY <1>5, <2>3 DEF Fails, answered
        <3> QED BY <1>1, <1>2, <2>2, <3>1, PairGivenUp
    <2>4. CASE loop[l].at = "reposting"
        <3>1. http[l].at # "tokens"
            BY <1>2, <2>4 DEF Matching
        <3>2. stranded \subseteq stranded' /\ stranded' # {}
            BY <1>5, <2>4 DEF Fails
        <3> QED BY <1>1, <2>2, <2>4, <3>2, PairByRepost
    <2>5. CASE http[l].at # "tokens" /\ loop[l].at # "reposting"
        <3>1. stranded' = stranded /\ loop[l].at \notin {"saving", "reposting"}
            BY <1>5, <2>5 DEF Fails, answered
        <3> QED BY <1>1, <1>2, <2>2, <2>5, <3>1, PairGivenUp
    <2> QED BY <2>3, <2>4, <2>5
<1> QED BY <1>3, <1>4, <1>5

\* The file is all that survives.
LEMMA PairByRestart == ASSUME AccessInv, PairInv, AgentRestart PROVE PairInv'
<1>1. /\ UNCHANGED <<disk, http, hash, issued>> /\ config' = disk /\ Idle.at = "idle"
      /\ \A l \in Loops : loop'[l] = Idle
    BY DEF AgentRestart, rowVars, tokenVars, Idle
<1>2. Paired'
    BY <1>1 DEF Paired, Matching
<1>3. PairsIssued'
    BY <1>1 DEF PairsIssued, PairInv, Linked
<1>4. CASE \E l \in Loops : loop[l].at = "saving"
    <2>1. ~Kept'
        BY <1>4 DEF AgentRestart, Kept
    <2> QED BY <1>2, <1>3, <2>1, LostKeeps
<1>5. CASE ~ \E l \in Loops : loop[l].at = "saving"
    <2>1. stranded' = stranded
        BY <1>5 DEF AgentRestart
    <2>2. CarriersOK'
        BY <1>1 DEF CarriersOK, Carries, Answered, Unpublished
    <2>3. UnderWay => UnderWay'
        BY <1>1, <1>5 DEF UnderWay
    <2>4. FileOrUnderWay'
        BY <1>1, <2>1, <2>3 DEF PairInv, FileOrUnderWay, Kept, Linked
    <2>5. MemoryOrUnderWay'
        BY <1>1, <2>1, <2>3 DEF PairInv, FileOrUnderWay, MemoryOrUnderWay, Kept, Linked
    <2> QED BY <1>2, <1>3, <2>2, <2>4, <2>5 DEF PairInv
<1> QED BY <1>4, <1>5

\* The cloud issues a pair.  If another loop carries one, the exchange was compared before
\* that one was issued, and the history records that it is overwritten.
LEMMA PairByRotation ==
    ASSUME AccessInv, PairInv, NEW l \in Loops, rotateRefreshToken(l) PROVE PairInv'
<1>1. /\ UNCHANGED <<config, disk, loop>> /\ http[l].at = "matched"
      /\ issued' = issued + 1 /\ hash' = issued'
      /\ stranded' = IF hash # http[l].token THEN stranded \cup {"overwritten"} ELSE stranded
    BY DEF rotateRefreshToken, agentVars, answered
<1>2. PICK h : h = [http[l] EXCEPT !.at = "tokens", !.token = issued']
    OBVIOUS
<1>3. h.at = "tokens" /\ h.token = issued'
    BY <1>2, Numbered DEF HttpState
<1>4. http'[l] = h /\ Others(l)
    <2>1. http' = [http EXCEPT ![l] = h]
        BY <1>2 DEF rotateRefreshToken
    <2> QED BY <1>1, <2>1, GoSend DEF Others
<1>5. Matching(loop[l].at, "matched")
    BY <1>1 DEF PairInv, Paired
<1>6. /\ config.token <= issued /\ disk.token <= issued /\ http[l].token <= issued
      /\ \A k \in Loops :
            /\ loop[k].at # "idle" => loop[k].object.token <= issued
            /\ loop[k].at \in {"saving", "reposting"} => loop[k].fresh.token <= issued
            /\ http[k].at # "none" => http[k].token <= issued
    BY <1>1 DEF PairInv, PairsIssued
<1>7. PairsIssued' /\ Paired'
    <2>1. Matching(loop'[l].at, http'[l].at)
        BY <1>1, <1>3, <1>4, <1>5 DEF Matching
    <2>2. issued' \in Nat /\ issued <= issued' /\ issued \in Nat
        BY <1>1, Numbered
    <2>3. config'.token <= issued' /\ disk'.token <= issued' /\ (hash' # NoToken => hash' = issued')
        BY <1>1, <1>6, <2>2, Numbered
    <2>4. /\ loop'[l].at # "idle" => loop'[l].object.token <= issued'
          /\ loop'[l].at \in {"saving", "reposting"} => loop'[l].fresh.token <= issued'
          /\ http'[l].at # "none" => http'[l].token <= issued'
        BY <1>1, <1>3, <1>4, <1>6, <2>2, Numbered
    <2> QED BY <1>4, <2>1, <2>2, <2>3, <2>4, Numbered, PairsStayIssued
<1>8. CASE ~Kept'
    BY <1>7, <1>8, LostKeeps
<1>9. CASE Kept'
    <2>1. hash = http[l].token /\ stranded' = stranded
        BY <1>1, <1>9 DEF Kept
    <2>2. Kept
        <3>1. hash <= MaxTokens
            <4>1. hash <= issued
                BY <1>6, <2>1
            <4>2. hash \in Nat
                BY Numbered
            <4>3. MaxTokens \in Nat /\ issued \in 0 .. MaxTokens
                BY AccessAssumption DEF AccessInv, CountsOK, Tokens
            <4> QED BY ONLY <4>1, <4>2, <4>3
        <3>2. hash # NoToken
            BY <3>1, AccessAssumption DEF NoToken
        <3> QED BY <1>9, <2>1, <3>2 DEF Kept, Linked
    <2>3. ASSUME NEW k \in Loops, k # l PROVE ~Carries(k)
        <3> SUFFICES ASSUME Carries(k) PROVE FALSE
            OBVIOUS
        <3>1. OnlyKnownTo(k)
            BY <2>2 DEF PairInv, CarriersOK
        <3> QED BY <1>1, <2>1, <2>3, <3>1 DEF OnlyKnownTo
    <2>4. CarriersOK'
        <3> SUFFICES ASSUME NEW k \in Loops, Carries(k)' PROVE CarriesThePair(k)' /\ OnlyKnownTo(k)'
            BY DEF CarriersOK
        <3>1. k = l
            BY <1>1, <1>4, <2>3 DEF Carries, Answered, Unpublished, Others
        <3>2. ~Unpublished(l)
            BY <1>5 DEF Unpublished, Matching
        <3>3. CarriesThePair(l)'
            BY <1>1, <1>3, <1>4, <3>2 DEF CarriesThePair, Answered, Unpublished
        <3>4. ASSUME NEW x \in Nat, x <= issued PROVE x # hash'
            BY <1>1, <3>4, Numbered
        <3>5. config'.token # hash'
            BY <1>1, <1>6, <3>4, Numbered
        <3>6. ASSUME NEW m \in Loops \ {l}
              PROVE  /\ loop'[m].at # "idle" => loop'[m].object.token # hash'
                     /\ http'[m].at # "none" => http'[m].token # hash'
                     /\ ~(loop'[m].at \in {"saving", "reposting"})
            <4>1. loop'[m] = loop[m] /\ http'[m] = http[m]
                BY <1>4 DEF Others
            <4>2. ~(loop[m].at \in {"saving", "reposting"})
                BY <2>3 DEF Carries, Unpublished
            <4> QED BY <1>6, <3>4, <4>1, <4>2, Numbered
        <3> QED BY <3>1, <3>3, <3>5, <3>6 DEF OnlyKnownTo, Unpublished
    <2>5. UnderWay'
        BY <1>1, <1>3, <1>4 DEF UnderWay
    <2> QED BY <1>7, <2>4, <2>5 DEF PairInv, FileOrUnderWay, MemoryOrUnderWay
<1> QED BY <1>8, <1>9

\* The portal unlinks the installation; the installer starts over with a new pair.
LEMMA PairByActivation ==
    ASSUME AccessInv, PairInv, RegenerateActivationKey \/ ActivateAgent \/ ActivationLost
    PROVE  PairInv'
<1>1. /\ config.token <= issued /\ disk.token <= issued
      /\ \A k \in Loops :
            /\ loop[k].at # "idle" => loop[k].object.token <= issued
            /\ loop[k].at \in {"saving", "reposting"} => loop[k].fresh.token <= issued
            /\ http[k].at # "none" => http[k].token <= issued
    BY DEF PairInv, PairsIssued
<1>2. CASE RegenerateActivationKey
    <2>1. UNCHANGED <<config, disk, loop, http, issued>> /\ hash' = NoToken
        BY <1>2 DEF RegenerateActivationKey, agentVars, tokenVars
    <2>2. PairsIssued' /\ Paired'
        BY <1>1, <2>1 DEF PairsIssued, PairInv, Paired, Linked
    <2>3. ~Kept'
        BY <2>1 DEF Kept, Linked
    <2> QED BY <2>2, <2>3, LostKeeps
<1>3. CASE ActivationLost
    <2>1. /\ UNCHANGED <<config, disk, loop, http>> /\ issued' = issued + 1 /\ hash' = issued'
          /\ "answer lost" \in stranded'
        BY <1>3 DEF ActivationLost, activate, agentVars
    <2>2. ASSUME NEW x \in Nat, x <= issued PROVE x <= issued'
        <3>1. issued' = issued + 1
            BY <2>1
        <3>2. issued \in Nat
            BY Numbered
        <3> QED BY ONLY <2>2, <3>1, <3>2
    <2>3. PairsIssued'
        BY <1>1, <2>1, <2>2, Numbered DEF PairsIssued
    <2>4. Paired' /\ ~Kept'
        BY <2>1 DEF PairInv, Paired, Kept
    <2> QED BY <2>3, <2>4, LostKeeps
<1>4. CASE ActivateAgent
    <2>1. /\ config' = [token |-> issued', ranges |-> NoRanges] /\ disk' = config'
          /\ http' = http /\ issued' = issued + 1 /\ hash' = issued' /\ Idle.at = "idle"
          /\ \A l \in Loops : loop'[l] = Idle
        BY <1>4 DEF ActivateAgent, activate, Idle
    <2>2. ASSUME NEW x \in Nat, x <= issued PROVE x <= issued'
        <3>1. issued' = issued + 1
            BY <2>1
        <3>2. issued \in Nat
            BY Numbered
        <3> QED BY ONLY <2>2, <3>1, <3>2
    <2>3. config'.token = issued' /\ disk'.token = issued' /\ issued' <= issued'
        BY <2>1, Numbered
    <2>4. PairsIssued'
        BY <1>1, <2>1, <2>2, <2>3, Numbered DEF PairsIssued
    <2>5. Paired'
        BY <2>1 DEF Paired, Matching
    <2>6. CarriersOK'
        BY <2>1 DEF CarriersOK, Carries, Answered, Unpublished
    <2>7. FileOrUnderWay' /\ MemoryOrUnderWay'
        BY <2>1, <2>3 DEF FileOrUnderWay, MemoryOrUnderWay
    <2> QED BY <2>4, <2>5, <2>6, <2>7 DEF PairInv
<1> QED BY <1>2, <1>3, <1>4

LEMMA PairStep == AccessInv /\ PairInv /\ [Next]_vars => PairInv'
<1> SUFFICES ASSUME AccessInv, PairInv, [Next]_vars PROVE PairInv'
    OBVIOUS
<1>1. CASE Agent
    <2>1. CASE RepostEnds
        <3>1. "sync" \in Loops
            BY DEF Loops
        <3>2. /\ loop["sync"].at = "reposting" /\ go("sync", Idle) /\ send("sync", Quiet)
              /\ UNCHANGED <<hash, issued, disk, stranded>> /\ config' = loop["sync"].fresh
            BY <2>1 DEF RepostEnds, rowVars, tokenVars
        <3>3. Others("sync") /\ loop'["sync"] = Idle /\ http'["sync"] = Quiet
            BY <3>1, <3>2, GoSend DEF Others
        <3> QED BY <3>1, <3>2, <3>3, PairByRepost
    <2> QED BY <1>1, <2>1, PairByLoop, PairByRefreshed, PairBySaved, PairByFaults,
               PairByRemoteConfig, PairByStored DEF Agent
<1>2. CASE Cloud
    BY <1>2, PairByCloud, PairByRotation DEF Cloud
<1>3. CASE Environment
    <2>1. CASE TokenExpires \/ MonitorTick \/ updateConfig \/ RevokeToken \/ BlacklistExpires
        <3>1. UNCHANGED <<agentVars, http, hash, issued, stranded>>
            BY <2>1 DEF TokenExpires, MonitorTick, updateConfig, RevokeToken, BlacklistExpires,
                        rowVars, tokenVars
        <3> QED BY <3>1, PairStill
    <2> QED BY <1>3, <2>1, PairByActivation, PairByRestart, PairByFaults DEF Environment
<1>4. CASE UNCHANGED vars
    BY <1>4, PairStill DEF vars, rowVars, tokenVars
<1> QED BY <1>1, <1>2, <1>3, <1>4 DEF Next

\* The agent's file, and its memory once the sync loop has repeated its request, hold the
\* one refresh token the cloud accepts whenever no rotation is under way, for any number
\* of rotations and however the two loops, restarts and faults interleave; unless an
\* answer was lost, two rotations crossed or a heartbeat stored an older configuration
\* over a renewal (uploader.ts tryRefresh, RefreshToken.execute).
THEOREM ThePairIsHeld == Spec => []PairIsHeld
<1> QED BY PairInvIsHeld, PairInit, PairStep, AccessInit, AccessStep, PTL DEF Spec

=============================================================================

----------------------------- MODULE AgentAccess ----------------------------
(***************************************************************************)
(* How an agent keeps its access to the cloud.  Every pair of tokens is    *)
(* numbered: the refresh token of a pair is good for one rotation, its     *)
(* access token until it expires.  Two loops of the agent, the sync and    *)
(* the heartbeat, discover on their own that the access token expired and  *)
(* renew it; the configuration object they share, which also holds the     *)
(* scan ranges, lives in memory and in an encrypted file.  Requests and    *)
(* answers may be lost, the loops interleave at every await, the agent may *)
(* be restarted, revoked or activated anew.                                *)
(***************************************************************************)
EXTENDS Naturals, FiniteSets

CONSTANTS
    IpRanges,       \* values of ip_ranges
    NoRanges,       \* the empty list an activation writes
    MaxTokens,      \* bound: pairs of tokens ever issued, after the first
    MaxFaults,      \* bound: exchanges and file writes that fail, restarts of the agent
    MaxEdits        \* bound: changes made from the portal

ASSUME AccessAssumption ==
    /\ NoRanges \in IpRanges
    /\ MaxTokens \in Nat /\ MaxFaults \in Nat /\ MaxEdits \in Nat

Loops == {"sync", "heartbeat"}
Tokens == 0 .. MaxTokens
NoToken == MaxTokens + 1        \* refresh_token_hash IS NULL
Config == [token : Tokens, ranges : IpRanges]
NoConfig == [token |-> NoToken, ranges |-> NoRanges]

VARIABLES
    config,     \* main.ts currentConfig
    disk,       \* config.enc
    loop,       \* loop[l].at: await the loop is at; .object: its `config`; .fresh: newConfig
    http,       \* http[l]: the exchange the loop started last
    status,     \* agents.status
    hash,       \* agents.refresh_token_hash: the pair it belongs to
    keyOut,     \* agents.activation_key IS NOT NULL
    blacklisted,\* blacklist:<agentId> in Redis
    remote,     \* agents.ip_ranges
    issued,     \* the last pair issued
    expired,    \* access tokens of pairs below this one have expired
    stranded,   \* history: ways in which the agent may have lost its pair
    cutOff,     \* history: revoked while no request of the agent was at work
    faults, edits

agentVars == <<config, disk, loop>>
rowVars == <<status, hash, keyOut, blacklisted, remote>>
tokenVars == <<issued, expired>>
boundVars == <<faults, edits>>
vars == <<agentVars, http, rowVars, tokenVars, stranded, cutOff, boundVars>>

Idle == [at |-> "idle", object |-> NoConfig, fresh |-> NoConfig]
Quiet == [at |-> "none", token |-> NoToken, ranges |-> NoRanges]
Post(t) == [Quiet EXCEPT !.at = "post", !.token = t]
Refresh(t) == [Quiet EXCEPT !.at = "refresh", !.token = t]
Answers == {"ok", "unauthorized", "refused", "tokens"}

Init ==
    /\ config = [token |-> 0, ranges |-> NoRanges]
    /\ disk = config
    /\ loop = [l \in Loops |-> Idle]
    /\ http = [l \in Loops |-> Quiet]
    /\ status = "active" /\ hash = 0 /\ keyOut = FALSE /\ blacklisted = FALSE
    /\ remote \in IpRanges \ {NoRanges}
    /\ issued = 0 /\ expired = 0
    /\ stranded = {} /\ cutOff = FALSE
    /\ faults = 0 /\ edits = 0

----------------------------------------------------------------------------
(* The agent's loops *)

fault == faults < MaxFaults /\ faults' = faults + 1

go(l, step) == loop' = [loop EXCEPT ![l] = step]
send(l, request) == http' = [http EXCEPT ![l] = request]
answered(l, a) == http[l].at = a

\* uploadPending, heartbeat: both take `config` once and keep it.
Starts(l) ==
    /\ loop[l].at = "idle" /\ http[l].at = "none"
    /\ go(l, [Idle EXCEPT !.at = "posting", !.object = config])
    /\ send(l, Post(config.token))
    /\ UNCHANGED <<config, disk, rowVars, tokenVars, stranded, cutOff, boundVars>>

\* Any answer but 401 and, for the heartbeat, 200.
PostEnds(l) ==
    /\ loop[l].at = "posting"
    /\ answered(l, "refused") \/ (l = "sync" /\ answered(l, "ok"))
    /\ go(l, Idle) /\ send(l, Quiet)
    /\ UNCHANGED <<config, disk, rowVars, tokenVars, stranded, cutOff, boundVars>>

\* Mutant: a 401 is an answer like any other.
UnauthorizedIgnored(l) ==
    /\ loop[l].at = "posting" /\ answered(l, "unauthorized")
    /\ go(l, Idle) /\ send(l, Quiet)
    /\ UNCHANGED <<config, disk, rowVars, tokenVars, stranded, cutOff, boundVars>>
\* tryRefresh(config): the refresh token of the object the loop holds.
Unauthorized(l) ==
    /\ loop[l].at = "posting" /\ answered(l, "unauthorized")
    /\ go(l, [loop[l] EXCEPT !.at = "refreshing"])
    /\ send(l, Refresh(loop[l].object.token))
    /\ UNCHANGED <<config, disk, rowVars, tokenVars, stranded, cutOff, boundVars>>

RefreshRefused(l) ==
    /\ loop[l].at = "refreshing" /\ answered(l, "refused")
    /\ go(l, Idle) /\ send(l, Quiet)
    /\ UNCHANGED <<config, disk, rowVars, tokenVars, stranded, cutOff, boundVars>>

\* { ...config, token, refreshToken }, stringified before save awaits the key.
Refreshed(l) ==
    /\ loop[l].at = "refreshing" /\ answered(l, "tokens")
    /\ go(l, [loop[l] EXCEPT !.at = "saving",
                 !.fresh = [loop[l].object EXCEPT !.token = http[l].token]])
    /\ send(l, Quiet)
    /\ UNCHANGED <<config, disk, rowVars, tokenVars, stranded, cutOff, boundVars>>

\* Mutant: the renewed pair is only kept in memory.
RefreshUnsaved(l) ==
    /\ loop[l].at = "saving"
    /\ IF l = "heartbeat"
       THEN config' = loop[l].fresh /\ go(l, Idle) /\ UNCHANGED http
       ELSE /\ go(l, [loop[l] EXCEPT !.at = "reposting"])
            /\ send(l, Post(loop[l].fresh.token))
            /\ UNCHANGED config
    /\ UNCHANGED <<disk, rowVars, tokenVars, stranded, cutOff, boundVars>>
\* The file is written.  The heartbeat makes the new object the current one at
\* once; the sync loop first repeats its request with the new token.
RefreshSaved(l) ==
    /\ loop[l].at = "saving"
    /\ disk' = loop[l].fresh
    /\ IF l = "heartbeat"
       THEN config' = loop[l].fresh /\ go(l, Idle) /\ UNCHANGED http
       ELSE /\ go(l, [loop[l] EXCEPT !.at = "reposting"])
            /\ send(l, Post(loop[l].fresh.token))
            /\ UNCHANGED config
    /\ UNCHANGED <<rowVars, tokenVars, stranded, cutOff, boundVars>>

\* setConfig(updatedConfig), whatever the repeated request was answered.
RepostEnds ==
    /\ loop["sync"].at = "reposting" /\ http["sync"].at \in Answers
    /\ config' = loop["sync"].fresh
    /\ go("sync", Idle) /\ send("sync", Quiet)
    /\ UNCHANGED <<disk, rowVars, tokenVars, stranded, cutOff, boundVars>>

\* handleRemoteConfig changes the object that is current now, in place: a loop
\* that holds it sees the change.
inPlace(l, rs) ==
    IF loop[l].at # "idle" /\ loop[l].object.token = config.token
    THEN [loop[l] EXCEPT !.object.ranges = rs] ELSE loop[l]
handleRemoteConfig ==
    LET rs == http["heartbeat"].ranges
        now == [config EXCEPT !.ranges = rs]
    IN  /\ loop["heartbeat"].at = "posting" /\ answered("heartbeat", "ok")
        /\ config' = now
        /\ loop' = [sync |-> inPlace("sync", rs),
                    heartbeat |-> IF rs = config.ranges THEN Idle
                                  ELSE [Idle EXCEPT !.at = "storing", !.object = now]]
        /\ send("heartbeat", Quiet)
        /\ UNCHANGED <<disk, rowVars, tokenVars, stranded, cutOff, boundVars>>

\* ConfigManager.save of the changed object, which another loop may have
\* replaced by one with newer tokens while the file's key was derived.
ConfigStored ==
    /\ loop["heartbeat"].at = "storing"
    /\ disk' = loop["heartbeat"].object
    /\ go("heartbeat", Idle)
    /\ stranded' = IF disk.token > disk'.token THEN stranded \cup {"stale file"} ELSE stranded
    /\ UNCHANGED <<config, http, rowVars, tokenVars, cutOff, boundVars>>

\* A write to the file fails: tryRefresh answers null, handleRemoteConfig throws.
SaveFails(l) ==
    /\ fault
    /\ loop[l].at \in {"saving", "storing"}
    /\ stranded' = IF loop[l].at = "saving" THEN stranded \cup {"answer lost"} ELSE stranded
    /\ go(l, Idle)
    /\ UNCHANGED <<config, disk, http, rowVars, tokenVars, cutOff, edits>>

\* The 65 s of an exchange are over, or its connection broke: the request may
\* never arrive, may still be served, or its answer may be lost.
Fails(l) ==
    /\ fault
    /\ loop[l].at \in {"posting", "refreshing", "reposting"}
    /\ http[l].at \in Answers => http' = [http EXCEPT ![l] = Quiet]
    /\ http' \in {http, [http EXCEPT ![l] = Quiet]}
    /\ stranded' = stranded \cup
           (IF answered(l, "tokens") THEN {"answer lost"} ELSE {}) \cup
           (IF loop[l].at = "reposting" THEN {"repost lost"} ELSE {})
    /\ go(l, Idle)
    /\ UNCHANGED <<config, disk, rowVars, tokenVars, cutOff, edits>>

\* An answer nobody waits for any more.
Unheard(l) ==
    /\ loop[l].at = "idle" /\ http[l].at \in Answers
    /\ send(l, Quiet)
    /\ stranded' = IF answered(l, "tokens") THEN stranded \cup {"answer lost"} ELSE stranded
    /\ UNCHANGED <<agentVars, rowVars, tokenVars, cutOff, boundVars>>

\* The process starts with what the file holds.
AgentRestart ==
    /\ fault
    /\ config' = disk
    /\ loop' = [l \in Loops |-> Idle]
    /\ stranded' = IF \E l \in Loops : loop[l].at = "saving"
                   THEN stranded \cup {"answer lost"} ELSE stranded
    /\ UNCHANGED <<disk, http, rowVars, tokenVars, cutOff, edits>>

----------------------------------------------------------------------------
(* The cloud *)

\* authMiddleware: the JWT, the status, the blacklist, in this order.
agentAuth(l) ==
    /\ answered(l, "post")
    /\ http' = [http EXCEPT ![l].at =
           IF http[l].token < expired THEN "unauthorized"
           ELSE IF status = "revoked" THEN "refused"
           ELSE IF blacklisted THEN "unauthorized" ELSE "authorised"]
    /\ UNCHANGED <<agentVars, rowVars, tokenVars, stranded, cutOff, boundVars>>

\* POST /devices/sync ends in an update that sets `active`, whatever the status.
touchOnSync ==
    /\ answered("sync", "authorised")
    /\ status' = "active"
    /\ http' = [http EXCEPT !["sync"].at = "ok"]
    /\ UNCHANGED <<agentVars, hash, keyOut, blacklisted, remote, tokenVars, stranded,
                   cutOff, boundVars>>

\* The heartbeat wakes an offline agent and carries the configuration back.
heartbeat ==
    /\ answered("heartbeat", "authorised")
    /\ status' = IF status = "offline" THEN "active" ELSE status
    /\ http' = [http EXCEPT !["heartbeat"].at = "ok", !["heartbeat"].ranges = remote]
    /\ UNCHANGED <<agentVars, hash, keyOut, blacklisted, remote, tokenVars, stranded,
                   cutOff, boundVars>>

\* Mutant: the row is looked up by id only.
refreshableById(l) == hash = http[l].token
\* findRefreshable and the comparison of the hash.
isRefreshable(l) == status \in {"active", "offline"} /\ hash = http[l].token
RefreshCompares(l) ==
    /\ answered(l, "refresh")
    /\ http' = [http EXCEPT ![l].at = IF isRefreshable(l) THEN "matched" ELSE "refused"]
    /\ UNCHANGED <<agentVars, rowVars, tokenVars, stranded, cutOff, boundVars>>

\* The UPDATE has no condition: it may overwrite a hash it did not compare with.
rotateRefreshToken(l) ==
    /\ answered(l, "matched") /\ issued < MaxTokens
    /\ issued' = issued + 1 /\ hash' = issued'
    /\ status' = "active"
    /\ stranded' = IF hash # http[l].token THEN stranded \cup {"overwritten"} ELSE stranded
    /\ http' = [http EXCEPT ![l].at = "tokens", ![l].token = issued']
    /\ UNCHANGED <<agentVars, keyOut, blacklisted, remote, expired, cutOff, boundVars>>

\* Access tokens expire, the older ones first.
TokenExpires ==
    /\ expired < MaxTokens /\ expired <= issued
    /\ expired' = expired + 1
    /\ UNCHANGED <<agentVars, http, rowVars, issued, stranded, cutOff, boundVars>>

\* The offline monitor finds last_seen old, or new again.
monitorMarks == \/ status = "active" /\ status' = "offline"
                \/ status = "offline" /\ status' = "active"
MonitorTick ==
    /\ monitorMarks
    /\ UNCHANGED <<agentVars, http, hash, keyOut, blacklisted, remote, tokenVars, stranded,
                   cutOff, boundVars>>

----------------------------------------------------------------------------
(* The portal and the installer *)

edit == edits < MaxEdits /\ edits' = edits + 1

updateConfig ==
    /\ edit
    /\ remote' \in IpRanges \ {remote}
    /\ UNCHANGED <<agentVars, http, status, hash, keyOut, blacklisted, tokenVars, stranded,
                   cutOff, faults>>

\* Requests that passed their check before the revocation are still served.
AtWork == {l \in Loops : http[l].at \in {"authorised", "matched"}}
RevokeToken ==
    /\ edit
    /\ blacklisted' = TRUE /\ status' = "revoked"
    /\ cutOff' = (AtWork = {})
    /\ UNCHANGED <<agentVars, http, hash, keyOut, remote, tokenVars, stranded, faults>>

BlacklistExpires ==
    /\ blacklisted
    /\ blacklisted' = FALSE
    /\ UNCHANGED <<agentVars, http, status, hash, keyOut, remote, tokenVars, stranded,
                   cutOff, boundVars>>

\* Mutant: the link to the old installation stays.
regenerateKeepsLink ==
    /\ edit
    /\ keyOut' = TRUE /\ status' = "pending"
    /\ cutOff' = FALSE
    /\ UNCHANGED <<agentVars, http, hash, blacklisted, remote, tokenVars, stranded, faults>>
RegenerateActivationKey ==
    /\ edit
    /\ keyOut' = TRUE /\ status' = "pending" /\ hash' = NoToken
    /\ cutOff' = FALSE
    /\ UNCHANGED <<agentVars, http, blacklisted, remote, tokenVars, stranded, faults>>

\* POST /agents/activate: the key is good once, for an agent pending or offline.
activate ==
    /\ keyOut /\ status \in {"pending", "offline"} /\ issued < MaxTokens
    /\ keyOut' = FALSE /\ status' = "active"
    /\ issued' = issued + 1 /\ hash' = issued'
    /\ UNCHANGED <<http, blacklisted, remote, expired, cutOff, edits>>
\* The installer runs it with the service stopped; the file starts over.
ActivateAgent ==
    /\ activate
    /\ config' = [token |-> issued', ranges |-> NoRanges] /\ disk' = config'
    /\ loop' = [l \in Loops |-> Idle]
    /\ stranded' = {} /\ UNCHANGED faults
\* Its answer is lost: trying again, the key is refused as already used.
ActivationLost ==
    /\ activate /\ fault
    /\ stranded' = stranded \cup {"answer lost"}
    /\ UNCHANGED agentVars

Agent == \/ RepostEnds \/ handleRemoteConfig \/ ConfigStored
         \/ \E l \in Loops : \/ Starts(l) \/ PostEnds(l) \/ Unauthorized(l)
                             \/ RefreshRefused(l) \/ Refreshed(l) \/ RefreshSaved(l)
                             \/ Unheard(l)
Cloud == \/ touchOnSync \/ heartbeat
         \/ \E l \in Loops : agentAuth(l) \/ RefreshCompares(l) \/ rotateRefreshToken(l)
Environment ==
    \/ TokenExpires \/ MonitorTick \/ updateConfig \/ RevokeToken \/ BlacklistExpires
    \/ RegenerateActivationKey \/ ActivateAgent \/ ActivationLost \/ AgentRestart
    \/ \E l \in Loops : SaveFails(l) \/ Fails(l)

Next == Agent \/ Cloud \/ Environment
Spec == Init /\ [][Next]_vars

\* Each loop reschedules itself and every exchange is answered or given up.
loopSteps(l) ==
    \/ Starts(l) \/ PostEnds(l) \/ Unauthorized(l) \/ RefreshRefused(l) \/ Refreshed(l)
    \/ RefreshSaved(l) \/ Unheard(l)
    \/ agentAuth(l) \/ RefreshCompares(l) \/ rotateRefreshToken(l)
    \/ l = "sync" /\ (RepostEnds \/ touchOnSync)
    \/ l = "heartbeat" /\ (handleRemoteConfig \/ ConfigStored \/ heartbeat)
FairSpec == Spec /\ \A l \in Loops : WF_vars(loopSteps(l)) /\ WF_vars(BlacklistExpires)

----------------------------------------------------------------------------

\* Every variable keeps its type; an agent waiting for its activation key has no
\* refresh token that would still be accepted.
AccessTypeOK ==
    /\ config \in Config /\ disk \in Config
    /\ loop \in [Loops -> [at : {"idle", "posting", "refreshing", "saving", "reposting",
                                 "storing"},
                           object : Config \cup {NoConfig}, fresh : Config \cup {NoConfig}]]
    /\ http \in [Loops -> [at : {"none", "post", "authorised", "refresh", "matched"}
                                \cup Answers,
                           token : Tokens \cup {NoToken}, ranges : IpRanges]]
    /\ status \in {"pending", "active", "offline", "revoked"}
    /\ (status = "pending" => hash = NoToken /\ keyOut)
    /\ hash \in Tokens \cup {NoToken}
    /\ keyOut \in BOOLEAN /\ blacklisted \in BOOLEAN /\ cutOff \in BOOLEAN
    /\ remote \in IpRanges
    /\ issued \in Tokens /\ expired \in Tokens
    /\ stranded \subseteq {"answer lost", "repost lost", "stale file", "overwritten"}
    /\ faults \in 0 .. MaxFaults /\ edits \in 0 .. MaxEdits

\* A rotation between the comparison in the cloud and the file of the agent.
Rotating(l) == loop[l].at = "saving" \/ http[l].at \in {"matched", "tokens"}
Linked == hash # NoToken

\* The file holds the one refresh token the cloud accepts, though two loops renew
\* it on their own, whenever no rotation is under way; only an answer that was
\* lost, two rotations that crossed, or the configuration a heartbeat stores over
\* a renewal can break that (uploader.ts tryRefresh: saved before it is used).
FileHoldsThePair ==
    stranded \subseteq {"repost lost"} /\ Linked =>
        hash = disk.token \/ \E l \in Loops : Rotating(l)

\* And so does the memory, once the sync loop has repeated its request, unless
\* that repetition failed: the exception skips setConfig.
MemoryHoldsThePair ==
    stranded = {} /\ Linked =>
        hash = config.token \/ \E l \in Loops : Rotating(l) \/ loop[l].at = "reposting"

\* Both loops and a restart therefore find the token that lets the agent in.
PairIsHeld == FileHoldsThePair /\ MemoryHoldsThePair

\* A revoked agent stays out, if no request of it was at work when it was
\* revoked: nothing but a new activation key brings it back.
RevokedStaysOut == cutOff => status = "revoked"

\* The instance has no more pairs to give: not a behaviour of the code.
BoundReached == issued = MaxTokens /\ \E l \in Loops : http[l].at = "matched"
Excused == stranded # {} \/ ~Linked \/ status = "revoked" \/ BoundReached

\* The way out of an expired token: an agent that is neither revoked, unlinked nor
\* stranded comes to hold a valid one.
ExpiredIsRenewed == [](config.token < expired => <>(config.token >= expired \/ Excused))

\* The ranges set in the portal reach the agent for good, though a renewal that
\* started before they did puts the old ones back for a while (SyncService.syncLoop:
\* setConfig of an object made from an earlier one).
RangesArrive == <>[](config.ranges = remote \/ Excused)

\* Whatever the two loops write over each other, the agent comes to hold a valid
\* token and the ranges of the portal.
AgentCatchesUp == ExpiredIsRenewed /\ RangesArrive

=============================================================================

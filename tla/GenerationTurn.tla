--------------------------- MODULE GenerationTurn ---------------------------
(***************************************************************************)
(* The life of one inbound generation request ("turn") in the proxy:       *)
(* handle_generation_for_agent and the relay task it hands a stream to     *)
(* (src/src-tauri/src/proxy/mod.rs), with the proxy-wide state the turns   *)
(* share: the Responses sessions, the cooldown tables and the providers'   *)
(* session-reuse capability.                                               *)
(*                                                                         *)
(* A turn is sent once and then walks a ladder of recovery rungs, in this  *)
(* order, each of which looks at the status of the last answer and may     *)
(* send the turn again:                                                    *)
(*   1 another provider key        2 full body after a rejected delta      *)
(*   3 Responses over chat         4 chat back to Responses                *)
(*   5 session delta after a 413   6 full body after a rejected rescue     *)
(*   7 lower reasoning effort      8 without previous_response_id          *)
(*                                                                         *)
(* Bodies are abstracted to what the rungs tell apart.  Where a rung also  *)
(* asks something of a body or of another component (is there another key, *)
(* does the history match, does the text of the error say so) the model    *)
(* lets it go either way: that is action Decline.                          *)
(***************************************************************************)
EXTENDS Naturals, FiniteSets

CONSTANTS
  Turns,         \* inbound requests, each one run of the handler
  Targets,       \* provider + upstream model, the key of the cooldown tables
  Official,      \* the targets at api.openai.com
  Anchors,       \* session identities: anchor_key, and the prefix key with it
  ScopeOf,       \* the scope of an anchor: whose it is, and at which target
  NoAnchor,      \* prefix_state_update_key = None
  ResponseIds,   \* response ids the upstream may issue
  NoId,          \* no previous_response_id
  NoScope,       \* the origin of an id not stored yet
  Requests,      \* the shapes of request the clients send
  Statuses       \* HTTP statuses the upstream may answer

(* Identities are derived per agent, provider and model.                   *)
Scopes == [agent : BOOLEAN, target : Targets]

ASSUME ScopeAssumption ==
  /\ Official \subseteq Targets
  /\ ScopeOf \in [Anchors -> Scopes]

ASSUME SentinelAssumption ==
  /\ NoAnchor \notin Anchors
  /\ NoId \notin ResponseIds
  /\ NoScope \notin Scopes

(* What a request is, as far as the ladder can tell: stream stands for     *)
(* client_requested_stream, defaulted marks Codex calls whose stream flag  *)
(* the proxy filled in, native says that the route's upstream protocol is  *)
(* Responses, chained that the client itself sent a previous_response_id,  *)
(* compact that the body has the shape of a history compaction.  Whether   *)
(* an agent sent it is part of the anchor: identities are derived per      *)
(* agent.                                                                  *)
ASSUME RequestAssumption ==
  /\ Requests \subseteq [anchor : Anchors, stream : BOOLEAN, defaulted : BOOLEAN,
                         native : BOOLEAN, chained : BOOLEAN, compact : BOOLEAN]
  /\ \A r \in Requests : r.defaulted => r.stream /\ ScopeOf[r.anchor].agent

ASSUME StatusAssumption == Statuses \subseteq 200..599

VARIABLES
  turn,           \* [Turns -> record], the local variables of the handlers
  session,        \* response_sessions: the id stored under each anchor
  deltaCooldown,  \* response_session_error_cooldowns, per target
  chatCooled,     \* compact_chat_compat_cooldowns: targets cooling down
  prefixCooled,   \* prefix_error_cooldowns: anchors cooling down
  verified,       \* targets whose session reuse is verified and switched on
  origin,         \* the scope each response id was first stored for (history)
  dead            \* ids clear_response_session_reference dropped (history)

shared == <<session, deltaCooldown, chatCooled, prefixCooled, verified, origin, dead>>
vars == <<turn, shared>>

Phases == {"idle", "gate", "compose", "sent", "judge", "relay", "done", "gone"}

Rungs == 0..8
Codes == 0..599

TurnRecords ==
  [pc : Phases, req : Requests,
   rung : Rungs,            \* the last rung passed
   sends : Nat,             \* upstream calls made
   status : Codes,          \* of the last answer, then of the reply
   verified : BOOLEAN,      \* the capability in the turn's config snapshot
   cooled : BOOLEAN,        \* response_session_cooldown_active
   wire : {"direct", "chat"},        \* active_request_channel
   prev : ResponseIds \cup {NoId},   \* the session delta in the active body
   delta : BOOLEAN,         \* used_response_session, of the main send
   oneShot : BOOLEAN,       \* verified_third_party_delta_in_flight
   startedChat : BOOLEAN,   \* responses_non_stream_chat_compat
   fellBack : BOOLEAN,      \* responses_sync_main_chat_compat_fallback
   lowered : BOOLEAN,       \* the reasoning effort was lowered
   learn : Anchors \cup {NoAnchor}]  \* prefix_state_update_key

TypeOK ==
  /\ turn \in [Turns -> TurnRecords]
  /\ session \in [Anchors -> ResponseIds \cup {NoId}]
  /\ deltaCooldown \in [Targets -> {"none", "transient", "unsupported"}]
  /\ chatCooled \subseteq Targets
  /\ prefixCooled \subseteq Anchors
  /\ verified \subseteq Targets
  /\ origin \in [ResponseIds -> Scopes \cup {NoScope}]
  /\ dead \subseteq ResponseIds

-----------------------------------------------------------------------------
(* The status tests of the rungs.                                          *)

Success(s) == s \in 200..299
KeyRejected == {401, 402, 403, 429}
DeltaRejected == {400, 404, 409, 410, 422}
SyncMainBroken == {400, 401, 405, 520, 524} \cup 500..504
ChatBroken == {429, 500, 502, 503, 504, 520, 524}
CoolsPrefix == {400, 408, 413, 429} \cup 500..599

(* response_session_rejection_classification: the text of the error can    *)
(* make any answer a stale or an unsupported reference; without such a     *)
(* text the status decides.                                                *)
ClassByStatus(s) == IF s \in {404, 409, 410} THEN "stale" ELSE "transient"
Classes(s) == {"stale", "unsupported", ClassByStatus(s)}

(* What a turn is.                                                         *)
Scope(u) == ScopeOf[u.req.anchor]
Agent(u) == Scope(u).agent
Target(u) == Scope(u).target
MayRetry(u) == ~Agent(u)
VerifiedThirdParty(u) == u.verified /\ Target(u) \notin Official
SyncMain(u) == u.req.native /\ ~u.req.stream
RetryGuard(u) == SyncMain(u) \/ u.req.defaulted
HasPrevious(u) == u.prev # NoId \/ u.req.chained

(* Mutation of ScopeIds: the siblings are not filtered by their scope.     *)
AllIds(u) == {session[a] : a \in Anchors} \ {NoId}

(* The ids a delta may name: the one stored under the turn's own anchor,   *)
(* and, for the rescue after a 413, those of every anchor of its scope.    *)
OwnId(u) == {session[u.req.anchor]} \ {NoId}
ScopeIds(u) ==
  {session[a] : a \in {b \in Anchors : ScopeOf[b] = Scope(u)}} \ {NoId}

-----------------------------------------------------------------------------
(* Updates the actions share.                                              *)

(* Mutation of Noted: the early return of a stale reference is lost.       *)
NotedWhateverClass(p, class) == [deltaCooldown EXCEPT ![p] = class]

(* note_response_session_error_cooldown_for_rejection: a stale reference   *)
(* is no reason to cool down, any other rejection replaces the entry.      *)
Noted(p, class) ==
  IF class = "stale" THEN deltaCooldown ELSE [deltaCooldown EXCEPT ![p] = class]

(* Mutation of Cleared: the sessions that share the id are kept.           *)
ClearedOwnOnly(anchor, id) == [session EXCEPT ![anchor] = NoId]

(* clear_response_session_reference: the anchor, and every anchor that     *)
(* holds the id.                                                           *)
Cleared(anchor, id) ==
  [a \in Anchors |-> IF a = anchor \/ session[a] = id THEN NoId ELSE session[a]]

ClearReference(anchor, id) ==
  /\ session' = Cleared(anchor, id)
  /\ dead' = dead \cup ({id} \ {NoId})

(* update_response_session_with_id: the answer's id replaces the stored    *)
(* one, unless there is no id or the stored session is already longer.     *)
StoreAnswer(u) ==
  \/ UNCHANGED <<session, origin>>
  \/ \E id \in ResponseIds :
       /\ origin[id] = NoScope
       /\ u.req.native /\ u.wire = "direct"
       /\ session' = [session EXCEPT ![u.req.anchor] = id]
       /\ origin' = [origin EXCEPT ![id] = Scope(u)]

(* A send: the rung it belongs to, counted.                                *)
Resent(u, rung) ==
  [u EXCEPT !.pc = "sent", !.rung = rung, !.sends = @ + 1]

-----------------------------------------------------------------------------
NewTurn(r) ==
  [pc |-> "idle", req |-> r, rung |-> 0, sends |-> 0, status |-> 0,
   verified |-> FALSE, cooled |-> FALSE, wire |-> "direct", prev |-> NoId,
   delta |-> FALSE, oneShot |-> FALSE, startedChat |-> FALSE, fellBack |-> FALSE,
   lowered |-> FALSE, learn |-> NoAnchor]

(* Sessions and unsupported cooldowns come back from disk at start-up,     *)
(* each session under the id of its own last answer; the other tables      *)
(* start empty.                                                            *)
Init ==
  /\ turn \in [Turns -> {NewTurn(r) : r \in Requests}]
  /\ session \in [Anchors -> ResponseIds \cup {NoId}]
  /\ \A a, b \in Anchors : a # b /\ session[a] = session[b] => session[a] = NoId
  /\ deltaCooldown \in [Targets -> {"none", "unsupported"}]
  /\ chatCooled = {}
  /\ prefixCooled = {}
  /\ verified \in SUBSET (Targets \ Official)
  /\ origin \in [ResponseIds -> Scopes \cup {NoScope}]
  /\ \A id \in ResponseIds :
       \/ origin[id] = NoScope /\ \A a \in Anchors : session[a] # id
       \/ \E a \in Anchors : session[a] = id /\ origin[id] = ScopeOf[a]
  /\ dead = {}

(* The request is authorised and the configuration cloned.                 *)
Accept(t) ==
  LET u == turn[t] IN
  /\ u.pc = "idle"
  /\ turn' = [turn EXCEPT ![t] = [@ EXCEPT !.pc = "gate",
                                          !.verified = Target(u) \in verified]]
  /\ UNCHANGED shared

(* A sync main request whose prefix failed a moment ago gets 503 without   *)
(* an upstream call.                                                       *)
Gate(t) ==
  LET u == turn[t] IN
  /\ u.pc = "gate"
  /\ turn' = [turn EXCEPT ![t] =
       IF RetryGuard(u) /\ u.req.anchor \in prefixCooled
       THEN [@ EXCEPT !.pc = "done", !.status = 503]
       ELSE [@ EXCEPT !.pc = "compose"]]
  /\ UNCHANGED shared

(* The turn ends without an upstream call: a user's by a hit in the local  *)
(* response cache, any by a local failure (no route, no provider key).     *)
EndLocally(t) ==
  LET u == turn[t] IN
  /\ u.pc = "gate"
  /\ \E s \in {200, 400, 500} :
       /\ s = 200 => ~Agent(u)
       /\ turn' = [turn EXCEPT ![t] = [u EXCEPT !.pc = "done", !.status = s]]
  /\ UNCHANGED shared

(* A main request may go out as a delta on the session of its anchor:      *)
(* main_response_session_delta_skip_reason and maybe_reuse_response_session*)
MayDelta(u) ==
  /\ u.req.native /\ u.req.stream /\ ~u.req.chained
  /\ deltaCooldown[Target(u)] = "none"
  /\ Target(u) \in Official \/ u.verified

(* Read the cooldown, choose the body and the wire, send.  A delta is only *)
(* taken when it pays; a sync compaction starts on the chat wire and then  *)
(* teaches the prefix tables nothing.                                      *)
Compose(t) ==
  LET u == turn[t]
      chat == SyncMain(u) /\ u.req.compact /\ Target(u) \notin chatCooled
  IN
  /\ u.pc = "compose"
  /\ \E id \in {NoId} \cup (IF MayDelta(u) THEN OwnId(u) ELSE {}) :
       turn' = [turn EXCEPT ![t] =
         [Resent(u, 0) EXCEPT !.cooled = deltaCooldown[Target(u)] # "none",
                              !.prev = id,
                              !.delta = id # NoId,
                              !.startedChat = chat,
                              !.wire = IF chat THEN "chat" ELSE "direct",
                              !.learn = IF chat THEN NoAnchor ELSE u.req.anchor]]
  /\ UNCHANGED shared

(* The upstream answers; the first answer settles whether the turn is a    *)
(* one-shot delta.                                                         *)
Answer(t) ==
  LET u == turn[t] IN
  /\ u.pc = "sent"
  /\ \E s \in Statuses :
       turn' = [turn EXCEPT ![t] =
         [u EXCEPT !.pc = "judge", !.status = s,
                   !.oneShot = IF u.sends = 1 THEN u.delta /\ VerifiedThirdParty(u)
                                              ELSE @]]
  /\ UNCHANGED shared

(* No answer: 502 for the client whichever send it was, nothing is noted.  *)
TransportFails(t) ==
  /\ turn[t].pc = "sent"
  /\ turn' = [turn EXCEPT ![t] = [@ EXCEPT !.pc = "done", !.status = 502]]
  /\ UNCHANGED shared

-----------------------------------------------------------------------------
(* Mutations of the guards: the agent, the one-shot delta, the wire, the   *)
(* earlier fallback or the success of the answer is not looked at.         *)
KeyFailoverForAgents(u) == ~u.oneShot /\ u.status \in KeyRejected

FullRetryOfOneShots(u) == MayRetry(u) /\ u.delta /\ u.status \in DeltaRejected

BackToResponsesAgain(u) ==
  MayRetry(u) /\ SyncMain(u) /\ u.wire = "chat" /\ u.status \in ChatBroken

RescueOnAnyWire(u) ==
  MayRetry(u) /\ u.req.native /\ u.status = 413 /\ u.prev = NoId /\ ~u.cooled

LowerEffortAlways(u) == Agent(u) /\ u.prev = NoId /\ ~u.oneShot

(* When each rung of the ladder applies to the last answer.                *)

KeyFailover(u) ==
  MayRetry(u) /\ ~u.oneShot /\ u.status \in KeyRejected

FullRetry(u) ==
  MayRetry(u) /\ ~u.oneShot /\ u.delta /\ u.status \in DeltaRejected

OverChat(u) ==
  MayRetry(u) /\ ~u.oneShot /\ RetryGuard(u) /\ ~u.startedChat /\ u.status \in SyncMainBroken

BackToResponses(u) ==
  MayRetry(u) /\ ~u.fellBack /\ SyncMain(u) /\ u.wire = "chat" /\ u.status \in ChatBroken

Rescue(u) ==
  MayRetry(u) /\ u.req.native /\ u.status = 413 /\ u.prev = NoId /\ u.wire = "direct" /\ ~u.cooled

FullAfterRescue(u) ==
  /\ u.rung = 5 /\ u.prev # NoId
  /\ MayRetry(u) /\ ~u.oneShot /\ u.status \in DeltaRejected

LowerEffort(u) ==
  Agent(u) /\ u.prev = NoId /\ ~u.oneShot /\ ~Success(u.status)

WithoutReference(u) ==
  u.req.native /\ u.wire = "direct" /\ HasPrevious(u) /\ ~Success(u.status)

Applies(u, k) ==
  \/ k = 1 /\ KeyFailover(u)
  \/ k = 2 /\ FullRetry(u)
  \/ k = 3 /\ OverChat(u)
  \/ k = 4 /\ BackToResponses(u)
  \/ k = 5 /\ Rescue(u)
  \/ k = 6 /\ FullAfterRescue(u)
  \/ k = 7 /\ LowerEffort(u)
  \/ k = 8 /\ WithoutReference(u)

(* The handler is at rung k: it has passed the earlier ones and this one   *)
(* applies.  Settled: none is left.                                        *)
Due(u, k) ==
  /\ u.pc = "judge" /\ u.rung < k /\ Applies(u, k)
  /\ \A j \in 1..8 : u.rung < j /\ j < k => ~Applies(u, j)

Settled(u) == u.pc = "judge" /\ \A j \in 1..8 : u.rung < j => ~Applies(u, j)

VerifiedDeltaRejected(u) == u.prev # NoId /\ VerifiedThirdParty(u)
Relays(u) == Success(u.status) /\ u.req.stream /\ u.rung # 8

-----------------------------------------------------------------------------
(* The rungs.                                                              *)

(* What a rung needs beyond the status is not there: no other key, no      *)
(* session whose history matches, no lower effort or no sign that the      *)
(* effort was the cause, no word of an unsupported reference.              *)
Decline(t) ==
  LET u == turn[t] IN
  /\ \E k \in {1, 5, 7, 8} :
       /\ Due(u, k)
       /\ k = 8 => ~VerifiedDeltaRejected(u)
       /\ turn' = [turn EXCEPT ![t] = [u EXCEPT !.rung = k]]
  /\ UNCHANGED shared

TryAnotherKey(t) ==
  LET u == turn[t] IN
  /\ Due(u, 1)
  /\ turn' = [turn EXCEPT ![t] = Resent(u, 1)]
  /\ UNCHANGED shared

RetryFull(t) ==
  LET u == turn[t] IN
  /\ Due(u, 2)
  /\ \E class \in Classes(u.status) : deltaCooldown' = Noted(Target(u), class)
  /\ ClearReference(u.req.anchor, u.prev)
  /\ turn' = [turn EXCEPT ![t] =
       [Resent(u, 2) EXCEPT !.prev = NoId, !.learn = u.req.anchor]]
  /\ UNCHANGED <<chatCooled, prefixCooled, verified, origin>>

SendOverChat(t) ==
  LET u == turn[t] IN
  /\ Due(u, 3)
  /\ turn' = [turn EXCEPT ![t] =
       [Resent(u, 3) EXCEPT !.wire = "chat", !.fellBack = TRUE,
                            !.prev = NoId, !.learn = NoAnchor]]
  /\ UNCHANGED shared

ReturnToResponses(t) ==
  LET u == turn[t] IN
  /\ Due(u, 4)
  /\ chatCooled' = chatCooled \cup {Target(u)}
  /\ turn' = [turn EXCEPT ![t] =
       [Resent(u, 4) EXCEPT !.wire = "direct", !.fellBack = FALSE, !.prev = NoId]]
  /\ UNCHANGED <<session, deltaCooldown, prefixCooled, verified, origin, dead>>

RescueTooLarge(t) ==
  LET u == turn[t] IN
  /\ Due(u, 5) /\ ~u.req.chained
  /\ \E id \in ScopeIds(u) : turn' = [turn EXCEPT ![t] = [Resent(u, 5) EXCEPT !.prev = id]]
  /\ UNCHANGED shared

(* This rung does not read the error: the status alone classes it.         *)
RetryFullAfterRescue(t) ==
  LET u == turn[t] IN
  /\ Due(u, 6)
  /\ deltaCooldown' = Noted(Target(u), ClassByStatus(u.status))
  /\ ClearReference(u.req.anchor, u.prev)
  /\ turn' = [turn EXCEPT ![t] =
       [Resent(u, 6) EXCEPT !.prev = NoId, !.learn = u.req.anchor]]
  /\ UNCHANGED <<chatCooled, prefixCooled, verified, origin>>

(* Mutation of LowerTheEffort: the turn still teaches its first body's key.*)
LowerTheEffortAndLearn(t) ==
  LET u == turn[t] IN
  /\ Due(u, 7)
  /\ turn' = [turn EXCEPT ![t] = [Resent(u, 7) EXCEPT !.lowered = TRUE]]
  /\ UNCHANGED shared

LowerTheEffort(t) ==
  LET u == turn[t] IN
  /\ Due(u, 7)
  /\ turn' = [turn EXCEPT ![t] =
       [Resent(u, 7) EXCEPT !.lowered = TRUE, !.learn = NoAnchor]]
  /\ UNCHANGED shared

(* A verified delta that fails is not sent again: the cooldown is noted,   *)
(* the reference dropped and, if the upstream says that it does not know   *)
(* the parameter, the capability withdrawn.                                *)
RejectVerified(u, anchor, id, class) ==
  /\ deltaCooldown' = Noted(Target(u), class)
  /\ IF class = "transient" THEN UNCHANGED <<session, dead>> ELSE ClearReference(anchor, id)
  /\ verified' = IF class = "unsupported" THEN verified \ {Target(u)} ELSE verified

RejectVerifiedDelta(t) ==
  LET u == turn[t] IN
  /\ Due(u, 8) /\ VerifiedDeltaRejected(u)
  /\ \E class \in Classes(u.status) : RejectVerified(u, u.req.anchor, u.prev, class)
  /\ turn' = [turn EXCEPT ![t] = [u EXCEPT !.rung = 8]]
  /\ UNCHANGED <<chatCooled, prefixCooled, origin>>

StripReference(t) ==
  LET u == turn[t] IN
  /\ Due(u, 8) /\ ~VerifiedDeltaRejected(u) /\ MayRetry(u)
  /\ deltaCooldown' = Noted(Target(u), "unsupported")
  /\ turn' = [turn EXCEPT ![t] = [Resent(u, 8) EXCEPT !.prev = NoId]]
  /\ UNCHANGED <<session, chatCooled, prefixCooled, verified, origin, dead>>

-----------------------------------------------------------------------------
(* The end of a turn.                                                      *)

StartRelay(t) ==
  /\ Settled(turn[t]) /\ Relays(turn[t])
  /\ turn' = [turn EXCEPT ![t] = [@ EXCEPT !.pc = "relay"]]
  /\ UNCHANGED shared

Complete(t) ==
  LET u == turn[t] IN
  /\ Settled(u) /\ Success(u.status)
  /\ Relays(u) => ~u.req.native
  /\ StoreAnswer(u)
  /\ prefixCooled' = IF u.wire = "chat" THEN prefixCooled ELSE prefixCooled \ {u.learn}
  /\ turn' = [turn EXCEPT ![t] = [u EXCEPT !.pc = "done"]]
  /\ UNCHANGED <<deltaCooldown, chatCooled, verified, dead>>

(* A failed answer, or a 200 whose body is an error (502 for the client).  *)
Fail(t) ==
  LET u == turn[t]
      reply == IF Success(u.status) THEN 502 ELSE u.status
  IN
  /\ Settled(u)
  /\ Relays(u) => ~u.req.native
  /\ prefixCooled' = IF RetryGuard(u) /\ reply \in CoolsPrefix
                     THEN prefixCooled \cup ({u.learn} \ {NoAnchor})
                     ELSE prefixCooled
  /\ turn' = [turn EXCEPT ![t] = [u EXCEPT !.pc = "done", !.status = reply]]
  /\ UNCHANGED <<session, deltaCooldown, chatCooled, verified, origin, dead>>

(* The body of the answer cannot be read: 502, nothing is noted.           *)
BodyLost(t) ==
  LET u == turn[t] IN
  /\ u.pc = "judge" /\ \A j \in 1..6 : u.rung < j => ~Applies(u, j)
  /\ Relays(u) => ~u.req.native
  /\ u.rung = 8 => u.prev = NoId
  /\ turn' = [turn EXCEPT ![t] = [u EXCEPT !.pc = "done", !.status = 502]]
  /\ UNCHANGED shared

(* The relay task reads the stream to its end, whether or not the client   *)
(* is still there.                                                         *)
RelayCompletes(t) ==
  LET u == turn[t] IN
  /\ u.pc = "relay"
  /\ StoreAnswer(u)
  /\ prefixCooled' = prefixCooled \ {u.learn}
  /\ turn' = [turn EXCEPT ![t] = [u EXCEPT !.pc = "done"]]
  /\ UNCHANGED <<deltaCooldown, chatCooled, verified, dead>>

RelayBreaks(t) ==
  /\ turn[t].pc = "relay"
  /\ turn' = [turn EXCEPT ![t] = [@ EXCEPT !.pc = "done"]]
  /\ UNCHANGED shared

(* An error event in the stream of a verified delta: as for a rejected     *)
(* delta, except that only the turn's own anchor is cleared.               *)
RelayRejects(t) ==
  LET u == turn[t] IN
  /\ u.pc = "relay" /\ VerifiedDeltaRejected(u)
  /\ \E class \in Classes(u.status) : RejectVerified(u, u.req.anchor, NoId, class)
  /\ turn' = [turn EXCEPT ![t] = [u EXCEPT !.pc = "done"]]
  /\ UNCHANGED <<chatCooled, prefixCooled, origin>>

(* The client hangs up before the answer is relayed: the handler's future  *)
(* is dropped where it stands.                                             *)
ClientGone(t) ==
  /\ turn[t].pc \in {"gate", "compose", "sent", "judge"}
  /\ turn' = [turn EXCEPT ![t] = [@ EXCEPT !.pc = "gone"]]
  /\ UNCHANGED shared

-----------------------------------------------------------------------------
(* What happens around the turns.                                          *)

CooldownEnds ==
  /\ \/ \E p \in Targets : /\ deltaCooldown' = [deltaCooldown EXCEPT ![p] = "none"]
                           /\ UNCHANGED <<chatCooled, prefixCooled>>
     \/ \E p \in chatCooled : /\ chatCooled' = chatCooled \ {p}
                              /\ UNCHANGED <<deltaCooldown, prefixCooled>>
     \/ \E a \in prefixCooled : /\ prefixCooled' = prefixCooled \ {a}
                                /\ UNCHANGED <<deltaCooldown, chatCooled>>
  /\ UNCHANGED <<turn, session, verified, origin, dead>>

(* The user runs the probe and it passes, or switches the reuse off.       *)
UserSetsReuse ==
  /\ \E p \in Targets \ Official :
       \/ verified' = verified \cup {p}
       \/ verified' = verified \ {p}
  /\ UNCHANGED <<turn, session, deltaCooldown, chatCooled, prefixCooled, origin, dead>>

-----------------------------------------------------------------------------
Prepare(t) == Accept(t) \/ Gate(t) \/ EndLocally(t) \/ Compose(t)
Upstream(t) == Answer(t) \/ TransportFails(t)
Climb(t) ==
  \/ Decline(t) \/ TryAnotherKey(t) \/ RetryFull(t) \/ SendOverChat(t)
  \/ ReturnToResponses(t) \/ RescueTooLarge(t) \/ RetryFullAfterRescue(t)
  \/ LowerTheEffort(t) \/ RejectVerifiedDelta(t) \/ StripReference(t)
Finish(t) == StartRelay(t) \/ Complete(t) \/ Fail(t) \/ BodyLost(t)
Relay(t) == RelayCompletes(t) \/ RelayBreaks(t) \/ RelayRejects(t)

TurnStep(t) == Prepare(t) \/ Upstream(t) \/ Climb(t) \/ Finish(t) \/ Relay(t)

Next ==
  \/ \E t \in Turns : TurnStep(t) \/ ClientGone(t)
  \/ CooldownEnds
  \/ UserSetsReuse

Spec == Init /\ [][Next]_vars

-----------------------------------------------------------------------------
(* PROPERTIES *)

(* The recovery rungs of a turn stop after five upstream calls, whatever   *)
(* the upstream answers: of the eight rungs at most four can fire for one  *)
(* request, because falling to chat and returning to Responses, or the     *)
(* session retry and the reference retry, exclude each other.              *)
RecoveryBudget == \A t \in Turns : turn[t].sends <= 5

(* An agent's turn is sent again only with a lowered reasoning effort, and *)
(* only once: none of the recovery rungs is open to it.                    *)
AgentRetriesOnlyEffort ==
  \A t \in Turns : Agent(turn[t]) =>
    turn[t].sends <= IF turn[t].lowered THEN 2 ELSE 1

(* A delta sent on a verified third-party capability is never followed by  *)
(* a second generation call of the same turn.                              *)
OneShotDelta == \A t \in Turns : turn[t].oneShot => turn[t].sends = 1

(* A response id that was dropped because the upstream refused it is in no *)
(* session any more and comes back into none, so no later turn of any      *)
(* anchor of the scope is composed on it.                                  *)
NoDeadReference == \A a \in Anchors : session[a] \notin dead

(* Conversations do not mix: a delta only ever continues a response that   *)
(* was stored in the turn's own scope, so an agent never continues a chat  *)
(* of the user or of another provider, not even when a 413 makes the turn  *)
(* look for a sibling session.                                             *)
DeltaStaysInScope ==
  \A t \in Turns : turn[t].prev # NoId => origin[turn[t].prev] = Scope(turn[t])

(* A session delta travels on the Responses wire, in a turn whose client   *)
(* did not chain the conversation itself.                                  *)
DeltaStaysOnResponses ==
  \A t \in Turns : turn[t].prev # NoId =>
    turn[t].wire = "direct" /\ turn[t].req.native /\ ~turn[t].req.chained

(* The prefix tables learn nothing from a turn whose active body is not    *)
(* the one the prefix key was computed from: over the chat wire, or with   *)
(* another reasoning effort.  The 413 rescue (rung 5), which puts a delta  *)
(* into the body, and rung 8, which takes the reference off, keep the key  *)
(* in the code; the property does not speak of them.                       *)
LearnsFromItsOwnBody ==
  \A t \in Turns : turn[t].learn # NoAnchor =>
    turn[t].wire = "direct" /\ ~turn[t].lowered

-----------------------------------------------------------------------------
(* What the documents say and the code does not do.                        *)

(* "a stale response id should clear that session only": a delta refused   *)
(* as stale leaves no session behind that the next turn would continue.    *)
(* The official target's delta of an agent's turn does.                    *)
StaleReferenceIsCleared ==
  \A t \in Turns :
    turn[t].pc = "done" /\ turn[t].prev # NoId /\ turn[t].status = 404
      => \A a \in Anchors : session[a] # turn[t].prev

(* Where a turn stands in the contract of InboundTurn, by its pc.          *)
ContractPhase ==
  [idle |-> "new", gate |-> "open", compose |-> "open", sent |-> "calling",
   judge |-> "open", relay |-> "open", done |-> "closed", gone |-> "closed"]

WellAnswered(u) == u.pc \in {"judge", "relay"} /\ Success(u.status)

(* What the client of a turn is promised, and how the handler keeps it.    *)
Inbound == INSTANCE InboundTurn WITH
  phase <- [t \in Turns |-> ContractPhase[turn[t].pc]],
  calls <- [t \in Turns |-> turn[t].sends],
  answered <- [t \in Turns |-> WellAnswered(turn[t])],
  agent <- [t \in Turns |-> Agent(turn[t])]

(* The ladder implements the contract of InboundTurn.                      *)
KeepsContract == Inbound!Spec
=============================================================================

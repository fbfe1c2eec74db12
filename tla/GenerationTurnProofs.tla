------------------------- MODULE GenerationTurnProofs -------------------------
(***************************************************************************)
(* Proofs about GenerationTurn, for any number of turns, targets, anchors  *)
(* and response ids, any requests and any statuses.                        *)
(*                                                                         *)
(* Two lemmas say what an action of a turn can do, one step per action:    *)
(* TurnShape to the turn itself, SharedShape to the tables.  What is said  *)
(* of the sessions and their ids follows from the shapes.                  *)
(*                                                                         *)
(* The second part is about the ladder: Climber ties the calls a turn has  *)
(* made, its wire and its body to the last rung it passed.  The bounds of  *)
(* the calls follow from it, and the refinement of InboundTurn.            *)
(***************************************************************************)
EXTENDS GenerationTurn, TLAPS

(***************************************************************************)
(* The records of the turns.                                               *)
(***************************************************************************)

(* The phases the actions set.                                             *)
LEMMA PhaseFacts ==
  /\ "idle" \in Phases /\ "gate" \in Phases /\ "compose" \in Phases /\ "sent" \in Phases
  /\ "judge" \in Phases /\ "relay" \in Phases /\ "done" \in Phases /\ "gone" \in Phases
BY DEF Phases

(* The statuses the handler makes up itself, and those of the upstream.    *)
LEMMA CodeFacts ==
  /\ 0 \in Codes /\ 200 \in Codes /\ 400 \in Codes /\ 500 \in Codes /\ 502 \in Codes /\ 503 \in Codes
  /\ Statuses \subseteq Codes
BY StatusAssumption DEF Codes

(* The rungs, by number.                                                   *)
LEMMA RungFacts ==
  /\ 0 \in Rungs /\ 1 \in Rungs /\ 2 \in Rungs /\ 3 \in Rungs /\ 4 \in Rungs
  /\ 5 \in Rungs /\ 6 \in Rungs /\ 7 \in Rungs /\ 8 \in Rungs
BY DEF Rungs

(* A turn's request names an anchor, and the anchor a scope and a target.  *)
LEMMA TurnTyping ==
  ASSUME TypeOK, NEW t \in Turns
  PROVE  /\ turn[t] \in TurnRecords
         /\ turn[t].req \in Requests
         /\ turn[t].req.anchor \in Anchors
         /\ turn[t].req.compact \in BOOLEAN
         /\ Scope(turn[t]) \in Scopes
         /\ Target(turn[t]) \in Targets
BY ScopeAssumption, RequestAssumption DEF TypeOK, TurnRecords, Scope, Target, Scopes

(* Moving on leaves a record of the same request and delta.                *)
LEMMA Moved ==
  ASSUME NEW u \in TurnRecords, NEW pc \in Phases
  PROVE  /\ [u EXCEPT !.pc = pc] \in TurnRecords
         /\ [u EXCEPT !.pc = pc].req = u.req
         /\ [u EXCEPT !.pc = pc].prev = u.prev
BY DEF TurnRecords

(* Moving on with a status leaves a record.                                *)
LEMMA Answered ==
  ASSUME NEW u \in TurnRecords, NEW pc \in Phases, NEW s \in Codes
  PROVE  [u EXCEPT !.pc = pc, !.status = s] \in TurnRecords
BY DEF TurnRecords

(* So does passing a rung ...                                              *)
LEMMA Passed ==
  ASSUME NEW u \in TurnRecords, NEW k \in Rungs
  PROVE  /\ [u EXCEPT !.rung = k] \in TurnRecords
         /\ [u EXCEPT !.rung = k].req = u.req
         /\ [u EXCEPT !.rung = k].prev = u.prev
BY DEF TurnRecords

(* ... and sending again; the request and the delta stay as they are.      *)
LEMMA Resending ==
  ASSUME NEW u \in TurnRecords, NEW k \in Rungs
  PROVE  /\ Resent(u, k) \in TurnRecords
         /\ Resent(u, k).req = u.req
         /\ Resent(u, k).prev = u.prev
<1>1. ASSUME NEW n \in Nat
      PROVE  [u EXCEPT !.pc = "sent", !.rung = k, !.sends = n] \in TurnRecords
  BY PhaseFacts DEF TurnRecords
<1>2. u.sends + 1 \in Nat
  BY DEF TurnRecords
<1>3. Resent(u, k) \in TurnRecords
  BY <1>1, <1>2, Zenon DEF Resent
<1> QED
  BY <1>3 DEF Resent, TurnRecords

(* What an action may make of the turn t: another record of the same       *)
(* request, which holds the delta it held, none, or one of its scope.      *)
Moves(t, v) ==
  /\ v \in TurnRecords
  /\ v.req = turn[t].req
  /\ v.prev \in {turn[t].prev, NoId} \cup ScopeIds(turn[t])
  /\ turn' = [turn EXCEPT ![t] = v]

(* The actions before the first answer.                                    *)
LEMMA PrepareShape ==
  ASSUME TypeOK, NEW t \in Turns, Prepare(t)
  PROVE  \E v : Moves(t, v)
<1> DEFINE u == turn[t]
<1>0. /\ u \in TurnRecords /\ u.req.anchor \in Anchors
      /\ u.req.compact \in BOOLEAN
  BY TurnTyping
<1> HIDE DEF u
<1>1. CASE Accept(t)
  <2> DEFINE b == Target(u) \in verified
             v == [u EXCEPT !.pc = "gate", !.verified = b]
  <2>1. b \in BOOLEAN
    OBVIOUS
  <2>2. turn' = [turn EXCEPT ![t] = v]
    BY <1>1 DEF Accept, u
  <2> HIDE DEF b
  <2>3. v \in TurnRecords /\ v.req = u.req /\ v.prev = u.prev
    BY <1>0, <2>1, PhaseFacts DEF TurnRecords
  <2> QED
    BY <2>2, <2>3 DEF Moves, u
<1>2. CASE Gate(t)
  <2> DEFINE refuse == [u EXCEPT !.pc = "done", !.status = 503]
             pass == [u EXCEPT !.pc = "compose"]
  <2>0. "done" \in Phases /\ 503 \in Codes
    BY PhaseFacts, CodeFacts
  <2>1a. refuse \in TurnRecords
    BY <1>0, <2>0, Answered, Zenon
  <2>1. refuse \in TurnRecords /\ refuse.req = u.req /\ refuse.prev = u.prev
    BY <1>0, <2>1a DEF TurnRecords
  <2>2. pass \in TurnRecords /\ pass.req = u.req /\ pass.prev = u.prev
    BY <1>0, Moved, PhaseFacts, Zenon
  <2>3. \/ turn' = [turn EXCEPT ![t] = refuse]
        \/ turn' = [turn EXCEPT ![t] = pass]
    BY <1>2 DEF Gate, u
  <2> QED
    BY <2>1, <2>2, <2>3 DEF Moves, u
<1>3. CASE EndLocally(t)
  <2> DEFINE v(s) == [u EXCEPT !.pc = "done", !.status = s]
  <2>1. PICK s \in {200, 400, 500} : turn' = [turn EXCEPT ![t] = v(s)]
    BY <1>3 DEF EndLocally, u
  <2>2. "done" \in Phases /\ s \in Codes
    BY PhaseFacts, CodeFacts
  <2>3. v(s) \in TurnRecords
    BY <1>0, <2>2, Answered, Zenon
  <2>4. v(s) \in TurnRecords /\ v(s).req = u.req /\ v(s).prev = u.prev
    BY <1>0, <2>3 DEF TurnRecords
  <2> QED
    BY <1>3, <2>1, <2>4 DEF EndLocally, Moves, u
<1>4. CASE Compose(t)
  <2> DEFINE chat == SyncMain(u) /\ u.req.compact /\ Target(u) \notin chatCooled
             cooled == deltaCooldown[Target(u)] # "none"
             delta(id) == id # NoId
             wire == IF chat THEN "chat" ELSE "direct"
             learn == IF chat THEN NoAnchor ELSE u.req.anchor
             r == Resent(u, 0)
             v(id) == [r EXCEPT !.cooled = cooled,
                                !.prev = id,
                                !.delta = delta(id),
                                !.startedChat = chat,
                                !.wire = wire,
                                !.learn = learn]
  <2>1. PICK id \in {NoId} \cup (IF MayDelta(u) THEN OwnId(u) ELSE {}) :
          turn' = [turn EXCEPT ![t] = v(id)]
    BY <1>4 DEF Compose, u
  <2>2. id \in {NoId} \cup ScopeIds(u) /\ id \in ResponseIds \cup {NoId}
    BY <2>1, <1>0 DEF OwnId, ScopeIds, Scope, TypeOK
  <2>3. /\ chat \in BOOLEAN /\ cooled \in BOOLEAN /\ delta(id) \in BOOLEAN
        /\ wire \in {"direct", "chat"} /\ learn \in Anchors \cup {NoAnchor}
    BY <1>0 DEF SyncMain
  <2>4. r \in TurnRecords /\ r.req = u.req
    BY <1>0, Resending, RungFacts, Zenon
  <2> HIDE DEF chat, cooled, delta, wire, learn, r
  <2>5. v(id) \in TurnRecords /\ v(id).req = r.req /\ v(id).prev = id
    BY <2>2, <2>3, <2>4 DEF TurnRecords
  <2> QED
    BY <2>1, <2>2, <2>4, <2>5 DEF Moves, u
<1> QED
  BY <1>1, <1>2, <1>3, <1>4 DEF Prepare

(* The answers of the upstream.                                            *)
LEMMA UpstreamShape ==
  ASSUME TypeOK, NEW t \in Turns, Upstream(t)
  PROVE  \E v : Moves(t, v)
<1> DEFINE u == turn[t]
<1>0. u \in TurnRecords
  BY TurnTyping
<1> HIDE DEF u
<1>1. CASE Answer(t)
  <2> DEFINE one == IF u.sends = 1 THEN u.delta /\ VerifiedThirdParty(u) ELSE u.oneShot
             v(s) == [u EXCEPT !.pc = "judge", !.status = s, !.oneShot = one]
  <2>1. PICK s \in Statuses : turn' = [turn EXCEPT ![t] = v(s)]
    BY <1>1 DEF Answer, u
  <2>2. one \in BOOLEAN /\ s \in Codes
    BY <1>0, CodeFacts DEF TurnRecords
  <2> HIDE DEF one
  <2>3. v(s) \in TurnRecords /\ v(s).req = u.req /\ v(s).prev = u.prev
    BY <1>0, <2>2, PhaseFacts DEF TurnRecords
  <2> QED
    BY <2>1, <2>3 DEF Moves, u
<1>2. CASE TransportFails(t)
  <2> DEFINE v == [u EXCEPT !.pc = "done", !.status = 502]
  <2>0. "done" \in Phases /\ 502 \in Codes
    BY PhaseFacts, CodeFacts
  <2>1a. v \in TurnRecords
    BY <1>0, <2>0, Answered, Zenon
  <2>1. v \in TurnRecords /\ v.req = u.req /\ v.prev = u.prev
    BY <1>0, <2>1a DEF TurnRecords
  <2> QED
    BY <1>2, <2>1 DEF TransportFails, Moves, u
<1> QED
  BY <1>1, <1>2 DEF Upstream

(* The rungs.  Only the rescue after a 413 takes another delta.            *)
LEMMA ClimbShape ==
  ASSUME TypeOK, NEW t \in Turns, Climb(t)
  PROVE  \E v : Moves(t, v)
<1> DEFINE u == turn[t]
           sent(k) == Resent(u, k)
<1>0. u \in TurnRecords /\ u.req.anchor \in Anchors
  BY TurnTyping
<1> HIDE DEF u
<1>r. \A k \in Rungs : sent(k) \in TurnRecords /\ sent(k).req = u.req /\ sent(k).prev = u.prev
  BY <1>0, Resending
<1> HIDE DEF sent
<1>1. CASE Decline(t)
  <2>1. PICK k \in {1, 5, 7, 8} : turn' = [turn EXCEPT ![t] = [u EXCEPT !.rung = k]]
    BY <1>1 DEF Decline, u
  <2>2. k \in Rungs
    BY RungFacts
  <2> DEFINE v == [u EXCEPT !.rung = k]
  <2>3. v \in TurnRecords /\ v.req = u.req /\ v.prev = u.prev
    BY <1>0, <2>2, Passed
  <2> QED
    BY <2>1, <2>3 DEF Moves, u
<1>2. CASE TryAnotherKey(t)
  <2>1. turn' = [turn EXCEPT ![t] = sent(1)]
    BY <1>2 DEF TryAnotherKey, u, sent
  <2> QED
    BY <2>1, <1>r, RungFacts DEF Moves, u
<1>3. CASE RetryFull(t)
  <2> DEFINE r == sent(2)
             v == [r EXCEPT !.prev = NoId, !.learn = u.req.anchor]
  <2>1. turn' = [turn EXCEPT ![t] = v]
    BY <1>3 DEF RetryFull, u, sent
  <2>2. r \in TurnRecords /\ r.req = u.req
    BY <1>r, RungFacts
  <2> HIDE DEF r
  <2>3. v \in TurnRecords /\ v.req = r.req /\ v.prev = NoId
    BY <1>0, <2>2 DEF TurnRecords
  <2> QED
    BY <2>1, <2>2, <2>3 DEF Moves, u
<1>4. CASE SendOverChat(t)
  <2> DEFINE r == sent(3)
             v == [r EXCEPT !.wire = "chat", !.fellBack = TRUE,
                            !.prev = NoId, !.learn = NoAnchor]
  <2>1. turn' = [turn EXCEPT ![t] = v]
    BY <1>4 DEF SendOverChat, u, sent
  <2>2. r \in TurnRecords /\ r.req = u.req
    BY <1>r, RungFacts
  <2> HIDE DEF r
  <2>3. v \in TurnRecords /\ v.req = r.req /\ v.prev = NoId
    BY <2>2 DEF TurnRecords
  <2> QED
    BY <2>1, <2>2, <2>3 DEF Moves, u
<1>5. CASE ReturnToResponses(t)
  <2> DEFINE r == sent(4)
             v == [r EXCEPT !.wire = "direct", !.fellBack = FALSE, !.prev = NoId]
  <2>1. turn' = [turn EXCEPT ![t] = v]
    BY <1>5 DEF ReturnToResponses, u, sent
  <2>2. r \in TurnRecords /\ r.req = u.req
    BY <1>r, RungFacts
  <2> HIDE DEF r
  <2>3. v \in TurnRecords /\ v.req = r.req /\ v.prev = NoId
    BY <2>2 DEF TurnRecords
  <2> QED
    BY <2>1, <2>2, <2>3 DEF Moves, u
<1>6. CASE RescueTooLarge(t)
  <2> DEFINE r == sent(5)
             v(id) == [r EXCEPT !.prev = id]
  <2>1. PICK id \in ScopeIds(u) : turn' = [turn EXCEPT ![t] = v(id)]
    BY <1>6 DEF RescueTooLarge, u, sent
  <2>2. id \in ResponseIds
    BY DEF ScopeIds, TypeOK
  <2>3. r \in TurnRecords /\ r.req = u.req
    BY <1>r, RungFacts
  <2> HIDE DEF r
  <2>4. v(id) \in TurnRecords /\ v(id).req = r.req /\ v(id).prev = id
    BY <2>2, <2>3 DEF TurnRecords
  <2> QED
    BY <2>1, <2>3, <2>4 DEF Moves, u
<1>7. CASE RetryFullAfterRescue(t)
  <2> DEFINE r == sent(6)
             v == [r EXCEPT !.prev = NoId, !.learn = u.req.anchor]
  <2>1. turn' = [turn EXCEPT ![t] = v]
    BY <1>7 DEF RetryFullAfterRescue, u, sent
  <2>2. r \in TurnRecords /\ r.req = u.req
    BY <1>r, RungFacts
  <2> HIDE DEF r
  <2>3. v \in TurnRecords /\ v.req = r.req /\ v.prev = NoId
    BY <1>0, <2>2 DEF TurnRecords
  <2> QED
    BY <2>1, <2>2, <2>3 DEF Moves, u
<1>8. CASE LowerTheEffort(t)
  <2> DEFINE r == sent(7)
             v == [r EXCEPT !.lowered = TRUE, !.learn = NoAnchor]
  <2>1. turn' = [turn EXCEPT ![t] = v]
    BY <1>8 DEF LowerTheEffort, u, sent
  <2>2. r \in TurnRecords /\ r.req = u.req /\ r.prev = u.prev
    BY <1>r, RungFacts
  <2> HIDE DEF r
  <2>3. v \in TurnRecords /\ v.req = r.req /\ v.prev = r.prev
    BY <2>2 DEF TurnRecords
  <2> QED
    BY <2>1, <2>2, <2>3 DEF Moves, u
<1>9. CASE RejectVerifiedDelta(t)
  <2> DEFINE v == [u EXCEPT !.rung = 8]
  <2>1. v \in TurnRecords /\ v.req = u.req /\ v.prev = u.prev
    BY <1>0, RungFacts, Passed, Zenon
  <2>2. turn' = [turn EXCEPT ![t] = v]
    BY <1>9 DEF RejectVerifiedDelta, u
  <2> QED
    BY <2>1, <2>2 DEF Moves, u
<1>10. CASE StripReference(t)
  <2> DEFINE r == sent(8)
             v == [r EXCEPT !.prev = NoId]
  <2>1. turn' = [turn EXCEPT ![t] = v]
    BY <1>10 DEF StripReference, u, sent
  <2>2. r \in TurnRecords /\ r.req = u.req
    BY <1>r, RungFacts
  <2> HIDE DEF r
  <2>3. v \in TurnRecords /\ v.req = r.req /\ v.prev = NoId
    BY <2>2 DEF TurnRecords
  <2> QED
    BY <2>1, <2>2, <2>3 DEF Moves, u
<1> QED
  BY <1>1, <1>2, <1>3, <1>4, <1>5, <1>6, <1>7, <1>8, <1>9, <1>10 DEF Climb

(* The end of a turn.                                                      *)
LEMMA FinishShape ==
  ASSUME TypeOK, NEW t \in Turns, Finish(t) \/ Relay(t) \/ ClientGone(t)
  PROVE  \E v : Moves(t, v)
<1> DEFINE u == turn[t]
           to(pc) == [u EXCEPT !.pc = pc]
<1>0. u \in TurnRecords
  BY TurnTyping
<1> HIDE DEF u
<1>1. \A pc \in Phases : to(pc) \in TurnRecords /\ to(pc).req = u.req /\ to(pc).prev = u.prev
  BY <1>0, Moved
<1>2. CASE Fail(t)
  <2> DEFINE reply == IF Success(u.status) THEN 502 ELSE u.status
             v == [u EXCEPT !.pc = "done", !.status = reply]
  <2>1. turn' = [turn EXCEPT ![t] = v]
    BY <1>2 DEF Fail, u
  <2>2. reply \in Codes
    BY <1>0, CodeFacts DEF TurnRecords
  <2> HIDE DEF reply
  <2>3. v \in TurnRecords /\ v.req = u.req /\ v.prev = u.prev
    BY <1>0, <2>2, PhaseFacts DEF TurnRecords
  <2> QED
    BY <2>1, <2>3 DEF Moves, u
<1>3. CASE BodyLost(t)
  <2> DEFINE v == [u EXCEPT !.pc = "done", !.status = 502]
  <2>0. "done" \in Phases /\ 502 \in Codes
    BY PhaseFacts, CodeFacts
  <2>1. v \in TurnRecords
    BY <1>0, <2>0, Answered, Zenon
  <2>2. v.req = u.req /\ v.prev = u.prev
    BY <1>0, <2>1 DEF TurnRecords
  <2>3. turn' = [turn EXCEPT ![t] = v]
    BY <1>3 DEF BodyLost, u
  <2> QED
    BY <2>1, <2>2, <2>3 DEF Moves, u
<1>4. CASE StartRelay(t)
  <2>1. turn' = [turn EXCEPT ![t] = to("relay")]
    BY <1>4 DEF StartRelay, u
  <2> QED
    BY <2>1, <1>1, PhaseFacts DEF Moves, u
<1>5. CASE Complete(t) \/ Relay(t)
  <2>1. turn' = [turn EXCEPT ![t] = to("done")]
    BY <1>5 DEF Complete, Relay, RelayCompletes, RelayBreaks, RelayRejects, u
  <2> QED
    BY <2>1, <1>1, PhaseFacts DEF Moves, u
<1>6. CASE ClientGone(t)
  <2>1. turn' = [turn EXCEPT ![t] = to("gone")]
    BY <1>6 DEF ClientGone, u
  <2> QED
    BY <2>1, <1>1, PhaseFacts DEF Moves, u
<1> QED
  BY <1>2, <1>3, <1>4, <1>5, <1>6 DEF Finish

(* What any action of a turn makes of it.                                  *)
LEMMA TurnShape ==
  ASSUME TypeOK, NEW t \in Turns, TurnStep(t) \/ ClientGone(t)
  PROVE  \E v : Moves(t, v)
BY PrepareShape, UpstreamShape, ClimbShape, FinishShape DEF TurnStep

(***************************************************************************)
(* The tables.                                                             *)
(***************************************************************************)

(* The tables the invariants only need the types of.                       *)
CooldownsTyped ==
  /\ deltaCooldown \in [Targets -> {"none", "transient", "unsupported"}]
  /\ chatCooled \subseteq Targets
  /\ prefixCooled \subseteq Anchors
  /\ verified \subseteq Targets

(* What a turn may do to the sessions: nothing, drop the reference it sent *)
(* (from its own anchor only, or wherever it is held), or store an answer. *)
Drops(t) ==
  \E id \in {turn[t].prev, NoId} : ClearReference(turn[t].req.anchor, id) /\ UNCHANGED origin
SessionStep(t) ==
  \/ UNCHANGED <<session, origin, dead>>
  \/ Drops(t)
  \/ StoreAnswer(turn[t]) /\ UNCHANGED dead

(* A rejection leaves a cooldown of one of the three kinds.                *)
LEMMA NotedTyping ==
  ASSUME TypeOK, NEW p \in Targets, NEW s, NEW class \in Classes(s)
  PROVE  Noted(p, class) \in [Targets -> {"none", "transient", "unsupported"}]
BY DEF TypeOK, Noted, Classes, ClassByStatus

(* A rejected verified delta cools its target down, and is dropped unless  *)
(* the rejection is transient.                                             *)
LEMMA RejectTyping ==
  ASSUME TypeOK, NEW u, Target(u) \in Targets, NEW anchor, NEW id, NEW s,
         NEW class \in Classes(s), RejectVerified(u, anchor, id, class)
  PROVE  /\ deltaCooldown' \in [Targets -> {"none", "transient", "unsupported"}]
         /\ verified' \subseteq Targets
         /\ UNCHANGED <<session, dead>> \/ ClearReference(anchor, id)
<1>1. deltaCooldown' = Noted(Target(u), class)
  BY DEF RejectVerified
<1>2. deltaCooldown' \in [Targets -> {"none", "transient", "unsupported"}]
  BY <1>1, NotedTyping
<1> QED
  BY <1>2 DEF RejectVerified, TypeOK

(* What any action of a turn makes of the tables.                          *)
LEMMA SharedShape ==
  ASSUME TypeOK, NEW t \in Turns, TurnStep(t) \/ ClientGone(t)
  PROVE  CooldownsTyped' /\ SessionStep(t)
<1> DEFINE u == turn[t]
<1>0. Target(u) \in Targets /\ u.req.anchor \in Anchors /\ u.learn \in Anchors \cup {NoAnchor}
  BY TurnTyping DEF TurnRecords
<1>1. CooldownsTyped
  BY DEF TypeOK, CooldownsTyped
<1>2. CASE UNCHANGED shared
  BY <1>1, <1>2 DEF shared, CooldownsTyped, SessionStep
<1>3. CASE RetryFull(t)
  <2>1. PICK class \in Classes(u.status) : deltaCooldown' = Noted(Target(u), class)
    BY <1>3 DEF RetryFull
  <2>2. deltaCooldown' \in [Targets -> {"none", "transient", "unsupported"}]
    BY <1>0, <2>1, NotedTyping
  <2> QED
    BY <1>1, <1>3, <2>2 DEF RetryFull, CooldownsTyped, SessionStep, Drops
<1>4. CASE RetryFullAfterRescue(t)
  <2>1. ClassByStatus(u.status) \in Classes(u.status)
    BY DEF Classes
  <2>2. deltaCooldown' = Noted(Target(u), ClassByStatus(u.status))
    BY <1>4 DEF RetryFullAfterRescue
  <2>3. deltaCooldown' \in [Targets -> {"none", "transient", "unsupported"}]
    BY <1>0, <2>1, <2>2, NotedTyping
  <2> QED
    BY <1>1, <1>4, <2>3 DEF RetryFullAfterRescue, CooldownsTyped, SessionStep, Drops
<1>5. CASE StripReference(t)
  <2>1. "unsupported" \in Classes(u.status)
    BY DEF Classes
  <2>2. deltaCooldown' = Noted(Target(u), "unsupported")
    BY <1>5 DEF StripReference
  <2>3. deltaCooldown' \in [Targets -> {"none", "transient", "unsupported"}]
    BY <1>0, <2>1, <2>2, NotedTyping
  <2> QED
    BY <1>1, <1>5, <2>3 DEF StripReference, CooldownsTyped, SessionStep
<1>6. CASE ReturnToResponses(t)
  BY <1>0, <1>1, <1>6 DEF ReturnToResponses, CooldownsTyped, SessionStep
<1>7. CASE RejectVerifiedDelta(t)
  <2>1. PICK class \in Classes(u.status) : RejectVerified(u, u.req.anchor, u.prev, class)
    BY <1>7 DEF RejectVerifiedDelta
  <2>2. /\ deltaCooldown' \in [Targets -> {"none", "transient", "unsupported"}]
        /\ verified' \subseteq Targets
        /\ UNCHANGED <<session, dead>> \/ ClearReference(u.req.anchor, u.prev)
    BY <1>0, <2>1, RejectTyping
  <2> QED
    BY <1>1, <1>7, <2>2 DEF RejectVerifiedDelta, CooldownsTyped, SessionStep, Drops
<1>8. CASE RelayRejects(t)
  <2>1. PICK class \in Classes(u.status) : RejectVerified(u, u.req.anchor, NoId, class)
    BY <1>8 DEF RelayRejects
  <2>2. /\ deltaCooldown' \in [Targets -> {"none", "transient", "unsupported"}]
        /\ verified' \subseteq Targets
        /\ UNCHANGED <<session, dead>> \/ ClearReference(u.req.anchor, NoId)
    BY <1>0, <2>1, RejectTyping
  <2> QED
    BY <1>1, <1>8, <2>2 DEF RelayRejects, CooldownsTyped, SessionStep, Drops
<1>9. CASE Complete(t)
  BY <1>1, <1>9 DEF Complete, CooldownsTyped, SessionStep
<1>10. CASE RelayCompletes(t)
  BY <1>1, <1>10 DEF RelayCompletes, CooldownsTyped, SessionStep
<1>11. CASE Fail(t)
  BY <1>0, <1>1, <1>11 DEF Fail, CooldownsTyped, SessionStep
<1>12. \/ UNCHANGED shared
       \/ RetryFull(t) \/ RetryFullAfterRescue(t) \/ StripReference(t) \/ ReturnToResponses(t)
       \/ RejectVerifiedDelta(t) \/ RelayRejects(t) \/ Complete(t) \/ RelayCompletes(t) \/ Fail(t)
  BY DEF TurnStep, Prepare, Upstream, Climb, Finish, Relay, Accept, Gate, EndLocally,
         Compose, Answer, TransportFails, Decline, TryAnotherKey, SendOverChat,
         RescueTooLarge, LowerTheEffort, StartRelay, BodyLost, RelayBreaks, ClientGone
<1> QED
  BY <1>2, <1>3, <1>4, <1>5, <1>6, <1>7, <1>8, <1>9, <1>10, <1>11, <1>12

(* What happens around the turns leaves them and the sessions alone.       *)
LEMMA AroundShape ==
  ASSUME TypeOK, CooldownEnds \/ UserSetsReuse \/ UNCHANGED vars
  PROVE  CooldownsTyped' /\ UNCHANGED <<turn, session, origin, dead>>
<1>1. CASE CooldownEnds
  BY <1>1 DEF CooldownEnds, TypeOK, CooldownsTyped
<1>2. CASE UserSetsReuse
  BY <1>2 DEF UserSetsReuse, TypeOK, CooldownsTyped
<1>3. CASE UNCHANGED vars
  BY <1>3 DEF vars, shared, TypeOK, CooldownsTyped
<1> QED
  BY <1>1, <1>2, <1>3

(***************************************************************************)
(* Type correctness.                                                       *)
(***************************************************************************)

(* The initial states are well typed.                                      *)
LEMMA InitTyping == Init => TypeOK
<1> SUFFICES ASSUME Init PROVE TypeOK
  OBVIOUS
<1>1. ASSUME NEW r \in Requests PROVE NewTurn(r) \in TurnRecords
  BY <1>1, PhaseFacts, RungFacts, CodeFacts DEF NewTurn, TurnRecords
<1>2. turn \in [Turns -> TurnRecords]
  BY <1>1 DEF Init
<1> QED
  BY <1>2 DEF Init, TypeOK

(* Dropping a reference or storing an answer keeps the session tables.     *)
LEMMA SessionTyping ==
  ASSUME TypeOK, NEW t \in Turns, SessionStep(t)
  PROVE  /\ session' \in [Anchors -> ResponseIds \cup {NoId}]
         /\ origin' \in [ResponseIds -> Scopes \cup {NoScope}]
         /\ dead' \subseteq ResponseIds
<1>0. /\ turn[t].req.anchor \in Anchors /\ Scope(turn[t]) \in Scopes
      /\ turn[t].prev \in ResponseIds \cup {NoId}
  BY TurnTyping DEF TurnRecords
<1>1. CASE UNCHANGED <<session, origin, dead>>
  BY <1>1 DEF TypeOK
<1>2. CASE Drops(t)
  BY <1>0, <1>2 DEF Drops, ClearReference, Cleared, TypeOK
<1>3. CASE StoreAnswer(turn[t]) /\ UNCHANGED dead
  BY <1>0, <1>3 DEF StoreAnswer, TypeOK
<1> QED
  BY <1>1, <1>2, <1>3 DEF SessionStep

(* Every step keeps the types.                                             *)
LEMMA NextTyping == TypeOK /\ [Next]_vars => TypeOK'
<1> SUFFICES ASSUME TypeOK, [Next]_vars PROVE TypeOK'
  OBVIOUS
<1>1. ASSUME NEW t \in Turns, TurnStep(t) \/ ClientGone(t) PROVE TypeOK'
  <2>1. PICK v : Moves(t, v)
    BY <1>1, TurnShape
  <2>2. turn' \in [Turns -> TurnRecords]
    BY <2>1 DEF Moves, TypeOK
  <2>3. CooldownsTyped' /\ SessionStep(t)
    BY <1>1, SharedShape
  <2> QED
    BY <2>2, <2>3, SessionTyping DEF TypeOK, CooldownsTyped
<1>2. CASE CooldownEnds \/ UserSetsReuse \/ UNCHANGED vars
  <2>1. CooldownsTyped' /\ UNCHANGED <<turn, session, origin, dead>>
    BY <1>2, AroundShape
  <2> QED
    BY <2>1 DEF TypeOK, CooldownsTyped
<1> QED
  BY <1>1, <1>2 DEF Next

(* The turns and the tables they share keep their types in every run of    *)
(* the proxy.                                                              *)
THEOREM TypeCorrect == Spec => []TypeOK
  BY InitTyping, NextTyping, PTL DEF Spec

(***************************************************************************)
(* References: a dropped one never comes back, and a turn only continues   *)
(* responses of its own scope.  Both follow from where the ids come from.  *)
(***************************************************************************)

(* A stored id was issued in the scope of the anchor that holds it.        *)
StoredInScope == \A a \in Anchors : session[a] # NoId => origin[session[a]] = ScopeOf[a]

(* A dropped id had been stored once, so it is never issued again.         *)
DeadWereStored == \A id \in dead : origin[id] # NoScope

(* The inductive invariant: the two say why NoDeadReference is kept by a   *)
(* turn that stores an answer, and DeltaStaysInScope by a turn that takes  *)
(* its delta from a sibling.                                               *)
RefInv == TypeOK /\ StoredInScope /\ DeadWereStored /\ NoDeadReference /\ DeltaStaysInScope

(* Restored sessions are kept in their own scope, and nothing is dropped.  *)
LEMMA InitRef == Init => RefInv
<1> SUFFICES ASSUME Init PROVE RefInv
  OBVIOUS
<1>1. TypeOK
  BY InitTyping
<1>2. StoredInScope
  <2> SUFFICES ASSUME NEW a \in Anchors, session[a] # NoId
               PROVE  origin[session[a]] = ScopeOf[a]
    BY DEF StoredInScope
  <2>1. session[a] \in ResponseIds
    BY <1>1 DEF TypeOK
  <2>2. PICK b \in Anchors : session[b] = session[a] /\ origin[session[a]] = ScopeOf[b]
    BY <2>1 DEF Init
  <2>3. b = a
    BY <2>2 DEF Init
  <2> QED
    BY <2>2, <2>3
<1>3. DeadWereStored /\ NoDeadReference
  BY DEF Init, DeadWereStored, NoDeadReference
<1>4. DeltaStaysInScope
  <2>1. ASSUME NEW r \in Requests PROVE NewTurn(r).prev = NoId
    BY DEF NewTurn
  <2> QED
    BY <2>1 DEF Init, DeltaStaysInScope
<1> QED
  BY <1>1, <1>2, <1>3, <1>4 DEF RefInv

(* The tables' half of the invariant is kept by what a turn does to them,  *)
(* and an id that had a scope keeps it.                                    *)
LEMMA SessionRef ==
  ASSUME RefInv, NEW t \in Turns, SessionStep(t)
  PROVE  /\ StoredInScope' /\ DeadWereStored' /\ NoDeadReference'
         /\ \A id \in ResponseIds : origin[id] # NoScope => origin'[id] = origin[id]
<1> DEFINE u == turn[t]
<1>0. /\ TypeOK /\ u.req.anchor \in Anchors /\ Scope(u) \in Scopes
      /\ Scope(u) = ScopeOf[u.req.anchor]
      /\ u.prev \in ResponseIds \cup {NoId}
      /\ u.prev # NoId => origin[u.prev] = Scope(u)
  BY TurnTyping DEF RefInv, TurnRecords, Scope, DeltaStaysInScope
<1> HIDE DEF u
<1>1. CASE UNCHANGED <<session, origin, dead>>
  BY <1>1 DEF RefInv, StoredInScope, DeadWereStored, NoDeadReference
<1>2. CASE Drops(t)
  <2>1. PICK id \in {u.prev, NoId} :
          /\ session' = Cleared(u.req.anchor, id)
          /\ dead' = dead \cup ({id} \ {NoId})
          /\ origin' = origin
    BY <1>2 DEF Drops, ClearReference, u
  <2>2. \A a \in Anchors : session'[a] # NoId => session'[a] = session[a] /\ session[a] # id
    BY <2>1 DEF Cleared
  <2>3. StoredInScope'
    BY <2>1, <2>2 DEF RefInv, StoredInScope
  <2>4. DeadWereStored'
    BY <1>0, <2>1, SentinelAssumption DEF RefInv, DeadWereStored
  <2>5. NoDeadReference'
    <3> SUFFICES ASSUME NEW a \in Anchors PROVE session'[a] \notin dead'
      BY DEF NoDeadReference
    <3>1. CASE session'[a] = NoId
      BY <1>0, <2>1, <3>1, SentinelAssumption DEF TypeOK
    <3>2. CASE session'[a] # NoId
      BY <2>1, <2>2, <3>2 DEF RefInv, NoDeadReference
    <3> QED
      BY <3>1, <3>2
  <2> QED
    BY <2>1, <2>3, <2>4, <2>5
<1>3. CASE StoreAnswer(u) /\ UNCHANGED dead
  <2>1. CASE UNCHANGED <<session, origin>>
    BY <1>3, <2>1 DEF RefInv, StoredInScope, DeadWereStored, NoDeadReference
  <2>2. CASE ~UNCHANGED <<session, origin>>
    <3>1. PICK id \in ResponseIds :
            /\ origin[id] = NoScope
            /\ session' = [session EXCEPT ![u.req.anchor] = id]
            /\ origin' = [origin EXCEPT ![id] = Scope(u)]
      BY <1>3, <2>2 DEF StoreAnswer
    <3>2. \A a \in Anchors : session[a] # id
      <4> SUFFICES ASSUME NEW a \in Anchors, session[a] = id PROVE FALSE
        OBVIOUS
      <4>1. id # NoId
        BY SentinelAssumption
      <4>2. origin[id] = ScopeOf[a]
        BY <4>1 DEF RefInv, StoredInScope
      <4> QED
        BY <3>1, <4>2, ScopeAssumption, SentinelAssumption
    <3>3. id \notin dead
      BY <3>1 DEF RefInv, DeadWereStored
    <3>4. StoredInScope'
      <4> SUFFICES ASSUME NEW a \in Anchors, session'[a] # NoId
                   PROVE  origin'[session'[a]] = ScopeOf[a]
        BY DEF StoredInScope
      <4>1. CASE a = u.req.anchor
        BY <1>0, <3>1, <4>1 DEF TypeOK
      <4>2. CASE a # u.req.anchor
        BY <1>0, <3>1, <3>2, <4>2 DEF TypeOK, RefInv, StoredInScope
      <4> QED
        BY <4>1, <4>2
    <3>5. DeadWereStored'
      BY <1>0, <1>3, <3>1, <3>3 DEF RefInv, DeadWereStored, TypeOK
    <3>6. NoDeadReference'
      BY <1>0, <1>3, <3>1, <3>3 DEF RefInv, NoDeadReference, TypeOK
    <3>7. \A i \in ResponseIds : origin[i] # NoScope => origin'[i] = origin[i]
      BY <1>0, <3>1 DEF TypeOK
    <3> QED
      BY <3>4, <3>5, <3>6, <3>7
  <2> QED
    BY <2>1, <2>2
<1> QED
  BY <1>1, <1>2, <1>3 DEF SessionStep, u

(* Every step keeps the invariant.                                         *)
LEMMA NextRef == RefInv /\ [Next]_vars => RefInv'
<1> SUFFICES ASSUME RefInv, [Next]_vars PROVE RefInv'
  OBVIOUS
<1>0. TypeOK /\ TypeOK'
  BY NextTyping DEF RefInv
<1>1. ASSUME NEW t \in Turns, TurnStep(t) \/ ClientGone(t) PROVE RefInv'
  <2>1. PICK v : Moves(t, v)
    BY <1>0, <1>1, TurnShape
  <2>2. SessionStep(t)
    BY <1>0, <1>1, SharedShape
  <2>3. /\ StoredInScope' /\ DeadWereStored' /\ NoDeadReference'
        /\ \A id \in ResponseIds : origin[id] # NoScope => origin'[id] = origin[id]
    BY <2>2, SessionRef
  <2>4. DeltaStaysInScope'
    <3> SUFFICES ASSUME NEW w \in Turns, turn'[w].prev # NoId
                 PROVE  origin'[turn'[w].prev] = Scope(turn'[w])
      BY DEF DeltaStaysInScope, Scope
    <3>1. \A x \in Turns : /\ Scope(turn[x]) \in Scopes
                           /\ turn[x].prev \in ResponseIds \cup {NoId}
      BY <1>0, TurnTyping DEF TurnRecords
    <3>2. CASE w # t
      <4>1. turn'[w] = turn[w]
        BY <1>0, <2>1, <3>2 DEF Moves, TypeOK
      <4>2. origin[turn[w].prev] = Scope(turn[w])
        BY <4>1 DEF RefInv, DeltaStaysInScope
      <4> QED
        BY <2>3, <3>1, <4>1, <4>2, SentinelAssumption
    <3>3. CASE w = t
      <4>1. turn'[t] = v /\ Scope(v) = Scope(turn[t])
        BY <1>0, <2>1 DEF Moves, TypeOK, Scope
      <4>2. v.prev \in ResponseIds /\ origin[v.prev] = Scope(turn[t])
        <5>1. CASE v.prev = turn[t].prev
          BY <3>1, <3>3, <4>1, <5>1 DEF RefInv, DeltaStaysInScope
        <5>2. CASE v.prev \in ScopeIds(turn[t])
          BY <1>0, <5>2 DEF RefInv, StoredInScope, ScopeIds, TypeOK
        <5> QED
          BY <2>1, <3>3, <4>1, <5>1, <5>2 DEF Moves
      <4> QED
        BY <2>3, <3>1, <3>3, <4>1, <4>2, SentinelAssumption
    <3> QED
      BY <3>2, <3>3
  <2> QED
    BY <1>0, <2>3, <2>4 DEF RefInv
<1>2. CASE CooldownEnds \/ UserSetsReuse \/ UNCHANGED vars
  <2>1. UNCHANGED <<turn, session, origin, dead>>
    BY <1>0, <1>2, AroundShape
  <2> QED
    BY <1>0, <2>1 DEF RefInv, StoredInScope, DeadWereStored, NoDeadReference,
                      DeltaStaysInScope, Scope
<1> QED
  BY <1>1, <1>2 DEF Next

(* The invariant behind the two theorems below.                            *)
LEMMA RefInvariant == Spec => []RefInv
  BY InitRef, NextRef, PTL DEF Spec

(* No session ever holds a reference again that clear_response_session_    *)
(* reference dropped, whatever the turns that held it at the time store.   *)
THEOREM DeadReferencesStayAway == Spec => []NoDeadReference
<1>1. RefInv => NoDeadReference
  BY DEF RefInv
<1> QED
  BY RefInvariant, <1>1, PTL

(* No turn continues a response of another agent, user or target.          *)
THEOREM DeltasStayInScope == Spec => []DeltaStaysInScope
<1>1. RefInv => DeltaStaysInScope
  BY DEF RefInv
<1> QED
  BY RefInvariant, <1>1, PTL

(***************************************************************************)
(* The ladder: how many calls a turn makes, on which wire, and what it may *)
(* then teach.  All of it follows from where the turn stands on the        *)
(* ladder, and from what kept the rungs it passed from being taken twice.  *)
(***************************************************************************)

(* The calls made by the time a rung is passed.  A delta is a stream, and  *)
(* a sync request is none: rung 2 is not for those of rungs 3 and 4.  Who  *)
(* fell to chat at 3 does not come back at 4; who sent the full body at 6  *)
(* has no reference left to strip at 8.  So each of 2..4 and of 6..8 adds  *)
(* one call at most.                                                       *)
OnTheLadder(u) ==
  /\ u.pc \in {"idle", "gate", "compose"} => u.sends = 0 /\ u.rung = 0
  /\ u.rung = 0 => u.sends <= 1
  /\ u.rung = 1 => u.sends <= 2
  /\ u.rung = 2 => u.sends <= 3 /\ u.delta
  /\ u.rung = 3 => u.sends <= 3 /\ u.fellBack
  /\ u.rung = 4 => u.sends <= 3
  /\ u.rung = 5 => u.sends <= 4
  /\ u.rung = 6 => u.prev = NoId /\ ~u.req.chained
  /\ u.rung = 7 => Agent(u)
  /\ u.sends <= 5

(* The effort is lowered by an agent's turn, at rung 7, and once.          *)
LowersOnce(u) ==
  /\ Agent(u) => u.sends <= IF u.lowered THEN 2 ELSE 1
  /\ u.lowered => Agent(u) /\ u.rung \in {7, 8}

(* Which turns are on the chat wire, hold a delta or still teach.          *)
OnItsWire(u) ==
  /\ u.wire = "chat" => SyncMain(u)
  /\ u.delta => u.req.native /\ u.req.stream /\ ~u.req.chained
  /\ u.prev # NoId => u.wire = "direct" /\ u.req.native /\ ~u.req.chained
  /\ u.learn # NoAnchor => u.wire = "direct" /\ ~u.lowered

(* A one-shot delta is the only call, and it was sent with a reference: so *)
(* the rung that strips one sees a verified delta and leaves it alone.     *)
SingleShot(u) ==
  /\ u.delta => u.sends > 1 \/ (u.sends = 1 /\ u.prev # NoId)
  /\ u.oneShot => u.sends = 1 /\ u.delta /\ VerifiedThirdParty(u)

Climber(u) == OnTheLadder(u) /\ LowersOnce(u) /\ OnItsWire(u) /\ SingleShot(u)

LadderInv == TypeOK /\ \A t \in Turns : Climber(turn[t])

(* The numbers of a turn, and what a request with a defaulted stream is.   *)
LEMMA ClimberTyping ==
  ASSUME TypeOK, NEW t \in Turns
  PROVE  /\ turn[t] \in TurnRecords
         /\ turn[t].sends \in Nat /\ turn[t].rung \in 0..8 /\ turn[t].status \in Codes
         /\ turn[t].wire \in {"direct", "chat"}
         /\ turn[t].req.defaulted => Agent(turn[t])
BY TurnTyping, RequestAssumption DEF TurnRecords, Rungs, Agent, Scope

(* What a turn is does not change while its request and snapshot stay.     *)
LEMMA SameTurn ==
  ASSUME NEW u, NEW v, v.req = u.req
  PROVE  /\ Agent(v) = Agent(u) /\ SyncMain(v) = SyncMain(u)
         /\ v.verified = u.verified => VerifiedThirdParty(v) = VerifiedThirdParty(u)
BY DEF Agent, SyncMain, VerifiedThirdParty, Target, Scope

(* What moving on leaves as it was ...                                     *)
StaysOn(u, v) ==
  /\ v.req = u.req /\ v.sends = u.sends /\ v.wire = u.wire /\ v.prev = u.prev
  /\ v.delta = u.delta /\ v.fellBack = u.fellBack /\ v.lowered = u.lowered /\ v.learn = u.learn

(* ... and what sending again at rung k does.                              *)
Again(u, v, k) ==
  /\ v.pc = "sent" /\ v.rung = k /\ v.sends = u.sends + 1
  /\ v.req = u.req /\ v.verified = u.verified /\ v.delta = u.delta /\ v.oneShot = u.oneShot

(* Before the first call, and with it.                                     *)
LEMMA PrepareClimbs ==
  ASSUME TypeOK, NEW t \in Turns, Climber(turn[t]), Prepare(t)
  PROVE  Climber(turn'[t])
<1> DEFINE u == turn[t]
           v == turn'[t]
<1>0. u \in TurnRecords /\ u.sends \in Nat /\ Climber(u)
  BY ClimberTyping
<1>1. CASE Accept(t)
  <2>1. StaysOn(u, v) /\ v.pc = "gate" /\ v.rung = u.rung /\ v.oneShot = u.oneShot /\ u.pc = "idle"
    BY <1>0, <1>1 DEF TypeOK, Accept, TurnRecords, StaysOn
  <2> HIDE DEF u, v
  <2>2. Climber(v)
    BY <1>0, <2>1, SameTurn DEF Climber, OnTheLadder, LowersOnce, OnItsWire, SingleShot, StaysOn
  <2> QED
    BY <2>2 DEF v
<1>2. CASE Gate(t) \/ EndLocally(t)
  <2>1. ASSUME Gate(t)
        PROVE  /\ StaysOn(u, v) /\ v.pc \in {"compose", "done"} /\ v.rung = u.rung
               /\ v.oneShot = u.oneShot /\ v.verified = u.verified /\ u.pc = "gate"
    BY <1>0, <2>1 DEF TypeOK, Gate, TurnRecords, StaysOn
  <2>2. ASSUME EndLocally(t)
        PROVE  /\ StaysOn(u, v) /\ v.pc = "done" /\ v.rung = u.rung
               /\ v.oneShot = u.oneShot /\ v.verified = u.verified /\ u.pc = "gate"
    BY <1>0, <2>2 DEF TypeOK, EndLocally, TurnRecords, StaysOn
  <2>3. /\ StaysOn(u, v) /\ v.pc \in {"compose", "done"} /\ v.rung = u.rung
        /\ v.oneShot = u.oneShot /\ v.verified = u.verified /\ u.pc = "gate"
    BY <1>2, <2>1, <2>2
  <2> HIDE DEF u, v
  <2>4. Climber(v)
    BY <1>0, <2>3, SameTurn DEF Climber, OnTheLadder, LowersOnce, OnItsWire, SingleShot, StaysOn
  <2> QED
    BY <2>4 DEF v
<1>3. CASE Compose(t)
  <2> DEFINE chat == SyncMain(u) /\ u.req.compact /\ Target(u) \notin chatCooled
  <2>1. PICK id \in {NoId} \cup (IF MayDelta(u) THEN OwnId(u) ELSE {}) :
          /\ v.pc = "sent" /\ v.rung = 0 /\ v.sends = u.sends + 1
          /\ v.req = u.req /\ v.verified = u.verified /\ v.oneShot = u.oneShot
          /\ v.prev = id /\ v.delta = (id # NoId)
          /\ v.wire = IF chat THEN "chat" ELSE "direct"
          /\ v.learn = IF chat THEN NoAnchor ELSE u.req.anchor
          /\ v.lowered = u.lowered /\ v.fellBack = u.fellBack
    BY <1>0, <1>3 DEF TypeOK, Compose, Resent, TurnRecords
  <2>2. u.pc = "compose"
    BY <1>3 DEF Compose
  <2>3. id # NoId => u.req.native /\ u.req.stream /\ ~u.req.chained
    BY DEF MayDelta
  <2>4. \/ SyncMain(u) /\ v.wire = "chat" /\ v.learn = NoAnchor
        \/ v.wire = "direct"
    BY <2>1
  <2>5. v.delta => v.prev # NoId
    BY <2>1
  <2> HIDE DEF u, v, chat
  <2>6. v.prev # NoId => u.req.native /\ u.req.stream /\ ~u.req.chained
    BY <2>1, <2>3
  <2>7. ~u.lowered /\ ~u.oneShot /\ u.sends = 0
    BY <1>0, <2>2 DEF Climber, OnTheLadder, LowersOnce, SingleShot
  <2>8. OnTheLadder(v) /\ LowersOnce(v)
    BY <2>1, <2>7, SameTurn DEF OnTheLadder, LowersOnce
  <2>9. OnItsWire(v) /\ SingleShot(v)
    BY <2>1, <2>4, <2>5, <2>6, <2>7, SameTurn DEF OnItsWire, SingleShot, SyncMain
  <2> QED
    BY <2>8, <2>9 DEF v, Climber
<1> QED
  BY <1>1, <1>2, <1>3 DEF Prepare

(* The answers of the upstream.                                            *)
LEMMA UpstreamClimbs ==
  ASSUME TypeOK, NEW t \in Turns, Climber(turn[t]), Upstream(t)
  PROVE  Climber(turn'[t])
<1> DEFINE u == turn[t]
           v == turn'[t]
<1>0. u \in TurnRecords /\ u.sends \in Nat /\ Climber(u)
  BY ClimberTyping
<1>1. CASE Answer(t)
  <2>1. /\ StaysOn(u, v) /\ v.pc = "judge" /\ v.rung = u.rung /\ v.verified = u.verified
        /\ v.oneShot = IF u.sends = 1 THEN u.delta /\ VerifiedThirdParty(u) ELSE u.oneShot
    BY <1>0, <1>1 DEF TypeOK, Answer, TurnRecords, StaysOn
  <2>2. v.oneShot => u.oneShot \/ (u.sends = 1 /\ u.delta /\ VerifiedThirdParty(u))
    BY <2>1
  <2> HIDE DEF u, v
  <2>3. OnTheLadder(v) /\ LowersOnce(v) /\ OnItsWire(v)
    BY <1>0, <2>1, SameTurn DEF Climber, OnTheLadder, LowersOnce, OnItsWire, StaysOn
  <2>4. SingleShot(v)
    BY <1>0, <2>1, <2>2, SameTurn DEF Climber, SingleShot, StaysOn
  <2> QED
    BY <2>3, <2>4 DEF v, Climber
<1>2. CASE TransportFails(t)
  <2>1. /\ StaysOn(u, v) /\ v.pc = "done" /\ v.rung = u.rung /\ v.verified = u.verified
        /\ v.oneShot = u.oneShot
    BY <1>0, <1>2 DEF TypeOK, TransportFails, TurnRecords, StaysOn
  <2> HIDE DEF u, v
  <2>2. Climber(v)
    BY <1>0, <2>1, SameTurn DEF Climber, OnTheLadder, LowersOnce, OnItsWire, SingleShot, StaysOn
  <2> QED
    BY <2>2 DEF v
<1> QED
  BY <1>1, <1>2 DEF Upstream

(* The end of a turn changes none of what the invariant speaks of.         *)
LEMMA FinishClimbs ==
  ASSUME TypeOK, NEW t \in Turns, Climber(turn[t]), Finish(t) \/ Relay(t) \/ ClientGone(t)
  PROVE  Climber(turn'[t])
<1> DEFINE u == turn[t]
           v == turn'[t]
<1>0. u \in TurnRecords /\ u.sends \in Nat /\ Climber(u)
  BY ClimberTyping
<1>1. /\ StaysOn(u, v) /\ v.pc \in {"relay", "done", "gone"} /\ v.rung = u.rung
      /\ v.verified = u.verified /\ v.oneShot = u.oneShot
  <2>1. CASE StartRelay(t)
    BY <1>0, <2>1 DEF TypeOK, StartRelay, TurnRecords, StaysOn
  <2>2. CASE Complete(t)
    BY <1>0, <2>2 DEF TypeOK, Complete, TurnRecords, StaysOn
  <2>3. CASE Fail(t)
    BY <1>0, <2>3 DEF TypeOK, Fail, TurnRecords, StaysOn
  <2>4. CASE BodyLost(t)
    BY <1>0, <2>4 DEF TypeOK, BodyLost, TurnRecords, StaysOn
  <2>5. CASE Relay(t)
    <3>1. turn' = [turn EXCEPT ![t].pc = "done"]
      BY <2>5 DEF Relay, RelayCompletes, RelayBreaks, RelayRejects
    <3> QED
      BY <1>0, <3>1 DEF TypeOK, TurnRecords, StaysOn
  <2>6. CASE ClientGone(t)
    BY <1>0, <2>6 DEF TypeOK, ClientGone, TurnRecords, StaysOn
  <2> QED
    BY <2>1, <2>2, <2>3, <2>4, <2>5, <2>6 DEF Finish
<1> HIDE DEF u, v
<1>2. Climber(v)
  BY <1>0, <1>1, SameTurn DEF Climber, OnTheLadder, LowersOnce, OnItsWire, SingleShot, StaysOn
<1> QED
  BY <1>2 DEF v

(* The rungs: each by the guard that opens it.                             *)
LEMMA RungsClimb ==
  ASSUME TypeOK, NEW t \in Turns, Climber(turn[t]), Climb(t)
  PROVE  Climber(turn'[t])
<1> DEFINE u == turn[t]
           v == turn'[t]
<1>0. /\ u \in TurnRecords /\ u.sends \in Nat /\ u.rung \in 0..8
      /\ u.wire \in {"direct", "chat"}
      /\ u.req.defaulted => Agent(u)
      /\ Climber(u)
  BY ClimberTyping
<1>1. CASE Decline(t)
  <2>1. PICK k \in {1, 5, 7, 8} :
          /\ StaysOn(u, v) /\ v.pc = u.pc /\ v.rung = k
          /\ v.verified = u.verified /\ v.oneShot = u.oneShot
          /\ Due(u, k)
    BY <1>0, <1>1 DEF TypeOK, Decline, TurnRecords, StaysOn
  <2>2. u.pc = "judge" /\ u.rung < k /\ (k = 7 => Agent(u))
    BY <2>1 DEF Due, Applies, LowerEffort
  <2> HIDE DEF u, v
  <2>3. Climber(v)
    BY <1>0, <2>1, <2>2, SameTurn DEF Climber, OnTheLadder, LowersOnce, OnItsWire, SingleShot, StaysOn
  <2> QED
    BY <2>3 DEF v
<1>2. CASE TryAnotherKey(t)
  <2>1. /\ Again(u, v, 1) /\ v.wire = u.wire /\ v.prev = u.prev /\ v.learn = u.learn
        /\ v.fellBack = u.fellBack /\ v.lowered = u.lowered
    BY <1>0, <1>2 DEF TypeOK, TryAnotherKey, Resent, TurnRecords, Again
  <2>2. u.rung < 1 /\ KeyFailover(u)
    BY <1>2 DEF TryAnotherKey, Due, Applies
  <2> HIDE DEF u, v
  <2>3. Climber(v)
    BY <1>0, <2>1, <2>2, SameTurn
       DEF Climber, OnTheLadder, LowersOnce, OnItsWire, SingleShot, Again, KeyFailover, MayRetry
  <2> QED
    BY <2>3 DEF v
<1>3. CASE RetryFull(t)
  <2>1. /\ Again(u, v, 2) /\ v.wire = u.wire /\ v.prev = NoId
        /\ v.fellBack = u.fellBack /\ v.lowered = u.lowered
    BY <1>0, <1>3 DEF TypeOK, RetryFull, Resent, TurnRecords, Again
  <2>2. u.rung < 2 /\ FullRetry(u)
    BY <1>3 DEF RetryFull, Due, Applies
  <2> HIDE DEF u, v
  <2>3. Climber(v)
    BY <1>0, <2>1, <2>2, SameTurn
       DEF Climber, OnTheLadder, LowersOnce, OnItsWire, SingleShot, Again, FullRetry, MayRetry, SyncMain
  <2> QED
    BY <2>3 DEF v
<1>4. CASE SendOverChat(t)
  <2>1. /\ Again(u, v, 3) /\ v.wire = "chat" /\ v.prev = NoId /\ v.learn = NoAnchor
        /\ v.fellBack = TRUE /\ v.lowered = u.lowered
    BY <1>0, <1>4 DEF TypeOK, SendOverChat, Resent, TurnRecords, Again
  <2>2. u.rung < 3 /\ OverChat(u)
    BY <1>4 DEF SendOverChat, Due, Applies
  <2> HIDE DEF u, v
  <2>3. Climber(v)
    BY <1>0, <2>1, <2>2, SameTurn
       DEF Climber, OnTheLadder, LowersOnce, OnItsWire, SingleShot, Again, OverChat, MayRetry, RetryGuard, SyncMain
  <2> QED
    BY <2>3 DEF v
<1>5. CASE ReturnToResponses(t)
  <2>1. /\ Again(u, v, 4) /\ v.wire = "direct" /\ v.prev = NoId /\ v.learn = u.learn
        /\ v.lowered = u.lowered
    BY <1>0, <1>5 DEF TypeOK, ReturnToResponses, Resent, TurnRecords, Again
  <2>2. u.rung < 4 /\ BackToResponses(u)
    BY <1>5 DEF ReturnToResponses, Due, Applies
  <2> HIDE DEF u, v
  <2>3. Climber(v)
    BY <1>0, <2>1, <2>2, SameTurn
       DEF Climber, OnTheLadder, LowersOnce, OnItsWire, SingleShot, Again, BackToResponses, MayRetry, SyncMain
  <2> QED
    BY <2>3 DEF v
<1>6. CASE RescueTooLarge(t)
  <2>1. /\ Again(u, v, 5) /\ v.wire = u.wire /\ v.learn = u.learn /\ ~u.req.chained
        /\ v.fellBack = u.fellBack /\ v.lowered = u.lowered
    BY <1>0, <1>6 DEF TypeOK, RescueTooLarge, Resent, TurnRecords, Again
  <2>2. u.rung < 5 /\ Rescue(u)
    BY <1>6 DEF RescueTooLarge, Due, Applies
  <2> HIDE DEF u, v
  <2>3. Climber(v)
    BY <1>0, <2>1, <2>2, SameTurn
       DEF Climber, OnTheLadder, LowersOnce, OnItsWire, SingleShot, Again, Rescue, MayRetry
  <2> QED
    BY <2>3 DEF v
<1>7. CASE RetryFullAfterRescue(t)
  <2>1. /\ Again(u, v, 6) /\ v.wire = u.wire /\ v.prev = NoId
        /\ v.fellBack = u.fellBack /\ v.lowered = u.lowered
    BY <1>0, <1>7 DEF TypeOK, RetryFullAfterRescue, Resent, TurnRecords, Again
  <2>2. u.rung < 6 /\ FullAfterRescue(u)
    BY <1>7 DEF RetryFullAfterRescue, Due, Applies
  <2> HIDE DEF u, v
  <2>3. Climber(v)
    BY <1>0, <2>1, <2>2, SameTurn
       DEF Climber, OnTheLadder, LowersOnce, OnItsWire, SingleShot, Again, FullAfterRescue, MayRetry
  <2> QED
    BY <2>3 DEF v
<1>8. CASE LowerTheEffort(t)
  <2>1. /\ Again(u, v, 7) /\ v.wire = u.wire /\ v.prev = u.prev /\ v.learn = NoAnchor
        /\ v.fellBack = u.fellBack /\ v.lowered = TRUE
    BY <1>0, <1>8 DEF TypeOK, LowerTheEffort, Resent, TurnRecords, Again
  <2>2. u.rung < 7 /\ LowerEffort(u)
    BY <1>8 DEF LowerTheEffort, Due, Applies
  <2> HIDE DEF u, v
  <2>3. Climber(v)
    BY <1>0, <2>1, <2>2, SameTurn
       DEF Climber, OnTheLadder, LowersOnce, OnItsWire, SingleShot, Again, LowerEffort
  <2> QED
    BY <2>3 DEF v
<1>10. CASE StripReference(t)
  <2>1. /\ Again(u, v, 8) /\ v.wire = u.wire /\ v.prev = NoId /\ v.learn = u.learn
        /\ v.fellBack = u.fellBack /\ v.lowered = u.lowered
        /\ ~VerifiedDeltaRejected(u) /\ MayRetry(u)
    BY <1>0, <1>10 DEF TypeOK, StripReference, Resent, TurnRecords, Again
  <2>2. u.rung < 8 /\ WithoutReference(u)
    BY <1>10 DEF StripReference, Due, Applies
  <2> HIDE DEF u, v
  <2>3. Climber(v)
    BY <1>0, <2>1, <2>2, SameTurn
       DEF Climber, OnTheLadder, LowersOnce, OnItsWire, SingleShot, Again, WithoutReference, MayRetry, HasPrevious, VerifiedDeltaRejected
  <2> QED
    BY <2>3 DEF v
<1>9. CASE RejectVerifiedDelta(t)
  <2>1. /\ StaysOn(u, v) /\ v.pc = "judge" /\ v.rung = 8
        /\ v.verified = u.verified /\ v.oneShot = u.oneShot
    BY <1>0, <1>9 DEF TypeOK, RejectVerifiedDelta, Due, TurnRecords, StaysOn
  <2> HIDE DEF u, v
  <2>2. Climber(v)
    BY <1>0, <2>1, SameTurn DEF Climber, OnTheLadder, LowersOnce, OnItsWire, SingleShot, StaysOn
  <2> QED
    BY <2>2 DEF v
<1> QED
  BY <1>1, <1>2, <1>3, <1>4, <1>5, <1>6, <1>7, <1>8, <1>9, <1>10 DEF Climb

(* A turn begins at the foot of the ladder.                                *)
LEMMA InitLadder == Init => LadderInv
<1> SUFFICES ASSUME Init, NEW t \in Turns PROVE Climber(turn[t])
  BY InitTyping DEF LadderInv
<1>1. PICK r \in Requests : turn[t] = NewTurn(r)
  BY DEF Init
<1> QED
  BY <1>1 DEF NewTurn, Climber, OnTheLadder, LowersOnce, OnItsWire, SingleShot

(* Every step keeps the invariant: it concerns one turn.                   *)
LEMMA NextLadder == LadderInv /\ [Next]_vars => LadderInv'
<1> SUFFICES ASSUME LadderInv, [Next]_vars, NEW w \in Turns PROVE Climber(turn[w])'
  BY NextTyping DEF LadderInv
<1>0. TypeOK /\ Climber(turn[w])
  BY DEF LadderInv
<1>1. ASSUME NEW t \in Turns, TurnStep(t) \/ ClientGone(t) PROVE Climber(turn'[w])
  <2>1. CASE w = t
    BY <1>0, <1>1, <2>1, PrepareClimbs, UpstreamClimbs, RungsClimb, FinishClimbs DEF TurnStep
  <2>2. CASE w # t
    <3>1. PICK v : Moves(t, v)
      BY <1>0, <1>1, TurnShape
    <3>2. turn'[w] = turn[w]
      BY <1>0, <2>2, <3>1 DEF Moves, TypeOK
    <3> QED
      BY <1>0, <3>2
  <2> QED
    BY <2>1, <2>2
<1>2. CASE CooldownEnds \/ UserSetsReuse \/ UNCHANGED vars
  <2>1. UNCHANGED turn
    BY <1>0, <1>2, AroundShape
  <2> QED
    BY <1>0, <2>1
<1>3. Climber(turn'[w])
  BY <1>1, <1>2 DEF Next
<1> QED
  BY <1>3 DEF Climber, OnTheLadder, LowersOnce, OnItsWire, SingleShot, Agent, SyncMain,
              VerifiedThirdParty, Target, Scope

(* The invariant behind the theorems of the ladder.                        *)
LEMMA LadderInvariant == Spec => []LadderInv
  BY InitLadder, NextLadder, PTL DEF Spec

(* A turn makes at most five upstream calls, whatever the answers.         *)
THEOREM CallsAreBounded == Spec => []RecoveryBudget
<1>1. LadderInv => RecoveryBudget
  BY DEF LadderInv, Climber, OnTheLadder, RecoveryBudget
<1> QED
  BY LadderInvariant, <1>1, PTL

(* An agent's turn is sent again only with a lowered effort, and once.     *)
THEOREM AgentsRetryOnlyEffort == Spec => []AgentRetriesOnlyEffort
<1>1. LadderInv => AgentRetriesOnlyEffort
  BY DEF LadderInv, Climber, LowersOnce, AgentRetriesOnlyEffort
<1> QED
  BY LadderInvariant, <1>1, PTL

(* No second call follows the delta of a verified third party.             *)
THEOREM VerifiedDeltasAreOneShot == Spec => []OneShotDelta
<1>1. LadderInv => OneShotDelta
  BY DEF LadderInv, Climber, SingleShot, OneShotDelta
<1> QED
  BY LadderInvariant, <1>1, PTL

(* A session delta is on the Responses wire, in a turn whose client did    *)
(* not chain the conversation, also where a rescue added it.               *)
THEOREM DeltasStayOnResponses == Spec => []DeltaStaysOnResponses
<1>1. LadderInv => DeltaStaysOnResponses
  BY DEF LadderInv, Climber, OnItsWire, DeltaStaysOnResponses
<1> QED
  BY LadderInvariant, <1>1, PTL

(* The prefix tables learn only from the body their key was computed from. *)
THEOREM LearningIsFromTheTurnsBody == Spec => []LearnsFromItsOwnBody
<1>1. LadderInv => LearnsFromItsOwnBody
  BY DEF LadderInv, Climber, OnItsWire, LearnsFromItsOwnBody
<1> QED
  BY LadderInvariant, <1>1, PTL

(***************************************************************************)
(* The ladder implements the contract of InboundTurn: what a step does to  *)
(* the phase, the calls and the answer of its turn is a step of the        *)
(* contract or none.                                                       *)
(***************************************************************************)

(* The phases of the contract, one for each pc.                            *)
LEMMA ContractPhases ==
  ASSUME NEW u
  PROVE  /\ u.pc = "idle" => ContractPhase[u.pc] = "new"
         /\ u.pc = "sent" => ContractPhase[u.pc] = "calling"
         /\ u.pc \in {"done", "gone"} => ContractPhase[u.pc] = "closed"
         /\ u.pc \in {"gate", "compose", "judge", "relay"} => ContractPhase[u.pc] = "open"
BY DEF ContractPhase

(* The statuses that open a rung are not those of a successful answer.     *)
LEMMA RungsAfterFailures ==
  ASSUME NEW u, NEW k \in 1..8, Applies(u, k)
  PROVE  ~Success(u.status)
BY DEF Applies, Success, KeyFailover, FullRetry, OverChat, BackToResponses, Rescue,
       FullAfterRescue, LowerEffort, WithoutReference, KeyRejected, DeltaRejected,
       SyncMainBroken, ChatBroken

(* What a step does to the pc, the calls and the status of its turn.       *)
Calling(u, v) ==
  /\ u.pc = "compose" \/ (u.pc = "judge" /\ ~Success(u.status))
  /\ v.pc = "sent" /\ v.sends = u.sends + 1

Closing(u, v) ==
  /\ u.pc \in {"gate", "compose", "sent", "judge", "relay"}
  /\ v.pc \in {"done", "gone"} /\ v.sends = u.sends

MovingOn(u, v) ==
  /\ \/ u.pc = "idle" /\ v.pc = "gate"
     \/ u.pc = "gate" /\ v.pc = "compose"
     \/ u.pc = "sent" /\ v.pc = "judge"
     \/ u.pc = "judge" /\ v.pc \in {"judge", "relay"} /\ v.status = u.status
  /\ v.sends = u.sends

(* Before and with the first call, and its answer.                         *)
LEMMA EarlyMoves ==
  ASSUME TypeOK, NEW t \in Turns, Prepare(t) \/ Upstream(t)
  PROVE  LET u == turn[t]
             v == turn'[t]
         IN  Calling(u, v) \/ Closing(u, v) \/ MovingOn(u, v)
<1>0. turn[t] \in TurnRecords /\ turn \in [Turns -> TurnRecords]
  BY ClimberTyping DEF TypeOK
<1>1. CASE Accept(t)
  BY <1>0, <1>1 DEF Accept, TurnRecords, MovingOn
<1>2. CASE Gate(t)
  BY <1>0, <1>2 DEF Gate, TurnRecords, MovingOn, Closing
<1>3. CASE EndLocally(t)
  BY <1>0, <1>3 DEF EndLocally, TurnRecords, Closing
<1>4. CASE Compose(t)
  BY <1>0, <1>4 DEF Compose, Resent, TurnRecords, Calling
<1>5. CASE Answer(t)
  BY <1>0, <1>5 DEF Answer, TurnRecords, MovingOn
<1>6. CASE TransportFails(t)
  BY <1>0, <1>6 DEF TransportFails, TurnRecords, Closing
<1> QED
  BY <1>1, <1>2, <1>3, <1>4, <1>5, <1>6 DEF Prepare, Upstream

(* A rung is passed or calls again; it calls after a failure only.         *)
LEMMA RungMoves ==
  ASSUME TypeOK, NEW t \in Turns, Climb(t)
  PROVE  LET u == turn[t]
             v == turn'[t]
         IN  Calling(u, v) \/ MovingOn(u, v)
<1> DEFINE u == turn[t]
           v == turn'[t]
<1>0. turn[t] \in TurnRecords /\ turn \in [Turns -> TurnRecords]
  BY ClimberTyping DEF TypeOK
<1>1. CASE Decline(t)
  BY <1>0, <1>1 DEF Decline, Due, TurnRecords, MovingOn
<1>2. CASE RejectVerifiedDelta(t)
  BY <1>0, <1>2 DEF RejectVerifiedDelta, Due, TurnRecords, MovingOn
<1>3. ASSUME NEW k \in 1..8, Due(u, k), v.pc = "sent", v.sends = u.sends + 1
      PROVE  Calling(u, v)
  BY <1>3, RungsAfterFailures DEF Due, Calling
<1>4. CASE TryAnotherKey(t)
  BY <1>0, <1>4, <1>3 DEF TryAnotherKey, Resent, TurnRecords
<1>5. CASE RetryFull(t)
  BY <1>0, <1>5, <1>3 DEF RetryFull, Resent, TurnRecords
<1>6. CASE SendOverChat(t)
  BY <1>0, <1>6, <1>3 DEF SendOverChat, Resent, TurnRecords
<1>7. CASE ReturnToResponses(t)
  BY <1>0, <1>7, <1>3 DEF ReturnToResponses, Resent, TurnRecords
<1>8. CASE RescueTooLarge(t)
  BY <1>0, <1>8, <1>3 DEF RescueTooLarge, Resent, TurnRecords
<1>9. CASE RetryFullAfterRescue(t)
  BY <1>0, <1>9, <1>3 DEF RetryFullAfterRescue, Resent, TurnRecords
<1>10. CASE LowerTheEffort(t)
  BY <1>0, <1>10, <1>3 DEF LowerTheEffort, Resent, TurnRecords
<1>11. CASE StripReference(t)
  BY <1>0, <1>11, <1>3 DEF StripReference, Resent, TurnRecords
<1> QED
  BY <1>1, <1>2, <1>4, <1>5, <1>6, <1>7, <1>8, <1>9, <1>10, <1>11 DEF Climb

(* A turn ends, or hands its answer to the relay.                          *)
LEMMA FinishMoves ==
  ASSUME TypeOK, NEW t \in Turns, Finish(t) \/ Relay(t) \/ ClientGone(t)
  PROVE  LET u == turn[t]
             v == turn'[t]
         IN  Closing(u, v) \/ MovingOn(u, v)
<1>0. turn[t] \in TurnRecords /\ turn \in [Turns -> TurnRecords]
  BY ClimberTyping DEF TypeOK
<1>1. CASE StartRelay(t)
  BY <1>0, <1>1 DEF StartRelay, Settled, TurnRecords, MovingOn
<1>2. CASE Complete(t)
  BY <1>0, <1>2 DEF Complete, Settled, TurnRecords, Closing
<1>3. CASE Fail(t)
  BY <1>0, <1>3 DEF Fail, Settled, TurnRecords, Closing
<1>4. CASE BodyLost(t)
  BY <1>0, <1>4 DEF BodyLost, TurnRecords, Closing
<1>5. CASE Relay(t)
  <2>1. turn[t].pc = "relay" /\ turn' = [turn EXCEPT ![t].pc = "done"]
    BY <1>5 DEF Relay, RelayCompletes, RelayBreaks, RelayRejects
  <2> QED
    BY <1>0, <2>1 DEF TurnRecords, Closing
<1>6. CASE ClientGone(t)
  BY <1>0, <1>6 DEF ClientGone, TurnRecords, Closing
<1> QED
  BY <1>1, <1>2, <1>3, <1>4, <1>5, <1>6 DEF Finish

(* So a step of a turn is a step of the contract, or none: the calls stay  *)
(* within the budget because the turn after the step is still a climber.   *)
LEMMA TurnContract ==
  ASSUME LadderInv, LadderInv', NEW t \in Turns, TurnStep(t) \/ ClientGone(t)
  PROVE  [Inbound!Next]_(Inbound!vars)
<1> DEFINE u == turn[t]
           v == turn'[t]
<1>0. TypeOK /\ Climber(u) /\ Climber(v)
  BY DEF LadderInv
<1>1. \A w \in Turns \ {t} : turn'[w] = turn[w]
  <2>1. PICK x : Moves(t, x)
    BY <1>0, TurnShape
  <2> QED
    BY <1>0, <2>1 DEF Moves, TypeOK
<1>2. v.req = u.req
  <2>1. PICK x : Moves(t, x)
    BY <1>0, TurnShape
  <2> QED
    BY <1>0, <2>1 DEF Moves, TypeOK
<1>3. Calling(u, v) \/ Closing(u, v) \/ MovingOn(u, v)
  BY <1>0, EarlyMoves, RungMoves, FinishMoves DEF TurnStep
<1>4. [x \in Turns |-> Agent(turn'[x])] = [x \in Turns |-> Agent(turn[x])]
  BY <1>1, <1>2, SameTurn
<1>5. CASE Calling(u, v)
  <2>1. /\ ContractPhase[u.pc] = "open" /\ ContractPhase[v.pc] = "calling"
        /\ ~WellAnswered(u) /\ ~WellAnswered(v)
    BY <1>5, ContractPhases DEF Calling, WellAnswered
  <2>2. u.sends < IF Agent(u) THEN 2 ELSE 5
    BY <1>0, <1>2, <1>5, ClimberTyping, SameTurn DEF Calling, Climber, OnTheLadder, LowersOnce
  <2>3. Inbound!Call(t)
    BY <1>1, <1>4, <1>5, <2>1, <2>2 DEF Inbound!Call, Inbound!Budget, Calling, WellAnswered, Success, Agent, Scope
  <2> QED
    BY <2>3 DEF Inbound!Next
<1>6. CASE Closing(u, v)
  <2>1. /\ ContractPhase[u.pc] \in {"open", "calling"} /\ ContractPhase[v.pc] = "closed"
        /\ ~WellAnswered(v) /\ v.sends = u.sends
    BY <1>6, ContractPhases DEF Closing, WellAnswered
  <2>2. Inbound!Close(t)
    BY <1>1, <1>4, <2>1 DEF Inbound!Close, WellAnswered, Success, Agent, Scope
  <2> QED
    BY <2>2 DEF Inbound!Next
<1>7. CASE MovingOn(u, v) /\ u.pc = "idle"
  <2>1. /\ ContractPhase[u.pc] = "new" /\ ContractPhase[v.pc] = "open"
        /\ ~WellAnswered(u) /\ ~WellAnswered(v) /\ v.sends = u.sends
    BY <1>7, ContractPhases DEF MovingOn, WellAnswered
  <2>2. Inbound!Open(t)
    BY <1>1, <1>4, <2>1 DEF Inbound!Open, WellAnswered, Success, Agent, Scope
  <2> QED
    BY <2>2 DEF Inbound!Next
<1>8. CASE MovingOn(u, v) /\ u.pc = "sent"
  <2>1. ContractPhase[u.pc] = "calling" /\ ContractPhase[v.pc] = "open" /\ v.sends = u.sends
    BY <1>8, ContractPhases DEF MovingOn
  <2>2. WellAnswered(v) \in BOOLEAN
    BY DEF WellAnswered
  <2>4. [x \in Turns |-> WellAnswered(turn[x])]'
          = [[x \in Turns |-> WellAnswered(turn[x])] EXCEPT ![t] = WellAnswered(v)]
    BY <1>1 DEF WellAnswered
  <2>5. \E success \in BOOLEAN :
          [x \in Turns |-> WellAnswered(turn[x])]'
            = [[x \in Turns |-> WellAnswered(turn[x])] EXCEPT ![t] = success]
    BY <2>2, <2>4, Zenon
  <2>3. Inbound!Answer(t)
    BY <1>1, <1>4, <2>1, <2>5 DEF Inbound!Answer, Agent, Scope
  <2> QED
    BY <2>3 DEF Inbound!Next
<1>9. CASE MovingOn(u, v) /\ u.pc \notin {"idle", "sent"}
  <2>1. /\ ContractPhase[u.pc] = "open" /\ ContractPhase[v.pc] = "open"
        /\ WellAnswered(v) = WellAnswered(u) /\ v.sends = u.sends
    BY <1>9, ContractPhases DEF MovingOn, WellAnswered
  <2>2. UNCHANGED Inbound!vars
    BY <1>1, <1>4, <2>1 DEF Inbound!vars, WellAnswered, Success, Agent, Scope
  <2> QED
    BY <2>2
<1> QED
  BY <1>3, <1>5, <1>6, <1>7, <1>8, <1>9

(* The ladder keeps the contract of InboundTurn: one call at a time, none  *)
(* after a success, at most two for an agent and five for a user, and one  *)
(* end.                                                                    *)
THEOREM LadderKeepsContract == Spec => KeepsContract
<1>1. Init => Inbound!Init
  <2> SUFFICES ASSUME Init PROVE Inbound!Init
    OBVIOUS
  <2>1. ASSUME NEW t \in Turns
        PROVE  /\ ContractPhase[turn[t].pc] = "new" /\ turn[t].sends = 0
               /\ ~WellAnswered(turn[t]) /\ Agent(turn[t]) \in BOOLEAN
    <3>1. PICK r \in Requests : turn[t] = NewTurn(r)
      BY DEF Init
    <3>2. turn[t].pc = "idle" /\ turn[t].sends = 0
      BY <3>1 DEF NewTurn
    <3>3. Scope(turn[t]) \in Scopes
      BY InitTyping, TurnTyping
    <3> QED
      BY <3>2, <3>3, ContractPhases DEF WellAnswered, Agent, Scopes
  <2>2. ASSUME NEW t \in Turns PROVE WellAnswered(turn[t]) = FALSE
    BY <2>1 DEF WellAnswered
  <2> QED
    BY <2>1, <2>2 DEF Inbound!Init
<1>2. LadderInv /\ LadderInv' /\ [Next]_vars => [Inbound!Next]_(Inbound!vars)
  <2> SUFFICES ASSUME LadderInv, LadderInv', [Next]_vars
               PROVE  [Inbound!Next]_(Inbound!vars)
    OBVIOUS
  <2>1. CASE CooldownEnds \/ UserSetsReuse \/ UNCHANGED vars
    <3>1. UNCHANGED turn
      BY <2>1, AroundShape DEF LadderInv
    <3> QED
      BY <3>1 DEF Inbound!vars
  <2> QED
    BY <2>1, TurnContract DEF Next
<1>3. QED
  BY <1>1, <1>2, LadderInvariant, PTL DEF Spec, KeepsContract, Inbound!Spec
=============================================================================

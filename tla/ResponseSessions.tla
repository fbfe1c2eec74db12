--------------------------- MODULE ResponseSessions ---------------------------
(***************************************************************************)
(* Which conversation a provider works on when the proxy sends it only the *)
(* new part of a history (src/src-tauri/src/proxy/mod.rs 5688-6660): the   *)
(* matching of a request with the stored sessions, the delta, the answers  *)
(* of concurrent turns, expiry, and the body that replaces a reference of  *)
(* the client's own that was refused.                                      *)
(*                                                                         *)
(* An item of a history is a record: kind is "user", "assistant", "call"   *)
(* or "output" (of a tool call), text what it says, call the id of the     *)
(* call.  The recovery ladder around it is GenerationTurn.                 *)
(***************************************************************************)
EXTENDS Naturals, Sequences, SequencesExt, FiniteSets

CONSTANTS
  SessionTurns,      \* the requests; an answer has the id of its turn
  SessionKeys,       \* session keys (anchors) of one scope
  SessionAsks,       \* what clients ask: [key, input, prev], prev TRUE for a
              \* request that names the client's last response itself
  Lifetime,   \* ticks a session may be continued (30 minutes)
  Missing

VARIABLES
  sessions,   \* AppState.response_sessions
  asked,      \* the turns
  context,    \* what the provider holds for each answer id (external)
  cleared     \* keys a reference of which was dropped (history)

sessionVars == <<sessions, asked, context, cleared>>

-----------------------------------------------------------------------------
(* Matching two histories.                                                 *)

(* response_session_delta_item_is_needed: the provider has the rest.       *)
Needed(item) == item.kind \in {"user", "output"}

(* comparable_response_input_item: without the ids of calls.               *)
Comparable(item) == [kind |-> item.kind, text |-> item.text]

(* The needed items in their order, numbered by how many stand before.     *)
Standing(items) == {i \in DOMAIN items : Needed(items[i])}
PositionOf(n, items) ==
  CHOOSE i \in Standing(items) : Cardinality({j \in Standing(items) : j <= i}) = n
Kept(items) == [n \in 1 .. Cardinality(Standing(items)) |-> items[PositionOf(n, items)]]

Essential(items) == [n \in DOMAIN Kept(items) |-> Comparable(Kept(items)[n])]

(* Mutation of DeltaStart: the length of the stored history counts also    *)
(* where the two histories differ in what is not needed.                   *)
DeltaStartByLength(previous, current) ==
  LET p == Essential(previous)
      c == Essential(current)
  IN IF Len(p) < Len(c) /\ IsPrefix(p, c) /\ Len(previous) < Len(current)
     THEN Len(previous) + 1 ELSE Missing

(* response_input_delta_start_index                                        *)
DeltaStart(previous, current) ==
  LET p == Essential(previous)
      c == Essential(current)
  IN IF previous # <<>> /\ IsStrictPrefix(previous, current) THEN Len(previous) + 1
     ELSE IF Len(p) < Len(c) /\ IsPrefix(p, c) THEN PositionOf(Len(p) + 1, current)
     ELSE Missing

(* appended_response_input_delta                                           *)
Delta(previous, current) ==
  LET start == DeltaStart(previous, current)
      tail == IF start = Missing THEN <<>>
              ELSE Kept(SubSeq(current, start, Len(current)))
  IN IF tail = <<>> THEN Missing ELSE tail

Fresh(session) == session # Missing /\ session.age <= Lifetime

(* maybe_reuse_response_session, the session of the request's own key      *)
Exact(key, input) ==
  {k \in {key} : Fresh(sessions[k]) /\ Delta(sessions[k].input, input) # Missing}

(* response_session_fallback_score                                         *)
Score(previous, current) ==
  LET p == Essential(previous)
      c == Essential(current)
  IN IF p # <<>> /\ Len(p) < Len(c) /\ IsPrefix(p, c) THEN Len(p) ELSE 0

(* fallback_response_sessions: the siblings that match most, the longest   *)
(* of them, the youngest of those.                                         *)
Siblings(key, input) ==
  LET fits == {k \in SessionKeys \ {key} : Fresh(sessions[k]) /\ Score(sessions[k].input, input) > 0
                                    /\ Delta(sessions[k].input, input) # Missing}
      Rank(k) == <<Score(sessions[k].input, input), Len(sessions[k].input), Lifetime - sessions[k].age>>
      Better(a, b) == \/ a[1] > b[1]
                      \/ a[1] = b[1] /\ a[2] > b[2]
                      \/ a[1] = b[1] /\ a[2] = b[2] /\ a[3] > b[3]
  IN {k \in fits : \A other \in fits : ~Better(Rank(other), Rank(k))}

(* Mutation of ShouldReplace: the last answer is stored.                   *)
ShouldReplaceAlways(existing, next) == TRUE

(* should_replace_response_session                                         *)
ShouldReplace(existing, next) == ~IsPrefix(Essential(next), Essential(existing))

-----------------------------------------------------------------------------
(* A body for an upstream that does not take the client's own reference.   *)

(* response_input_items_have_self_contained_context                        *)
SelfContained(items) ==
  /\ \E i \in DOMAIN items : items[i].kind # "user"
  /\ \A i \in DOMAIN items : items[i].kind = "output" =>
       \E j \in DOMAIN items : items[j].kind = "call" /\ items[j].call = items[i].call

(* response_session_input_for_response_id: the longest of those that have  *)
(* the id.                                                                 *)
InputFor(id) ==
  LET have == {k \in SessionKeys : Fresh(sessions[k]) /\ sessions[k].id = id}
      longest == {k \in have : \A o \in have : Len(sessions[o].input) <= Len(sessions[k].input)}
  IN IF have = {} THEN Missing ELSE sessions[CHOOSE k \in longest : TRUE].input

(* Mutation of CompatBody: the input is taken to be whole.                 *)
CompatBodyBare(id, input) == input

(* maybe_prepare_previous_response_compat_body, or the reference stripped: *)
(* the input alone where it has the history, or the proxy has none to add. *)
CompatBody(id, input) ==
  LET previous == InputFor(id)
  IN IF \/ previous \in {Missing, <<>>} \/ input = <<>>
        \/ IsPrefix(Essential(previous), Essential(input)) /\ SelfContained(input)
        \/ IsPrefix(previous, input)
     THEN input ELSE previous \o input

-----------------------------------------------------------------------------
(* The turns.                                                              *)

NewTurn == [phase |-> "idle", ask |-> Missing, prev |-> Missing, sent |-> Missing, compat |-> FALSE]

SessionsInit ==
  /\ sessions = [k \in SessionKeys |-> Missing]
  /\ asked = [t \in SessionTurns |-> NewTurn]
  /\ context = [t \in SessionTurns |-> Missing]
  /\ cleared = {}

Sends(t, ask, prev, sent, compat) ==
  asked' = [asked EXCEPT ![t] = [phase |-> "sent", ask |-> ask, prev |-> prev,
                                 sent |-> sent, compat |-> compat]]

(* The whole history, because nothing matches or because the delta is not  *)
(* worth it (main_response_session_delta_skip_reason,                      *)
(* response_session_delta_is_beneficial).                                  *)
AskInFull(t, q) ==
  /\ asked[t].phase = "idle" /\ ~q.prev
  /\ Sends(t, q, Missing, q.input, FALSE)
  /\ UNCHANGED <<sessions, context, cleared>>

AskByDelta(t, q) ==
  /\ asked[t].phase = "idle" /\ ~q.prev
  /\ \E k \in Exact(q.key, q.input) :
       Sends(t, q, sessions[k].id, Delta(sessions[k].input, q.input), FALSE)
  /\ UNCHANGED <<sessions, context, cleared>>

(* The client names the response it continues.                             *)
AskAfter(t, q, id) ==
  /\ asked[t].phase = "idle" /\ q.prev /\ context[id] # Missing
  /\ Sends(t, q, id, q.input, FALSE)
  /\ UNCHANGED <<sessions, context, cleared>>

(* 413: a history that is too large goes out again as the delta of its own *)
(* session or of a sibling's (maybe_rescue_response_session_after_413).    *)
RescueTooLarge(t) ==
  LET q == asked[t].ask
      own == IF q = Missing THEN {} ELSE Exact(q.key, q.input)
  IN /\ asked[t].phase = "sent" /\ asked[t].prev = Missing /\ ~q.prev
     /\ \E k \in IF own # {} THEN own ELSE Siblings(q.key, q.input) :
          Sends(t, q, sessions[k].id, Delta(sessions[k].input, q.input), FALSE)
     /\ UNCHANGED <<sessions, context, cleared>>

(* A refused delta: the reference is dropped and the history sent whole.   *)
RefuseDelta(t) ==
  LET u == asked[t]
  IN /\ u.phase = "sent" /\ u.prev # Missing /\ ~u.ask.prev
     /\ sessions' = [k \in SessionKeys |->
          IF k = u.ask.key \/ (sessions[k] # Missing /\ sessions[k].id = u.prev) THEN Missing
          ELSE sessions[k]]
     /\ cleared' = cleared \cup {k \in SessionKeys : sessions[k] # Missing /\ sessions'[k] = Missing}
     /\ Sends(t, u.ask, Missing, u.ask.input, FALSE)
     /\ UNCHANGED context

(* A refused reference of the client's own.                                *)
RefuseReference(t) ==
  LET u == asked[t]
  IN /\ u.phase = "sent" /\ u.prev # Missing /\ u.ask.prev /\ ~u.compat
     /\ asked' = [asked EXCEPT ![t].sent = CompatBody(u.prev, u.ask.input), ![t].compat = TRUE]
     /\ UNCHANGED <<sessions, context, cleared>>

(* The provider answers, and holds the conversation under the new id.      *)
AnswerArrives(t) ==
  LET u == asked[t]
      before == IF u.prev = Missing \/ u.compat THEN <<>> ELSE context[u.prev]
  IN /\ u.phase = "sent"
     /\ context' = [context EXCEPT ![t] = before \o Kept(u.sent)]
     /\ asked' = [asked EXCEPT ![t].phase = "answered"]
     /\ UNCHANGED <<sessions, cleared>>

(* update_response_session_with_id, at the end of the relay                *)
Store(t) ==
  LET q == asked[t].ask
  IN /\ asked[t].phase = "answered"
     /\ IF sessions[q.key] # Missing /\ ~ShouldReplace(sessions[q.key].input, q.input)
        THEN UNCHANGED sessions
        ELSE sessions' = [sessions EXCEPT ![q.key] = [id |-> t, input |-> q.input, age |-> 0]]
     /\ asked' = [asked EXCEPT ![t].phase = "stored"]
     /\ UNCHANGED <<context, cleared>>

(* A turn that fails, or whose stream breaks off: nothing is stored.       *)
Lose(t) ==
  /\ asked[t].phase \in {"sent", "answered"}
  /\ asked' = [asked EXCEPT ![t].phase = "lost"]
  /\ UNCHANGED <<sessions, context, cleared>>

Age ==
  /\ \E k \in SessionKeys : Fresh(sessions[k])
  /\ sessions' = [k \in SessionKeys |-> IF Fresh(sessions[k]) THEN [sessions[k] EXCEPT !.age = @ + 1]
                                 ELSE sessions[k]]
  /\ UNCHANGED <<asked, context, cleared>>

SessionsNext ==
  \/ \E t \in SessionTurns, q \in SessionAsks : AskInFull(t, q) \/ AskByDelta(t, q)
  \/ \E t, id \in SessionTurns, q \in SessionAsks : AskAfter(t, q, id)
  \/ \E t \in SessionTurns : RescueTooLarge(t) \/ RefuseDelta(t) \/ RefuseReference(t)
                      \/ AnswerArrives(t) \/ Store(t) \/ Lose(t)
  \/ Age

SessionsSpec == SessionsInit /\ [][SessionsNext]_sessionVars

-----------------------------------------------------------------------------
(* PROPERTIES *)

(* Whatever turns were answered, stored, refused or have expired since,    *)
(* and whichever session was picked: what the provider holds under the id, *)
(* followed by the delta, ends with all that the client sent, item by      *)
(* item.  It is exactly that, unless the session continues a response      *)
(* which the client named itself and whose history the proxy never saw.    *)
DeltaContinues ==
  \A t \in SessionTurns :
    LET u == asked[t]
    IN u.phase = "sent" /\ u.prev # Missing /\ ~u.ask.prev =>
         /\ context[u.prev] # Missing
         /\ LET whole == Essential(context[u.prev] \o u.sent)
            IN /\ IsSuffix(Essential(u.ask.input), whole)
               /\ (\A o \in SessionTurns : asked[o].ask # Missing => ~asked[o].ask.prev)
                    => whole = Essential(u.ask.input)

(* Two turns of a conversation may finish in either order: once all have   *)
(* finished, the key holds the longest of the histories that were          *)
(* answered, if they continue each other and no reference was dropped.     *)
LongestIsKept ==
  \A k \in SessionKeys :
    LET stored == {t \in SessionTurns : asked[t].phase = "stored" /\ asked[t].ask.key = k}
        E(t) == Essential(asked[t].ask.input)
    IN /\ \A t \in SessionTurns : asked[t].phase \notin {"sent", "answered"}
       /\ \A t, o \in stored : IsPrefix(E(t), E(o)) \/ IsPrefix(E(o), E(t))
       /\ stored # {} /\ k \notin cleared
       => \A t \in stored : IsPrefix(E(t), Essential(sessions[k].input))

(* The body that replaces a refused reference of the client's loses none   *)
(* of what the proxy knows the user and the tools to have said before, nor *)
(* of what the client says now, and says nothing twice, unless the client  *)
(* repeats what it said without the answers, and not to the letter.        *)
ReferenceIsReplaced ==
  \A t \in SessionTurns :
    LET u == asked[t]
        previous == InputFor(u.prev)
        before == Essential(previous)
        mine == Essential(u.ask.input)
        body == Essential(CompatBody(u.prev, u.ask.input))
    IN /\ u.phase = "sent" /\ u.prev # Missing /\ u.ask.prev /\ ~u.compat
       /\ previous # Missing /\ u.ask.input # <<>>
       => /\ IsPrefix(before, body) /\ IsSuffix(mine, body)
          /\ body # mine => body = before \o mine
          /\ IsPrefix(before, mine) /\ (SelfContained(u.ask.input) \/ IsPrefix(previous, u.ask.input))
               => body = mine

(* What is asked of the constants: requests have keys there are, and what  *)
(* stands for none is neither a request nor a session.                     *)
Items == UNION {Range(q.input) : q \in SessionAsks}
SoundSessions ==
  /\ Lifetime \in Nat
  /\ Missing \notin SessionAsks /\ Missing \notin SessionTurns
  /\ Missing \notin Nat /\ Missing \notin Seq(Items)
  /\ \A q \in SessionAsks : q.key \in SessionKeys /\ q.input \in Seq(Items)
  /\ \A t \in SessionTurns, q \in SessionAsks, age \in 0 .. Lifetime + 1 :
       [id |-> t, input |-> q.input, age |-> age] # Missing
=============================================================================

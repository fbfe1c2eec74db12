----------------------------- MODULE ProviderKeys -----------------------------
(***************************************************************************)
(* The key pool of one provider: how a turn gets an API key, how the       *)
(* answer of the upstream is held against that key, and how a turn moves   *)
(* on to another key (select_provider_key_for_request and the marks in     *)
(* src/src-tauri/src/config/mod.rs, their callers in proxy/mod.rs).        *)
(*                                                                         *)
(* A turn takes the affinity lock, the configuration lock and the affinity *)
(* lock again one after the other, so turns, the user's form and the key   *)
(* tests interleave between its steps; each action below is what happens   *)
(* under one lock.  The keys are the positions of the pool: the form is    *)
(* taken to keep them, and to change only what it says of a key.           *)
(***************************************************************************)
EXTENDS Naturals

CONSTANTS
  N,          \* the length of the pool
  Turns,      \* handlers serving turns of one conversation, one after another
  Kinds,      \* what a turn may be: may it be retried, has it an affinity key
  Own,        \* the provider's own API key, for when the pool gives none
  None        \* no key

Keys == 0 .. N - 1

ASSUME PoolAssumption == N \in Nat \ {0} /\ Own \notin Keys /\ None \notin Keys \cup {Own}

(* mayRetry: it is not an agent's turn.                                    *)
ASSUME KindAssumption == Kinds \subseteq [mayRetry : BOOLEAN, sticky : BOOLEAN]

VARIABLES
  enabled,    \* the keys switched on
  held,       \* the keys whose disabled_until lies in the future
  next,       \* next_index of the round-robin
  roundRobin, \* the strategy is round-robin (the others take any candidate)
  affinity,   \* provider_key_affinity: the key of the conversation
  turn,       \* [Turns -> record], the local variables of the handlers
  due,        \* keys refused to a turn that has ended, untouched by the user since (history)
  passed      \* how often a candidate was passed over by the cursor (history)

pool == <<enabled, held, next, roundRobin>>
vars == <<enabled, held, next, roundRobin, affinity, turn, due, passed>>

Phases == {"idle", "select", "remember", "sent", "refused", "forget", "reselect", "judged"}
Outcomes == {"ok", "refused", "quota", "other"}

TurnRecords ==
  [pc : Phases,
   kind : Kinds \cup {None},
   preferred : Keys \cup {None},       \* the affinity it read
   key : Keys \cup {Own, None},        \* selected_provider_key
   tried : BOOLEAN,                    \* it has passed the key failover
   first : Keys \cup {None},           \* the key it failed over from
   outcome : Outcomes,                 \* of the last answer
   guilty : SUBSET Keys]               \* keys a refusal makes it mark (history)

TypeOK ==
  /\ enabled \subseteq Keys
  /\ held \subseteq Keys
  /\ next \in Keys
  /\ roundRobin \in BOOLEAN
  /\ affinity \in Keys \cup {None}
  /\ turn \in [Turns -> TurnRecords]
  /\ due \subseteq Keys
  /\ passed \in [Keys -> Nat]

-----------------------------------------------------------------------------
(* Selection.                                                              *)

(* Mutation of Candidates: the key that was just refused is not excluded.  *)
AnyCandidate(exclude) == enabled \ held

(* Switched on, not disabled for now, not excluded.                        *)
Candidates(exclude) == enabled \ (held \cup {exclude})

(* Mutation of Follow: the cursor stays on the key it gave out.            *)
Stay(k) == k

(* (selected + 1) % len                                                    *)
Follow(k) == IF k = N - 1 THEN 0 ELSE k + 1

(* The first candidate at or after the cursor, else the first of all.      *)
AtCursor(C, k) ==
  /\ k \in C
  /\ \A j \in C : /\ k >= next => j < next \/ k <= j
                  /\ k < next => j < next /\ k <= j

(* One selection among the candidates C under the configuration lock: the  *)
(* conversation's key if it is one of them, else what the strategy says;   *)
(* without a candidate the provider's own key, if it has one.              *)
Selects(C, preferred, k) ==
  \/ /\ preferred \in C /\ k = preferred
     /\ passed' = [j \in Keys |-> IF j = k \/ j \notin C THEN 0 ELSE passed[j]]
     /\ UNCHANGED next
  \/ /\ preferred \notin C /\ roundRobin /\ AtCursor(C, k)
     /\ next' = Follow(k)
     /\ passed' = [j \in Keys |-> IF j = k \/ j \notin C THEN 0 ELSE passed[j] + 1]
  \/ /\ preferred \notin C /\ ~roundRobin /\ k \in C
     /\ passed' = [j \in Keys |-> IF j = k \/ j \notin C THEN 0 ELSE passed[j]]
     /\ UNCHANGED next
  \/ /\ C = {} /\ k \in {Own, None}
     /\ passed' = [j \in Keys |-> 0]
     /\ UNCHANGED next

-----------------------------------------------------------------------------
(* The marks, under the configuration lock.                                *)

(* mark_provider_key_failure: every caller forces the disabling.           *)
MarkFailure(k) ==
  /\ enabled' = enabled \ {k}
  /\ held' = held \cup {k}

(* Mutation of MarkSuccess: a success also switches the key on again.      *)
Revive(k) ==
  /\ enabled' = enabled \cup {k}
  /\ held' = held \ {k}

(* mark_provider_key_success: the key is not held any longer.              *)
MarkSuccess(k) ==
  /\ held' = held \ {k}
  /\ UNCHANGED enabled

NoMark == UNCHANGED <<enabled, held>>

-----------------------------------------------------------------------------
Idle == [pc |-> "idle", kind |-> None, preferred |-> None, key |-> None,
         tried |-> FALSE, first |-> None, outcome |-> "ok", guilty |-> {}]

(* The pool comes from the configuration file, the affinities start empty. *)
Init ==
  /\ enabled \in SUBSET Keys
  /\ held = {}
  /\ next \in Keys
  /\ roundRobin \in BOOLEAN
  /\ affinity = None
  /\ turn = [t \in Turns |-> Idle]
  /\ due = {}
  /\ passed = [k \in Keys |-> 0]

Set(t, u) == turn' = [turn EXCEPT ![t] = u]

(* A turn arrives and reads the key of its conversation.                   *)
Start(t) ==
  /\ turn[t].pc = "idle"
  /\ \E kind \in Kinds :
       Set(t, [Idle EXCEPT !.pc = "select", !.kind = kind,
                           !.preferred = IF kind.sticky THEN affinity ELSE None])
  /\ UNCHANGED <<pool, affinity, due, passed>>

(* No key at all ends the turn with 400.                                   *)
Select(t) ==
  LET u == turn[t] IN
  /\ u.pc = "select"
  /\ \E k \in Keys \cup {Own, None} :
       /\ Selects(Candidates(None), u.preferred, k)
       /\ Set(t, IF k = None THEN Idle
                 ELSE [u EXCEPT !.pc = "remember", !.key = k, !.preferred = None])
  /\ UNCHANGED <<enabled, held, roundRobin, affinity, due>>

(* The conversation keeps the key, and the turn is sent with it.           *)
Remember(t) ==
  LET u == turn[t] IN
  /\ u.pc = "remember"
  /\ affinity' = IF u.kind.sticky /\ u.key \in Keys THEN u.key ELSE affinity
  /\ Set(t, [u EXCEPT !.pc = "sent"])
  /\ UNCHANGED <<pool, due, passed>>

(* The first rung of the ladder, which a turn passes once.                 *)
MayFailOver(u, o) == ~u.tried /\ u.kind.mayRetry /\ o = "refused" /\ u.key \in Keys

(* 2xx; 401, 402, 403 or 429; another failure whose text speaks of quota,  *)
(* billing or an invalid key; any other failure.                           *)
Answer(t) ==
  LET u == turn[t] IN
  /\ u.pc = "sent"
  /\ \E o \in Outcomes :
       Set(t, [u EXCEPT !.pc = IF MayFailOver(u, o) THEN "refused" ELSE "judged",
                        !.outcome = o, !.tried = TRUE])
  /\ UNCHANGED <<pool, affinity, due, passed>>

(* try_retry_with_next_provider_key marks the key first ...                *)
Blame(t) ==
  LET u == turn[t] IN
  /\ u.pc = "refused"
  /\ MarkFailure(u.key)
  /\ Set(t, [u EXCEPT !.pc = "forget", !.guilty = {u.key}])
  /\ UNCHANGED <<next, roundRobin, affinity, due, passed>>

(* ... then takes it from the conversation, if it still has it ...         *)
Forget(t) ==
  LET u == turn[t] IN
  /\ u.pc = "forget"
  /\ affinity' = IF u.kind.sticky /\ affinity = u.key THEN None ELSE affinity
  /\ Set(t, [u EXCEPT !.pc = "reselect"])
  /\ UNCHANGED <<pool, due, passed>>

(* ... and asks the pool again, without it.                                *)
Reselect(t) ==
  LET u == turn[t] IN
  /\ u.pc = "reselect"
  /\ \E k \in Keys \cup {Own, None} :
       /\ Selects(Candidates(u.key), None, k)
       /\ Set(t, IF k \in {None, u.key} THEN [u EXCEPT !.pc = "judged"]
                 ELSE [u EXCEPT !.pc = "remember", !.outcome = "ok",
                           !.key = k, !.first = u.key])
  /\ UNCHANGED <<enabled, held, roundRobin, affinity, due>>

(* A later rung of the ladder sends the turn again with the key it has.    *)
AnotherRung(t) ==
  LET u == turn[t] IN
  /\ u.pc = "judged" /\ u.outcome # "ok"
  /\ Set(t, [u EXCEPT !.pc = "sent", !.outcome = "ok"])
  /\ UNCHANGED <<pool, affinity, due, passed>>

(* note_selected_provider_key_status, on the last answer of the turn.      *)
Settle(t) ==
  LET u == turn[t]
      refused == u.outcome \in {"refused", "quota"}
  IN
  /\ u.pc = "judged"
  /\ CASE u.key \in Keys /\ refused -> MarkFailure(u.key)
       [] u.key \in Keys /\ u.outcome = "ok" -> MarkSuccess(u.key)
       [] OTHER -> NoMark
  /\ due' = due \cup u.guilty \cup (IF refused /\ u.key \in Keys THEN {u.key} ELSE {})
  /\ Set(t, Idle)
  /\ UNCHANGED <<next, roundRobin, affinity, passed>>

(* The client hangs up, or a send fails in transport: nothing is marked.   *)
Abandon(t) ==
  /\ turn[t].pc # "idle"
  /\ Set(t, Idle)
  /\ UNCHANGED <<pool, affinity, due, passed>>

-----------------------------------------------------------------------------
(* What happens around the turns.                                          *)

HoldEnds ==
  /\ \E k \in held : held' = held \ {k}
  /\ UNCHANGED <<enabled, next, roundRobin, affinity, turn, due, passed>>

(* The user saves the form with what it says of a key, or of the strategy. *)
UserEdits ==
  \/ \E k \in Keys :
       /\ \/ enabled' = enabled \cup {k}
          \/ enabled' = enabled \ {k}
       /\ held' \in {held, held \ {k}}
       /\ due' = due \ {k}
       /\ turn' = [t \in Turns |-> [turn[t] EXCEPT !.guilty = @ \ {k}]]
       /\ UNCHANGED <<next, roundRobin, affinity, passed>>
  \/ /\ roundRobin' = ~roundRobin
     /\ UNCHANGED <<enabled, held, next, affinity, turn, due, passed>>

(* test_provider_key: a failed test switches the key off.                  *)
UserTests ==
  /\ \E k \in Keys : MarkSuccess(k) \/ MarkFailure(k)
  /\ UNCHANGED <<next, roundRobin, affinity, turn, due, passed>>

-----------------------------------------------------------------------------
TurnStep(t) ==
  \/ Start(t) \/ Select(t) \/ Remember(t) \/ Answer(t) \/ Blame(t)
  \/ Forget(t) \/ Reselect(t) \/ AnotherRung(t) \/ Settle(t) \/ Abandon(t)

Next == (\E t \in Turns : TurnStep(t)) \/ HoldEnds \/ UserEdits \/ UserTests

Spec == Init /\ [][Next]_vars

-----------------------------------------------------------------------------
(* PROPERTIES *)

(* A turn that fails over tries the rest of the pool: it is sent again with*)
(* a usable key that is not the one refused whenever there is one, even    *)
(* when the user has switched that key on again since the refusal.         *)
FailoverTriesTheRest ==
  [][\A t \in Turns :
       LET rest == (enabled \ held) \ {turn[t].key} IN
       turn[t].pc = "reselect" /\ turn'[t].pc \notin {"reselect", "idle"} =>
         IF rest = {} THEN turn'[t].key \in {Own, turn[t].key}
                      ELSE turn'[t].pc = "remember" /\ turn'[t].key \in rest]_vars

(* A key refused to a turn stays out of service once the turn has ended,   *)
(* whichever of its keys it was and whatever the other turns report of     *)
(* that key later: only the user brings it back.                           *)
RefusedStaysOff == due \cap enabled = {}

(* "each request moves to the next usable key": under round-robin no key   *)
(* is passed over N times in a row while it is usable, although turns that *)
(* stick to a key, fail over, or hang up interleave with the rotation.     *)
RoundRobinFair == \A k \in Keys : passed[k] < N

-----------------------------------------------------------------------------
(* What the documents say and the code does not do.                        *)

(* The form asks for the minutes after which a failed key recovers: a key  *)
(* that was only refused is back in service when it is not held any more.  *)
(* The mark also clears enabled, and only the form sets it again.          *)
KeyRecovers == \A k \in due : k \in held \/ k \in enabled
=============================================================================

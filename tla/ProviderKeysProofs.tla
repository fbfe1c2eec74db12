-------------------------- MODULE ProviderKeysProofs --------------------------
(***************************************************************************)
(* Proofs about ProviderKeys, for a pool of any length and any number of   *)
(* turns of any kinds.                                                     *)
(***************************************************************************)
EXTENDS ProviderKeys, Integers, TLAPS

(***************************************************************************)
(* Selection and the rotation.                                             *)
(***************************************************************************)

(* The candidates are keys, and following a key stays in the pool.         *)
LEMMA KeyFacts ==
  /\ \A k \in Keys : Follow(k) \in Keys
  /\ 0 \in Keys
BY PoolAssumption DEF Keys, Follow

(* How far it is from the position i of the pool to k, in the direction    *)
(* the cursor moves.                                                       *)
Gap(i, k) == IF k >= i THEN k - i ELSE (k - i) + N

(* The gap is less than the length of the pool.                            *)
LEMMA GapBound ==
  ASSUME NEW i \in Keys, NEW k \in Keys
  PROVE  Gap(i, k) \in 0 .. N - 1
<1>1. N \in Nat /\ i \in Int /\ k \in Int /\ 0 <= i /\ i < N /\ 0 <= k /\ k < N
  BY PoolAssumption DEF Keys
<1>2. CASE k >= i
  BY <1>1, <1>2 DEF Gap
<1>3. CASE k < i
  BY <1>1, <1>3 DEF Gap
<1> QED
  BY <1>1, <1>2, <1>3

(* When the cursor gives out s and moves behind it, it comes nearer to     *)
(* every key j that s was preferred to.                                    *)
LEMMA GapShrinks ==
  ASSUME NEW i \in Keys, NEW j \in Keys, NEW s \in Keys,
         s >= i => j < i \/ s < j,
         s < i => j < i /\ s < j
  PROVE  Gap(Follow(s), j) <= Gap(i, j) - 1
<1>1. /\ N \in Nat /\ i \in Int /\ j \in Int /\ s \in Int
      /\ 0 <= i /\ i < N /\ 0 <= j /\ j < N /\ 0 <= s /\ s < N
  BY PoolAssumption DEF Keys
<1>2. CASE s = N - 1
  <2>1. Follow(s) = 0
    BY <1>2 DEF Follow
  <2>2. j < i
    BY <1>1, <1>2
  <2> QED
    BY <1>1, <2>1, <2>2 DEF Gap
<1>3. CASE s # N - 1
  <2>1. Follow(s) = s + 1
    BY <1>3 DEF Follow
  <2>2. CASE j < i
    BY <1>1, <2>1, <2>2 DEF Gap
  <2>3. CASE j >= i
    BY <1>1, <2>1, <2>3 DEF Gap
  <2> QED
    BY <1>1, <2>2, <2>3
<1> QED
  BY <1>2, <1>3

(* A key that is passed over comes nearer: as often as it was passed over  *)
(* since it was last selected, the cursor has moved towards it.            *)
FairInv == \A k \in Keys : passed[k] + Gap(next, k) <= N - 1

(* What a selection returns, and what it does to the cursor.               *)
LEMMA SelectTyping ==
  ASSUME TypeOK, NEW C \in SUBSET Keys, NEW p \in Keys \cup {None},
         NEW k, Selects(C, p, k)
  PROVE  /\ k \in C \cup {Own, None}
         /\ next' \in Keys
         /\ passed' \in [Keys -> Nat]
<1>0. next \in Keys /\ passed \in [Keys -> Nat]
  BY DEF TypeOK
<1>1. k \in C \cup {Own, None}
  BY DEF Selects, AtCursor
<1>2. next' \in Keys
  BY <1>0, KeyFacts DEF Selects, AtCursor
<1>3. \A j \in Keys : passed[j] + 1 \in Nat
  BY <1>0
<1>4. passed' \in [Keys -> Nat]
  BY <1>0, <1>3 DEF Selects
<1> QED
  BY <1>1, <1>2, <1>4

(* A selection keeps the rotation fair.                                    *)
LEMMA SelectFair ==
  ASSUME TypeOK, FairInv, NEW C \in SUBSET Keys, NEW p \in Keys \cup {None},
         NEW k, Selects(C, p, k)
  PROVE  FairInv'
<1>0. next \in Keys /\ next' \in Keys
  BY SelectTyping DEF TypeOK
<1> SUFFICES ASSUME NEW j \in Keys PROVE passed'[j] + Gap(next', j) <= N - 1
  BY DEF FairInv
<1>1. /\ N \in Nat /\ passed[j] \in Nat
      /\ Gap(next, j) \in 0 .. N - 1 /\ Gap(next', j) \in 0 .. N - 1
  BY <1>0, GapBound, PoolAssumption DEF TypeOK
<1>2. passed[j] + Gap(next, j) <= N - 1
  BY DEF FairInv
<1>3. \/ passed'[j] = 0
      \/ next' = next /\ passed'[j] = passed[j]
      \/ /\ j \in C /\ j # k /\ AtCursor(C, k)
         /\ next' = Follow(k) /\ passed'[j] = passed[j] + 1
  BY DEF Selects
<1>4. CASE passed'[j] = 0
  BY <1>1, <1>4
<1>5. CASE next' = next /\ passed'[j] = passed[j]
  BY <1>2, <1>5
<1>6. CASE /\ j \in C /\ j # k /\ AtCursor(C, k)
           /\ next' = Follow(k) /\ passed'[j] = passed[j] + 1
  <2>1. k \in Keys
    BY <1>6 DEF AtCursor
  <2>2. /\ k >= next => j < next \/ k < j
        /\ k < next => j < next /\ k < j
    BY <1>0, <1>6, <2>1, PoolAssumption DEF AtCursor, Keys
  <2>3. Gap(next', j) <= Gap(next, j) - 1
    BY <1>0, <1>6, <2>1, <2>2, GapShrinks
  <2> QED
    BY <1>1, <1>2, <1>6, <2>3
<1> QED
  BY <1>3, <1>4, <1>5, <1>6

(***************************************************************************)
(* Type correctness, and the rotation.                                     *)
(***************************************************************************)

(* The phases the actions set.                                             *)
LEMMA PhaseFacts ==
  /\ "idle" \in Phases /\ "select" \in Phases /\ "remember" \in Phases /\ "sent" \in Phases
  /\ "refused" \in Phases /\ "forget" \in Phases /\ "reselect" \in Phases
  /\ "judged" \in Phases /\ "ok" \in Outcomes
BY DEF Phases, Outcomes

(* The record of a handler without a turn.                                 *)
LEMMA IdleTyping == Idle \in TurnRecords
BY PhaseFacts DEF Idle, TurnRecords

(* A turn that is failing over holds a key of the pool: the one refused.   *)
FailingOver == {"refused", "forget", "reselect"}
KeyInv == \A t \in Turns : turn[t].pc \in FailingOver => turn[t].key \in Keys

(* A handler's record replaced by one that is typed and satisfies KeyInv.  *)
LEMMA Replaced ==
  ASSUME turn \in [Turns -> TurnRecords], KeyInv, NEW t \in Turns,
         NEW r \in TurnRecords, r.pc \in FailingOver => r.key \in Keys, Set(t, r)
  PROVE  turn' \in [Turns -> TurnRecords] /\ KeyInv'
<1>1. turn' \in [Turns -> TurnRecords] /\ turn'[t] = r
  BY DEF Set
<1>2. \A x \in Turns \ {t} : turn'[x] = turn[x]
  BY DEF Set
<1> QED
  BY <1>1, <1>2 DEF KeyInv

(* The initial states satisfy the invariants.                              *)
LEMMA InitTyping == Init => TypeOK /\ KeyInv /\ FairInv
<1> SUFFICES ASSUME Init PROVE TypeOK /\ KeyInv /\ FairInv
  OBVIOUS
<1>1. TypeOK
  BY IdleTyping DEF Init, TypeOK
<1>2. KeyInv
  BY DEF Init, KeyInv, Idle, FailingOver
<1>3. FairInv
  <2> SUFFICES ASSUME NEW k \in Keys PROVE passed[k] + Gap(next, k) <= N - 1
    BY DEF FairInv
  <2>1. passed[k] = 0 /\ Gap(next, k) \in 0 .. N - 1
    BY GapBound DEF Init
  <2> QED
    BY <2>1, PoolAssumption
<1> QED
  BY <1>1, <1>2, <1>3

(* The steps of a turn that select a key.                                  *)
LEMMA SelectStep ==
  ASSUME TypeOK, KeyInv, FairInv, NEW t \in Turns, Select(t) \/ Reselect(t)
  PROVE  TypeOK' /\ KeyInv' /\ FairInv'
<1> DEFINE u == turn[t]
<1>0. /\ u \in TurnRecords /\ u.preferred \in Keys \cup {None} /\ None \in Keys \cup {None}
      /\ turn \in [Turns -> TurnRecords]
  BY DEF TypeOK, TurnRecords
<1>1. CASE Select(t)
  <2> DEFINE r(k) == [u EXCEPT !.pc = "remember", !.key = k, !.preferred = None]
  <2>1. PICK k \in Keys \cup {Own, None} :
          /\ Selects(Candidates(None), u.preferred, k)
          /\ Set(t, IF k = None THEN Idle ELSE r(k))
    BY <1>1 DEF Select
  <2>2. Candidates(None) \in SUBSET Keys
    BY DEF Candidates, TypeOK
  <2>3. next' \in Keys /\ passed' \in [Keys -> Nat]
    BY <1>0, <2>1, <2>2, SelectTyping
  <2>4. FairInv'
    BY <1>0, <2>1, <2>2, SelectFair
  <2>5. r(k) \in TurnRecords /\ r(k).pc \notin FailingOver
    BY <1>0, PhaseFacts DEF TurnRecords, FailingOver
  <2>6. Idle.pc \notin FailingOver
    BY DEF Idle, FailingOver
  <2>7. turn' \in [Turns -> TurnRecords] /\ KeyInv'
    <3> HIDE DEF r
    <3> QED
      BY <1>0, <2>1, <2>5, <2>6, IdleTyping, Replaced
  <2> QED
    BY <1>1, <2>3, <2>4, <2>7 DEF Select, TypeOK
<1>2. CASE Reselect(t)
  <2> DEFINE j == [u EXCEPT !.pc = "judged"]
             r(k) == [u EXCEPT !.pc = "remember", !.outcome = "ok", !.key = k, !.first = u.key]
  <2>1. PICK k \in Keys \cup {Own, None} :
          /\ Selects(Candidates(u.key), None, k)
          /\ Set(t, IF k \in {None, u.key} THEN j ELSE r(k))
    BY <1>2 DEF Reselect
  <2>2. Candidates(u.key) \in SUBSET Keys
    BY DEF Candidates, TypeOK
  <2>3. next' \in Keys /\ passed' \in [Keys -> Nat]
    BY <1>0, <2>1, <2>2, SelectTyping
  <2>4. FairInv'
    BY <1>0, <2>1, <2>2, SelectFair
  <2>5. u.key \in Keys
    BY <1>2 DEF KeyInv, FailingOver, Reselect
  <2>6. /\ j \in TurnRecords /\ j.pc \notin FailingOver
        /\ r(k) \in TurnRecords /\ r(k).pc \notin FailingOver
    BY <1>0, <2>5, PhaseFacts DEF TurnRecords, FailingOver
  <2>7. turn' \in [Turns -> TurnRecords] /\ KeyInv'
    <3> HIDE DEF j, r
    <3> QED
      BY <1>0, <2>1, <2>6, Replaced
  <2> QED
    BY <1>2, <2>3, <2>4, <2>7 DEF Reselect, TypeOK
<1> QED
  BY <1>1, <1>2

(* The other steps of a turn leave the cursor alone.                       *)
LEMMA OtherStep ==
  ASSUME TypeOK, KeyInv, NEW t \in Turns, TurnStep(t), ~Select(t), ~Reselect(t)
  PROVE  TypeOK' /\ KeyInv' /\ UNCHANGED <<next, passed>>
<1> DEFINE u == turn[t]
<1>0. /\ u \in TurnRecords /\ turn \in [Turns -> TurnRecords]
      /\ Idle.pc \notin FailingOver
  BY DEF TypeOK, Idle, FailingOver
<1>1. CASE Start(t)
  <2> DEFINE r(kind) == [Idle EXCEPT !.pc = "select", !.kind = kind,
                                     !.preferred = IF kind.sticky THEN affinity ELSE None]
  <2>1. PICK kind \in Kinds : Set(t, r(kind))
    BY <1>1 DEF Start
  <2>2. r(kind) \in TurnRecords /\ r(kind).pc \notin FailingOver
    BY IdleTyping, PhaseFacts DEF TurnRecords, FailingOver, TypeOK
  <2>3. turn' \in [Turns -> TurnRecords] /\ KeyInv'
    <3> HIDE DEF r
    <3> QED
      BY <1>0, <2>1, <2>2, Replaced
  <2> QED
    BY <1>1, <2>3 DEF Start, TypeOK, pool
<1>2. CASE Remember(t)
  <2> DEFINE r == [u EXCEPT !.pc = "sent"]
  <2>1. r \in TurnRecords /\ r.pc \notin FailingOver
    BY <1>0, PhaseFacts DEF TurnRecords, FailingOver
  <2>2. Set(t, r)
    BY <1>2 DEF Remember
  <2>3. turn' \in [Turns -> TurnRecords] /\ KeyInv'
    <3> HIDE DEF r
    <3> QED
      BY <1>0, <2>1, <2>2, Replaced
  <2> QED
    BY <1>2, <2>3 DEF Remember, TypeOK, pool
<1>3. CASE Answer(t)
  <2> DEFINE r(o) == [u EXCEPT !.pc = IF MayFailOver(u, o) THEN "refused" ELSE "judged",
                               !.outcome = o, !.tried = TRUE]
  <2>1. PICK o \in Outcomes : Set(t, r(o))
    BY <1>3 DEF Answer
  <2>2. r(o) \in TurnRecords
    BY <1>0, PhaseFacts DEF TurnRecords
  <2>3. r(o).pc \in FailingOver => r(o).key \in Keys
    BY <1>0 DEF TurnRecords, FailingOver, MayFailOver
  <2>4. turn' \in [Turns -> TurnRecords] /\ KeyInv'
    <3> HIDE DEF r
    <3> QED
      BY <1>0, <2>1, <2>2, <2>3, Replaced
  <2> QED
    BY <1>3, <2>4 DEF Answer, TypeOK, pool
<1>4. CASE Blame(t)
  <2> DEFINE r == [u EXCEPT !.pc = "forget", !.guilty = {u.key}]
  <2>1. u.key \in Keys
    BY <1>4 DEF Blame, KeyInv, FailingOver
  <2>2. r \in TurnRecords /\ r.key \in Keys
    BY <1>0, <2>1, PhaseFacts DEF TurnRecords
  <2>3. Set(t, r)
    BY <1>4 DEF Blame
  <2>4. turn' \in [Turns -> TurnRecords] /\ KeyInv'
    <3> HIDE DEF r
    <3> QED
      BY <1>0, <2>2, <2>3, Replaced
  <2> QED
    BY <1>4, <2>1, <2>4 DEF Blame, MarkFailure, TypeOK
<1>5. CASE Forget(t)
  <2> DEFINE r == [u EXCEPT !.pc = "reselect"]
  <2>1. u.key \in Keys
    BY <1>5 DEF Forget, KeyInv, FailingOver
  <2>2. r \in TurnRecords /\ r.key \in Keys
    BY <1>0, <2>1, PhaseFacts DEF TurnRecords
  <2>3. Set(t, r)
    BY <1>5 DEF Forget
  <2>4. turn' \in [Turns -> TurnRecords] /\ KeyInv'
    <3> HIDE DEF r
    <3> QED
      BY <1>0, <2>2, <2>3, Replaced
  <2> QED
    BY <1>5, <2>4 DEF Forget, TypeOK, pool
<1>6. CASE AnotherRung(t)
  <2> DEFINE r == [u EXCEPT !.pc = "sent", !.outcome = "ok"]
  <2>1. r \in TurnRecords /\ r.pc \notin FailingOver
    BY <1>0, PhaseFacts DEF TurnRecords, FailingOver
  <2>2. Set(t, r)
    BY <1>6 DEF AnotherRung
  <2>3. turn' \in [Turns -> TurnRecords] /\ KeyInv'
    <3> HIDE DEF r
    <3> QED
      BY <1>0, <2>1, <2>2, Replaced
  <2> QED
    BY <1>6, <2>3 DEF AnotherRung, TypeOK, pool
<1>7. CASE Settle(t)
  <2>1. turn' \in [Turns -> TurnRecords] /\ KeyInv'
    BY <1>0, <1>7, IdleTyping, Replaced DEF Settle
  <2>2. enabled' \subseteq Keys /\ held' \subseteq Keys
    BY <1>7 DEF Settle, TypeOK, MarkFailure, MarkSuccess, NoMark
  <2>3. u.guilty \subseteq Keys
    BY <1>0 DEF TurnRecords
  <2>4. due' \subseteq Keys
    BY <1>7, <2>3 DEF Settle, TypeOK
  <2> QED
    BY <1>7, <2>1, <2>2, <2>4 DEF Settle, TypeOK
<1>8. CASE Abandon(t)
  <2>1. turn' \in [Turns -> TurnRecords] /\ KeyInv'
    BY <1>0, <1>8, IdleTyping, Replaced DEF Abandon
  <2> QED
    BY <1>8, <2>1 DEF Abandon, TypeOK, pool
<1> QED
  BY <1>1, <1>2, <1>3, <1>4, <1>5, <1>6, <1>7, <1>8 DEF TurnStep

(* What happens around the turns leaves the cursor alone too.              *)
LEMMA AroundStep ==
  ASSUME TypeOK, KeyInv, HoldEnds \/ UserEdits \/ UserTests
  PROVE  TypeOK' /\ KeyInv' /\ UNCHANGED <<next, passed>>
<1>1. CASE HoldEnds
  BY <1>1 DEF HoldEnds, TypeOK, KeyInv
<1>2. CASE UserTests
  BY <1>2 DEF UserTests, TypeOK, KeyInv, MarkSuccess, MarkFailure
<1>3. CASE UserEdits /\ UNCHANGED turn
  BY <1>3 DEF UserEdits, TypeOK, KeyInv
<1>4. CASE UserEdits /\ ~UNCHANGED turn
  <2>1. PICK k \in Keys :
          /\ enabled' \in {enabled \cup {k}, enabled \ {k}}
          /\ held' \in {held, held \ {k}}
          /\ due' = due \ {k}
          /\ turn' = [t \in Turns |-> [turn[t] EXCEPT !.guilty = @ \ {k}]]
          /\ UNCHANGED <<next, roundRobin, affinity, passed>>
    BY <1>4 DEF UserEdits
  <2>2. ASSUME NEW t \in Turns
        PROVE  turn'[t] \in TurnRecords /\ turn'[t].pc = turn[t].pc /\ turn'[t].key = turn[t].key
    <3>1. turn[t] \in TurnRecords /\ turn'[t] = [turn[t] EXCEPT !.guilty = @ \ {k}]
      BY <2>1 DEF TypeOK
    <3> QED
      BY <3>1 DEF TurnRecords
  <2>3. turn' \in [Turns -> TurnRecords] /\ KeyInv'
    BY <2>1, <2>2 DEF KeyInv
  <2> QED
    BY <2>1, <2>3 DEF TypeOK
<1> QED
  BY <1>1, <1>2, <1>3, <1>4

(* Every step preserves the invariants.                                    *)
LEMMA NextTyping ==
  ASSUME TypeOK, KeyInv, FairInv, [Next]_vars
  PROVE  TypeOK' /\ KeyInv' /\ FairInv'
<1>1. ASSUME UNCHANGED <<next, passed>> PROVE FairInv'
  BY <1>1 DEF FairInv, Gap
<1>2. ASSUME NEW t \in Turns, TurnStep(t) PROVE TypeOK' /\ KeyInv' /\ FairInv'
  <2>1. CASE Select(t) \/ Reselect(t)
    BY <2>1, SelectStep
  <2>2. CASE ~Select(t) /\ ~Reselect(t)
    BY <1>1, <1>2, <2>2, OtherStep
  <2> QED
    BY <2>1, <2>2
<1>3. CASE HoldEnds \/ UserEdits \/ UserTests
  BY <1>1, <1>3, AroundStep
<1>4. CASE UNCHANGED vars
  <2>1. TypeOK' /\ KeyInv' /\ UNCHANGED <<next, passed>>
    BY <1>4 DEF vars, pool, TypeOK, KeyInv
  <2> QED
    BY <1>1, <2>1
<1> QED
  BY <1>2, <1>3, <1>4 DEF Next

(* The invariants hold of every behaviour.                                 *)
LEMMA Invariants == Spec => [](TypeOK /\ KeyInv /\ FairInv)
<1>1. Init => TypeOK /\ KeyInv /\ FairInv
  BY InitTyping
<1>2. (TypeOK /\ KeyInv /\ FairInv) /\ [Next]_vars => (TypeOK /\ KeyInv /\ FairInv)'
  BY NextTyping
<1> QED
  BY <1>1, <1>2, PTL DEF Spec

(* The pool and the handlers' variables keep their types: every key a turn *)
(* sends, blames or remembers is one of the pool, or the provider's own.   *)
THEOREM PoolTypeCorrect == Spec => []TypeOK
BY Invariants, PTL

(* Round-robin passes over a usable key fewer than N times in a row,       *)
(* whatever the length of the pool and the number of turns.                *)
THEOREM RotationIsFair == Spec => []RoundRobinFair
<1>1. ASSUME TypeOK, FairInv PROVE RoundRobinFair
  <2> SUFFICES ASSUME NEW k \in Keys PROVE passed[k] < N
    BY DEF RoundRobinFair
  <2>1. /\ passed[k] \in Nat /\ Gap(next, k) \in 0 .. N - 1
        /\ passed[k] + Gap(next, k) <= N - 1
    BY <1>1, GapBound DEF TypeOK, FairInv
  <2> QED
    BY <2>1, PoolAssumption
<1> QED
  BY <1>1, Invariants, PTL

(***************************************************************************)
(* Refused keys.                                                           *)
(***************************************************************************)

(* RefusedStaysOff is about turns that have ended.  The key a turn failed  *)
(* over from is off as well, until the turn ends.                          *)
GuiltyOff == \A t \in Turns : turn[t].guilty \cap enabled = {}
OffInv == RefusedStaysOff /\ GuiltyOff

(* A handler's record replaced by one whose guilty keys are off, while no  *)
(* key is switched on.                                                     *)
LEMMA KeptOff ==
  ASSUME turn \in [Turns -> TurnRecords], GuiltyOff, NEW t \in Turns, NEW r,
         r.guilty \cap enabled' = {}, enabled' \subseteq enabled, Set(t, r)
  PROVE  GuiltyOff'
<1>1. turn'[t] = r
  BY DEF Set
<1>2. \A x \in Turns \ {t} : turn'[x] = turn[x]
  BY DEF Set
<1> QED
  BY <1>1, <1>2 DEF GuiltyOff

(* The step of a turn that ends it: what it was guilty of becomes due.     *)
LEMMA SettleOff ==
  ASSUME TypeOK, OffInv, NEW t \in Turns, Settle(t)
  PROVE  OffInv'
<1> DEFINE u == turn[t]
           bad == u.key \in Keys /\ u.outcome \in {"refused", "quota"}
<1>1. enabled' \subseteq enabled /\ (bad => u.key \notin enabled')
  BY DEF Settle, MarkFailure, MarkSuccess, NoMark
<1>2. due' \subseteq due \cup u.guilty \cup (IF bad THEN {u.key} ELSE {})
  BY DEF Settle
<1>3. RefusedStaysOff'
  BY <1>1, <1>2 DEF OffInv, RefusedStaysOff, GuiltyOff
<1>4. Set(t, Idle) /\ Idle.guilty = {}
  BY DEF Settle, Idle
<1>5. GuiltyOff'
  BY <1>1, <1>4, KeptOff DEF OffInv, TypeOK
<1> QED
  BY <1>3, <1>5 DEF OffInv

(* The other steps of a turn.                                              *)
LEMMA TurnOff ==
  ASSUME TypeOK, OffInv, NEW t \in Turns, TurnStep(t)
  PROVE  OffInv'
<1> DEFINE u == turn[t]
<1>0. /\ turn \in [Turns -> TurnRecords] /\ u.guilty \cap enabled = {}
      /\ u \in TurnRecords /\ Idle.guilty = {}
  BY DEF TypeOK, OffInv, GuiltyOff, Idle
<1>1. CASE Settle(t)
  BY <1>1, SettleOff
<1>2. CASE Blame(t)
  <2> DEFINE r == [u EXCEPT !.pc = "forget", !.guilty = {u.key}]
  <2>1. enabled' = enabled \ {u.key} /\ due' = due /\ Set(t, r)
    BY <1>2 DEF Blame, MarkFailure
  <2>2. r.guilty = {u.key}
    BY <1>0 DEF TurnRecords
  <2>3. GuiltyOff'
    <3> HIDE DEF r
    <3> QED
      BY <1>0, <2>1, <2>2, KeptOff DEF OffInv
  <2> QED
    BY <2>1, <2>3 DEF OffInv, RefusedStaysOff
<1>3. CASE /\ ~Settle(t) /\ ~Blame(t)
  <2>1. enabled' = enabled /\ due' = due
    BY <1>3 DEF TurnStep, Start, Select, Remember, Answer, Forget, Reselect,
                AnotherRung, Abandon, pool
  <2>2. turn'[t].guilty \in {{}, u.guilty}
    <3>1. CASE Start(t)
      BY <1>0, <3>1 DEF Start, Set, TurnRecords, Idle
    <3>2. CASE Select(t)
      BY <1>0, <3>2 DEF Select, Set, TurnRecords, Idle
    <3>3. CASE Remember(t)
      BY <1>0, <3>3 DEF Remember, Set, TurnRecords, Idle
    <3>4. CASE Answer(t)
      BY <1>0, <3>4 DEF Answer, Set, TurnRecords, Idle
    <3>5. CASE Forget(t)
      BY <1>0, <3>5 DEF Forget, Set, TurnRecords, Idle
    <3>6. CASE Reselect(t)
      BY <1>0, <3>6 DEF Reselect, Set, TurnRecords, Idle
    <3>7. CASE AnotherRung(t)
      BY <1>0, <3>7 DEF AnotherRung, Set, TurnRecords, Idle
    <3>8. CASE Abandon(t)
      BY <1>0, <3>8 DEF Abandon, Set, TurnRecords, Idle
    <3> QED
      BY <1>3, <3>1, <3>2, <3>3, <3>4, <3>5, <3>6, <3>7, <3>8 DEF TurnStep
  <2>3. Set(t, turn'[t])
    <3>1. CASE Start(t)
      BY <1>0, <3>1 DEF Start, Set
    <3>2. CASE Select(t)
      BY <1>0, <3>2 DEF Select, Set
    <3>3. CASE Remember(t)
      BY <1>0, <3>3 DEF Remember, Set
    <3>4. CASE Answer(t)
      BY <1>0, <3>4 DEF Answer, Set
    <3>5. CASE Forget(t)
      BY <1>0, <3>5 DEF Forget, Set
    <3>6. CASE Reselect(t)
      BY <1>0, <3>6 DEF Reselect, Set
    <3>7. CASE AnotherRung(t)
      BY <1>0, <3>7 DEF AnotherRung, Set
    <3>8. CASE Abandon(t)
      BY <1>0, <3>8 DEF Abandon, Set
    <3> QED
      BY <1>3, <3>1, <3>2, <3>3, <3>4, <3>5, <3>6, <3>7, <3>8 DEF TurnStep
  <2>4. GuiltyOff'
    BY <1>0, <2>1, <2>2, <2>3, KeptOff DEF OffInv
  <2> QED
    BY <2>1, <2>4 DEF OffInv, RefusedStaysOff
<1> QED
  BY <1>1, <1>2, <1>3

(* Around the turns only the user's form switches a key on, and then the   *)
(* refusal is forgotten.                                                   *)
LEMMA AroundOff ==
  ASSUME TypeOK, OffInv, HoldEnds \/ UserEdits \/ UserTests
  PROVE  OffInv'
<1>1. CASE /\ UNCHANGED <<due, turn>> /\ enabled' \subseteq enabled
  BY <1>1 DEF OffInv, RefusedStaysOff, GuiltyOff
<1>2. CASE UserEdits /\ \E k \in Keys :
              /\ enabled' \in {enabled \cup {k}, enabled \ {k}}
              /\ due' = due \ {k}
              /\ turn' = [t \in Turns |-> [turn[t] EXCEPT !.guilty = @ \ {k}]]
  <2>1. PICK k \in Keys :
              /\ enabled' \in {enabled \cup {k}, enabled \ {k}}
              /\ due' = due \ {k}
              /\ turn' = [t \in Turns |-> [turn[t] EXCEPT !.guilty = @ \ {k}]]
    BY <1>2
  <2>2. ASSUME NEW t \in Turns PROVE turn'[t].guilty = turn[t].guilty \ {k}
    <3>1. turn[t] \in TurnRecords /\ turn'[t] = [turn[t] EXCEPT !.guilty = @ \ {k}]
      BY <2>1 DEF TypeOK
    <3> QED
      BY <3>1 DEF TurnRecords
  <2>3. GuiltyOff'
    BY <2>1, <2>2 DEF OffInv, GuiltyOff
  <2> QED
    BY <2>1, <2>3 DEF OffInv, RefusedStaysOff
<1> QED
  BY <1>1, <1>2 DEF HoldEnds, UserEdits, UserTests, MarkSuccess, MarkFailure

(* A key that was refused to a turn is off from the end of that turn until *)
(* the user edits it, for any number of turns reporting of it at a time.   *)
THEOREM RefusedKeysStayOff == Spec => []RefusedStaysOff
<1>1. Init => OffInv
  BY DEF Init, OffInv, RefusedStaysOff, GuiltyOff, Idle
<1>2. TypeOK /\ OffInv /\ [Next]_vars => OffInv'
  <2> SUFFICES ASSUME TypeOK, OffInv, [Next]_vars PROVE OffInv'
    OBVIOUS
  <2>1. CASE UNCHANGED vars
    BY <2>1 DEF vars, pool, OffInv, RefusedStaysOff, GuiltyOff
  <2> QED
    BY <2>1, TurnOff, AroundOff DEF Next
<1>3. OffInv => RefusedStaysOff
  BY DEF OffInv
<1> QED
  BY <1>1, <1>2, <1>3, PoolTypeCorrect, PTL DEF Spec

(***************************************************************************)
(* The failover.                                                           *)
(***************************************************************************)

(* A selection that does not prefer a key takes a candidate while there is *)
(* one, and falls back to the provider's own key, or to none, otherwise.   *)
LEMMA SelectsCandidate ==
  ASSUME NEW C \in SUBSET Keys, NEW k, Selects(C, None, k)
  PROVE  IF C = {} THEN k \in {Own, None} ELSE k \in C
<1>1. None \notin C
  BY PoolAssumption
<1> QED
  BY <1>1 DEF Selects, AtCursor

(* Only a step of its own takes a turn out of the failover.                *)
LEMMA OnlyOwnStep ==
  ASSUME TypeOK, [Next]_vars, NEW t \in Turns, turn[t].pc = "reselect",
         turn'[t].pc \notin {"reselect", "idle"}
  PROVE  Reselect(t)
<1>0. turn \in [Turns -> TurnRecords] /\ Idle.pc = "idle"
  BY DEF TypeOK, Idle
<1>1. turn'[t].pc # turn[t].pc
  OBVIOUS
<1>2. ASSUME NEW x \in Turns, TurnStep(x) PROVE Reselect(t)
  <2>1. PICK r : Set(x, r)
    BY <1>2 DEF TurnStep, Start, Select, Remember, Answer, Blame, Forget, Reselect,
                AnotherRung, Settle, Abandon
  <2>2. x = t
    BY <1>0, <1>1, <2>1 DEF Set
  <2>3. ~Abandon(t)
    BY <1>0 DEF Abandon, Set
  <2> QED
    BY <1>2, <2>2, <2>3 DEF TurnStep, Start, Select, Remember, Answer, Blame, Forget,
                            AnotherRung, Settle
<1>3. ~(HoldEnds \/ UserTests \/ UNCHANGED vars)
  BY <1>1 DEF HoldEnds, UserTests, vars
<1>4. ~UserEdits
  <2>1. ASSUME NEW k, turn' = [x \in Turns |-> [turn[x] EXCEPT !.guilty = @ \ {k}]] PROVE FALSE
    BY <1>0, <1>1, <2>1 DEF TurnRecords
  <2> QED
    BY <1>1, <2>1 DEF UserEdits
<1> QED
  BY <1>2, <1>3, <1>4 DEF Next

(* The turn is sent again with a key of the rest of the pool while it has  *)
(* one that can be used.                                                   *)
LEMMA FailoverStep ==
  ASSUME TypeOK, KeyInv, [Next]_vars, NEW t \in Turns, turn[t].pc = "reselect",
         turn'[t].pc \notin {"reselect", "idle"}
  PROVE  LET rest == (enabled \ held) \ {turn[t].key} IN
         IF rest = {} THEN turn'[t].key \in {Own, turn[t].key}
                      ELSE turn'[t].pc = "remember" /\ turn'[t].key \in rest
<1> DEFINE u == turn[t]
           C == Candidates(u.key)
           r(k) == [u EXCEPT !.pc = "remember", !.outcome = "ok", !.key = k, !.first = u.key]
           j == [u EXCEPT !.pc = "judged"]
<1>1. Reselect(t)
  BY OnlyOwnStep
<1>2. C = (enabled \ held) \ {u.key} /\ C \in SUBSET Keys
  BY DEF Candidates, TypeOK
<1>3. /\ u.key \in Keys /\ u \in TurnRecords /\ turn \in [Turns -> TurnRecords]
      /\ u.key \notin C /\ u.key \notin {Own, None} /\ Own # None
  BY <1>2, PoolAssumption DEF KeyInv, FailingOver, TypeOK
<1>4. PICK k \in Keys \cup {Own, None} :
        Selects(C, None, k) /\ Set(t, IF k \in {None, u.key} THEN j ELSE r(k))
  BY <1>1 DEF Reselect
<1>5. IF C = {} THEN k \in {Own, None} ELSE k \in C
  BY <1>2, <1>4, SelectsCandidate
<1>6. k = None => turn'[t].key = u.key
  BY <1>3, <1>4 DEF Set, TurnRecords
<1>7. k \notin {None, u.key} => turn'[t].pc = "remember" /\ turn'[t].key = k
  BY <1>3, <1>4 DEF Set, TurnRecords
<1>8. k \in C => k \notin {None, u.key}
  BY <1>2, <1>3, PoolAssumption
<1> HIDE DEF C
<1> QED
  BY <1>2, <1>3, <1>5, <1>6, <1>7, <1>8

(* A turn that fails over tries the rest of the pool, however many turns   *)
(* and user edits come between the refusal and the selection               *)
(* (try_retry_with_next_provider_key, select_provider_key_for_request).    *)
THEOREM FailoverIsComplete == Spec => FailoverTriesTheRest
<1> DEFINE Tries(t) ==
      LET rest == (enabled \ held) \ {turn[t].key} IN
      turn[t].pc = "reselect" /\ turn'[t].pc \notin {"reselect", "idle"} =>
        IF rest = {} THEN turn'[t].key \in {Own, turn[t].key}
                     ELSE turn'[t].pc = "remember" /\ turn'[t].key \in rest
<1>1. TypeOK /\ KeyInv /\ [Next]_vars => [\A t \in Turns : Tries(t)]_vars
  BY FailoverStep
<1> QED
  BY <1>1, Invariants, PTL DEF Spec, FailoverTriesTheRest
=============================================================================

----------------------------- MODULE TurnsProofs -----------------------------
(***************************************************************************)
(* What holds of the components that turns share, for any number of turns  *)
(* and any values: the efforts they lower, the routes they are given, the  *)
(* sessions their answers leave and what is known of the prefixes they     *)
(* send; and of a compaction, for every set of statuses an upstream may    *)
(* answer with.                                                            *)
(***************************************************************************)
EXTENDS ResponseSessions, Efforts, Routing, PrefixControl, CompactTurn,
        FiniteSetTheorems, SequenceTheorems, WellFoundedInduction, TLAPS

-----------------------------------------------------------------------------
(* Minimum and maximum.                                                    *)

LEMMA LeastExists ==
  ASSUME NEW T \in SUBSET Nat, T # {}
  PROVE  Min(T) \in T /\ \A y \in T : Min(T) <= y
<1> DEFINE R == {ss \in Nat \X Nat : ss[1] < ss[2]}
<1>1. \A x, y \in Nat : y < x => <<y, x>> \in R
  OBVIOUS
<1>2. IsWellFoundedOn(R, Nat)
  BY NatLessThanWellFounded DEF OpToRel
<1> HIDE DEF R
<1>3. \E x \in T : \A y \in T : ~ (<<y, x>> \in R)
  BY <1>2, WFMin
<1>4. \E x \in T : \A y \in T : x <= y
  <2>1. PICK x \in T : \A y \in T : ~ (<<y, x>> \in R)
    BY <1>3
  <2>2. ASSUME NEW y \in T PROVE x <= y
    <3>1. x \in Nat /\ y \in Nat /\ <<y, x>> \notin R
      BY <2>1
    <3>2. ~ (y < x)
      BY <1>1, <3>1
    <3> QED BY <3>1, <3>2
  <2> QED BY <2>2
<1> QED BY <1>4 DEF Min

LEMMA GreatestExists ==
  ASSUME NEW n \in Nat, NEW T \in SUBSET (1 .. n), T # {}
  PROVE  Max(T) \in T /\ \A y \in T : y <= Max(T)
<1> DEFINE U == {k \in Nat : n - k \in T}
<1>1. U # {}
  <2>1. PICK y \in T : TRUE
    OBVIOUS
  <2>2. n - y \in Nat /\ n - (n - y) = y
    OBVIOUS
  <2> QED BY <2>1, <2>2
<1>2. Min(U) \in U /\ \A k \in U : Min(U) <= k
  BY <1>1, LeastExists
<1>3. n - Min(U) \in T
  BY <1>2
<1>4. ASSUME NEW y \in T PROVE y <= n - Min(U)
  <2>1. n - y \in U
    OBVIOUS
  <2> QED BY <1>2, <2>1
<1>5. \E x \in T : \A y \in T : x >= y
  BY <1>3, <1>4
<1> QED BY <1>5 DEF Max

-----------------------------------------------------------------------------
(* Efforts.                                                                *)

Phases == {"start", "cap", "sent", "judge", "lower", "resend", "proved", "lower_proved",
           "again", "lower_again"}
(* From the failed answer on, the turn holds a lower effort to go on with. *)
FallingBack == {"judge", "lower", "resend", "proved", "lower_proved", "again", "lower_again"}
Told == {"none", "ok", "names_effort", "html_502", "error"}

EffortTurns ==
  [at : Phases, model : Models, raised : BOOLEAN, effective : 0 .. Strongest,
   next : 0 .. Strongest, answer : Told, explicit : BOOLEAN, knew : SUBSET (1 .. Strongest)]

(* What a turn knew to be rejected still is; the lower effort is none of   *)
(* that; and past the judging the answer was one that asks for it.         *)
SoundTurn(t, rejected) ==
  /\ \A e \in t.knew : <<t.model, e>> \in rejected
  /\ t.at \in FallingBack => t.next # 0 /\ t.next < t.effective /\ t.next \notin t.knew
  /\ t.at \in FallingBack \ {"judge"} => t.answer \in {"names_effort", "html_502"}

EffortsInv ==
  /\ effortTurn \in [Agents -> EffortTurns]
  /\ override \in [Models -> Overrides]
  /\ supported \in [Models -> Catalogues]
  /\ \A a \in Agents : SoundTurn(effortTurn[a], rejections)

LEMMA NextLowerIs ==
  ASSUME Strongest \in Nat, NEW current, NEW rejected
  PROVE  LET lower == NextLower(current, rejected)
         IN  \/ /\ lower \in 1 .. Strongest /\ lower < current /\ lower \notin rejected
             \/ /\ lower = 0
                /\ \A e \in 1 .. Strongest : e < current => e \in rejected
<1> DEFINE open == {e \in 1 .. Strongest : e < current /\ e \notin rejected}
<1>1. CASE open = {}
  <2>1. NextLower(current, rejected) = 0
    BY <1>1 DEF NextLower, Effort
  <2>2. \A e \in 1 .. Strongest : e < current => e \in rejected
    BY <1>1
  <2> QED BY <2>1, <2>2
<1>2. CASE open # {}
  <2>1. NextLower(current, rejected) = Max(open)
    BY <1>2 DEF NextLower, Effort, Max
  <2>2. Max(open) \in open
    BY <1>2, GreatestExists
  <2> QED BY <2>1, <2>2
<1> QED BY <1>1, <1>2

LEMMA EffectiveIs ==
  ASSUME SoundLevels, NEW configured \in 0 .. Strongest, NEW asking \in 0 .. Strongest,
         NEW known \in Catalogues
  PROVE  Effective(configured, asking, known) \in 0 .. Strongest
<1> DEFINE wanted == IF configured # 0 THEN configured ELSE asking
           below == {e \in known : e <= wanted}
<1>1. wanted \in 0 .. Strongest /\ below \subseteq 1 .. Strongest /\ Strongest \in Nat
  BY DEF SoundLevels, Effort
<1>2. below # {} => Max(below) \in below
  BY <1>1, GreatestExists
<1>3. StrongestAtOrBelow(wanted, known) \in 0 .. Strongest
  <2>1. StrongestAtOrBelow(wanted, known) = IF below = {} THEN 0 ELSE Max(below)
    BY DEF StrongestAtOrBelow, Max
  <2> QED BY <1>1, <1>2, <2>1
<1> QED BY <1>1, <1>3 DEF Effective

(* One turn moves, and what is rejected grows.                             *)
LEMMA OneTurnMoves ==
  ASSUME EffortsInv, NEW a \in Agents, NEW t \in EffortTurns,
         effortTurn' = [effortTurn EXCEPT ![a] = t],
         rejections \subseteq rejections', SoundTurn(t, rejections'),
         override' \in [Models -> Overrides], supported' = supported
  PROVE  EffortsInv'
<1>1. effortTurn' \in [Agents -> EffortTurns]
  BY DEF EffortsInv
<1>2. ASSUME NEW b \in Agents PROVE SoundTurn(effortTurn'[b], rejections')
  <2>1. CASE b = a
    BY <2>1 DEF EffortsInv
  <2>2. CASE b # a
    <3>1. effortTurn'[b] = effortTurn[b] /\ SoundTurn(effortTurn[b], rejections)
      BY <2>2 DEF EffortsInv
    <3> QED BY <3>1 DEF SoundTurn
  <2> QED BY <2>1, <2>2
<1> QED BY <1>1, <1>2 DEF EffortsInv

LEMMA IdleTurnsAreSound ==
  ASSUME NEW m \in Models, NEW rejected, Strongest \in Nat
  PROVE  NoTurn(m) \in EffortTurns /\ SoundTurn(NoTurn(m), rejected)
BY DEF NoTurn, EffortTurns, SoundTurn, Phases, Told, FallingBack

(* A turn that is where it was but for its phase, or gives up.             *)
LEMMA PhaseMoves ==
  ASSUME EffortsInv, Strongest \in Nat, NEW a \in Agents,
         NEW phase \in {"resend", "proved", "lower_proved", "again", "lower_again"},
         effortTurn[a].at \in FallingBack \ {"judge"},
         \/ effortTurn' = [effortTurn EXCEPT ![a] = [effortTurn[a] EXCEPT !.at = phase]]
         \/ effortTurn' = [effortTurn EXCEPT ![a] = NoTurn(effortTurn[a].model)],
         rejections \subseteq rejections',
         override' \in [Models -> Overrides], supported' = supported
  PROVE  EffortsInv'
<1>1. effortTurn[a] \in EffortTurns /\ effortTurn[a].model \in Models /\ SoundTurn(effortTurn[a], rejections)
  BY DEF EffortsInv, EffortTurns
<1>2. CASE effortTurn' = [effortTurn EXCEPT ![a] = NoTurn(effortTurn[a].model)]
  <2>1. /\ NoTurn(effortTurn[a].model) \in EffortTurns
        /\ SoundTurn(NoTurn(effortTurn[a].model), rejections')
    BY <1>1, IdleTurnsAreSound
  <2> HIDE DEF EffortsInv
  <2> QED BY <1>2, <2>1, OneTurnMoves
<1>3. CASE effortTurn' = [effortTurn EXCEPT ![a] = [effortTurn[a] EXCEPT !.at = phase]]
  <2> DEFINE t == [effortTurn[a] EXCEPT !.at = phase]
  <2>1. t \in EffortTurns
    BY <1>1 DEF EffortTurns, Phases
  <2>2. SoundTurn(t, rejections')
    BY <1>1 DEF SoundTurn, EffortTurns, FallingBack
  <2>3. effortTurn' = [effortTurn EXCEPT ![a] = t]
    BY <1>3
  <2> HIDE DEF t
  <2> QED BY <2>1, <2>2, <2>3, OneTurnMoves
<1> QED BY <1>2, <1>3

LEMMA DecideKeepsInv ==
  ASSUME EffortsInv, SoundLevels, NEW a \in Agents, DecideEffort(a) PROVE EffortsInv'
<1>1. PICK m \in Models, agent \in Given :
        effortTurn' = [effortTurn EXCEPT ![a] =
          [NoTurn(m) EXCEPT
             !.at = "cap",
             !.raised = agent # 0
                          /\ (IF override[m].on THEN override[m].effort ELSE 0) > agent,
             !.effective = Effective(IF override[m].on THEN override[m].effort ELSE 0,
                                            agent, supported[m]),
             !.knew = RejectedEfforts(m)]]
  BY DEF DecideEffort
<1> DEFINE configured == IF override[m].on THEN override[m].effort ELSE 0
           above == agent # 0 /\ configured > agent
           effective == Effective(configured, agent, supported[m])
           knew == RejectedEfforts(m)
           t == [at |-> "cap", model |-> m, raised |-> above, effective |-> effective,
                 next |-> 0, answer |-> "none", explicit |-> FALSE, knew |-> knew]
<1>2. above \in BOOLEAN /\ effective \in 0 .. Strongest
  <2>1. configured \in 0 .. Strongest /\ agent \in 0 .. Strongest
    BY DEF EffortsInv, Overrides, Given, SoundLevels
  <2>2. supported[m] \in Catalogues
    BY DEF EffortsInv
  <2> QED BY <2>1, <2>2, EffectiveIs
<1>3. /\ knew \in SUBSET (1 .. Strongest)
      /\ \A e \in knew : <<m, e>> \in rejections
  BY DEF RejectedEfforts, Effort
<1>4. effortTurn' = [effortTurn EXCEPT ![a] = t]
  <2> HIDE DEF above, effective, knew
  <2> DEFINE no == NoTurn(m)
  <2>1. effortTurn' = [effortTurn EXCEPT ![a] = [no EXCEPT !.at = "cap", !.raised = above,
                                              !.effective = effective, !.knew = knew]]
    BY <1>1 DEF above, effective, knew
  <2>2. [no EXCEPT !.at = "cap", !.raised = above, !.effective = effective, !.knew = knew] = t
    <3> DEFINE none == FALSE
               start == [at |-> "start", model |-> m, raised |-> none, effective |-> 0,
                         next |-> 0, answer |-> "none", explicit |-> none, knew |-> {}]
               cap == [at |-> "cap", model |-> m, raised |-> above, effective |-> effective,
                       next |-> 0, answer |-> "none", explicit |-> none, knew |-> knew]
    <3>1. no = start /\ t = cap
      BY DEF NoTurn
    <3> HIDE DEF no, t, none
    <3>2. [start EXCEPT !.at = "cap", !.raised = above, !.effective = effective, !.knew = knew]
            = cap
      <4> DEFINE Set(at, raised, effort, known) ==
                   [at |-> at, model |-> m, raised |-> raised, effective |-> effort,
                    next |-> 0, answer |-> "none", explicit |-> none, knew |-> known]
                 s1 == Set("cap", none, 0, {})
                 s2 == Set("cap", above, 0, {})
                 s3 == Set("cap", above, effective, {})
      <4>1. [start EXCEPT !.at = "cap"] = s1
        OBVIOUS
      <4>2. [s1 EXCEPT !.raised = above] = s2
        OBVIOUS
      <4>3. [s2 EXCEPT !.effective = effective] = s3
        OBVIOUS
      <4>4. [s3 EXCEPT !.knew = knew] = cap
        OBVIOUS
      <4> HIDE DEF start, cap, s1, s2, s3
      <4> QED BY <4>1, <4>2, <4>3, <4>4
    <3> QED BY <3>1, <3>2
  <2> QED BY <2>1, <2>2
<1>5. t \in EffortTurns /\ SoundTurn(t, rejections')
  <2>1. rejections' = rejections
    BY DEF DecideEffort
  <2> HIDE DEF above, effective, knew
  <2>2. t \in EffortTurns
    BY <1>2, <1>3, SMT DEF EffortTurns, Phases, Told, SoundLevels
  <2> QED BY <1>3, <2>1, <2>2 DEF SoundTurn, FallingBack
<1>6. override' = override /\ supported' = supported /\ rejections' = rejections
  BY DEF DecideEffort
<1> HIDE DEF t
<1> QED BY <1>4, <1>5, <1>6, OneTurnMoves DEF EffortsInv

LEMMA CapKeepsInv ==
  ASSUME EffortsInv, SoundLevels, NEW a \in Agents, CapEffort(a) PROVE EffortsInv'
<1> DEFINE rejected == RejectedEfforts(effortTurn[a].model)
           lower == NextLower(effortTurn[a].effective, rejected)
           effort == IF effortTurn[a].effective \in rejected /\ lower # 0 THEN lower
                     ELSE effortTurn[a].effective
           t == [[effortTurn[a] EXCEPT !.at = "sent"] EXCEPT !.effective = effort]
<1>1. effortTurn[a] \in EffortTurns /\ SoundTurn(effortTurn[a], rejections)
  BY DEF EffortsInv
<1>2. effort \in 0 .. Strongest
  <2>1. lower \in 0 .. Strongest
    BY NextLowerIs DEF SoundLevels
  <2> QED BY <1>1, <2>1 DEF EffortTurns
<1>3. effortTurn' = [effortTurn EXCEPT ![a] = t]
  BY DEF CapEffort, EffortsInv
<1> HIDE DEF effort
<1>4. t \in EffortTurns /\ SoundTurn(t, rejections)
  BY <1>1, <1>2 DEF EffortTurns, Phases, SoundTurn, FallingBack
<1>5. override' = override /\ supported' = supported /\ rejections' = rejections
  BY DEF CapEffort
<1> HIDE DEF t
<1> QED BY <1>3, <1>4, <1>5, OneTurnMoves DEF EffortsInv

LEMMA AnswerKeepsInv ==
  ASSUME EffortsInv, SoundLevels, NEW a \in Agents, AnswerComes(a) PROVE EffortsInv'
<1> DEFINE t == effortTurn[a]
           next == IF t.effective = 0 THEN 0
                   ELSE NextLower(t.effective, RejectedEfforts(t.model))
<1>1. t \in EffortTurns /\ SoundTurn(t, rejections) /\ Strongest \in Nat
  BY DEF EffortsInv, SoundLevels
<1>2. PICK answer \in Answers :
        effortTurn' = [effortTurn EXCEPT
          ![a] = IF answer = "ok" \/ next = 0 THEN NoTurn(t.model)
                 ELSE [t EXCEPT !.at = "judge", !.answer = answer, !.next = next]]
  BY DEF AnswerComes
<1>3. override' = override /\ supported' = supported /\ rejections' = rejections
  BY DEF AnswerComes
<1>4. CASE answer = "ok" \/ next = 0
  <2>1. effortTurn' = [effortTurn EXCEPT ![a] = NoTurn(t.model)]
    BY <1>2, <1>4
  <2>2. NoTurn(t.model) \in EffortTurns /\ SoundTurn(NoTurn(t.model), rejections')
    BY <1>1, IdleTurnsAreSound DEF EffortTurns
  <2> QED BY <1>3, <2>1, <2>2, OneTurnMoves DEF EffortsInv
<1>5. CASE ~(answer = "ok" \/ next = 0)
  <2> DEFINE judged == [t EXCEPT !.at = "judge"]
             answered == [judged EXCEPT !.answer = answer]
             falling == [answered EXCEPT !.next = next]
  <2>1. next \in 1 .. Strongest /\ next < t.effective /\ next \notin t.knew
    <3>1. next = NextLower(t.effective, RejectedEfforts(t.model))
      BY <1>5
    <3>2. next \in 1 .. Strongest /\ next < t.effective
            /\ next \notin RejectedEfforts(t.model)
      BY <1>1, <1>5, <3>1, NextLowerIs
    <3>3. \A e \in t.knew : e \in RejectedEfforts(t.model)
      BY <1>1 DEF SoundTurn, EffortTurns, RejectedEfforts, Effort
    <3> QED BY <3>2, <3>3
  <2>2. effortTurn' = [effortTurn EXCEPT ![a] = falling]
    BY <1>2, <1>5
  <2> HIDE DEF next, t
  <2>3. judged \in EffortTurns /\ judged.effective = t.effective /\ judged.knew = t.knew
          /\ judged.model = t.model /\ judged.at = "judge"
    BY <1>1 DEF EffortTurns, Phases
  <2> HIDE DEF judged
  <2>4. answered \in EffortTurns /\ answered.effective = t.effective /\ answered.knew = t.knew
          /\ answered.model = t.model /\ answered.at = "judge"
    BY <2>3 DEF EffortTurns, Answers, Told
  <2> HIDE DEF answered
  <2>5. falling \in EffortTurns /\ falling.effective = t.effective /\ falling.knew = t.knew
          /\ falling.model = t.model /\ falling.at = "judge" /\ falling.next = next
    BY <2>1, <2>4 DEF EffortTurns
  <2> HIDE DEF falling
  <2>6. SoundTurn(falling, rejections')
    BY <1>1, <1>3, <2>1, <2>5 DEF SoundTurn, FallingBack
  <2> QED BY <1>3, <2>2, <2>5, <2>6, OneTurnMoves DEF EffortsInv
<1> QED BY <1>4, <1>5

LEMMA JudgeKeepsInv ==
  ASSUME EffortsInv, SoundLevels, NEW a \in Agents, Judge(a) PROVE EffortsInv'
<1> DEFINE t == effortTurn[a]
<1>1. t \in EffortTurns /\ SoundTurn(t, rejections) /\ Strongest \in Nat /\ t.at = "judge"
  BY DEF EffortsInv, SoundLevels, Judge
<1>2. override' = override /\ supported' = supported /\ rejections \subseteq rejections'
  BY DEF Judge, Noted
<1>3. CASE t.answer = "names_effort"
  <2> DEFINE yes == TRUE
             lowering == [t EXCEPT !.at = "lower"]
             explicit == [lowering EXCEPT !.explicit = yes]
  <2>1. effortTurn' = [effortTurn EXCEPT ![a] = explicit]
    <3>1. [t EXCEPT !.at = "lower", !.explicit = TRUE] = explicit
      OBVIOUS
    <3> DEFINE raw == [t EXCEPT !.at = "lower", !.explicit = TRUE]
    <3>2. effortTurn' = [effortTurn EXCEPT ![a] = CASE t.answer = "names_effort" -> raw
                                        [] ProbesOpaque(t) -> [t EXCEPT !.at = "resend"]
                                        [] OTHER -> NoTurn(t.model)]
      BY DEF Judge
    <3> HIDE DEF raw, t, explicit
    <3>3. ~ProbesOpaque(t)
      BY <1>3 DEF ProbesOpaque
    <3>4. effortTurn' = [effortTurn EXCEPT ![a] = raw]
      BY <1>3, <3>2, <3>3
    <3> QED BY <3>1, <3>4 DEF raw
  <2>2. yes \in BOOLEAN
    OBVIOUS
  <2> HIDE DEF yes, t
  <2>3. lowering \in EffortTurns /\ lowering.at = "lower" /\ lowering.answer = t.answer
          /\ lowering.model = t.model /\ lowering.next = t.next /\ lowering.knew = t.knew
          /\ lowering.effective = t.effective
    BY <1>1 DEF EffortTurns, Phases
  <2> HIDE DEF lowering
  <2>4. explicit \in EffortTurns /\ explicit.at = "lower" /\ explicit.answer = t.answer
          /\ explicit.model = t.model /\ explicit.next = t.next /\ explicit.knew = t.knew
          /\ explicit.effective = t.effective
    BY <2>2, <2>3 DEF EffortTurns
  <2> HIDE DEF explicit
  <2>5. SoundTurn(explicit, rejections')
    BY <1>1, <1>2, <1>3, <2>4 DEF SoundTurn, FallingBack
  <2> QED BY <1>2, <2>1, <2>4, <2>5, OneTurnMoves DEF EffortsInv
<1>4. CASE t.answer # "names_effort" /\ ProbesOpaque(t)
  <2> DEFINE probing == [t EXCEPT !.at = "resend"]
  <2>1. effortTurn' = [effortTurn EXCEPT ![a] = probing]
    BY <1>4 DEF Judge
  <2>2. t.answer = "html_502"
    BY <1>4 DEF ProbesOpaque
  <2>3. probing \in EffortTurns
    BY <1>1 DEF EffortTurns, Phases
  <2>4. SoundTurn(probing, rejections')
    BY <1>1, <1>2, <2>2 DEF SoundTurn, FallingBack, EffortTurns
  <2> HIDE DEF probing
  <2> QED BY <1>2, <2>1, <2>3, <2>4, OneTurnMoves DEF EffortsInv
<1>5. CASE t.answer # "names_effort" /\ ~ProbesOpaque(t)
  <2>1. effortTurn' = [effortTurn EXCEPT ![a] = NoTurn(t.model)]
    BY <1>5 DEF Judge
  <2>2. NoTurn(t.model) \in EffortTurns /\ SoundTurn(NoTurn(t.model), rejections')
    BY <1>1, IdleTurnsAreSound DEF EffortTurns
  <2> QED BY <1>2, <2>1, <2>2, OneTurnMoves DEF EffortsInv
<1> QED BY <1>3, <1>4, <1>5

(* The stored override is lowered, or left alone.                          *)
LEMMA PersistingIs ==
  ASSUME EffortsInv, NEW m \in Models, NEW current, NEW next \in 1 .. Strongest,
         Strongest \in Nat, PersistFallback(m, current, next)
  PROVE  /\ override' \in [Models -> Overrides]
         /\ \/ override' = override
            \/ /\ override[m].on /\ override[m].effort = current
               /\ override' = [override EXCEPT ![m].effort = next]
               /\ override'[m].effort = next
<1>1. override \in [Models -> Overrides]
  BY DEF EffortsInv
<1>2. CASE override' = override
  BY <1>1, <1>2
<1>3. CASE override' # override
  <2> DEFINE lowered == [override[m] EXCEPT !.effort = next]
  <2>1. /\ override[m].on /\ override[m].effort = current
        /\ override' = [override EXCEPT ![m] = lowered]
    BY <1>3 DEF PersistFallback, Persisted
  <2>2. lowered \in Overrides /\ lowered.effort = next
    BY <1>1 DEF Overrides, Given
  <2>3. override' = [override EXCEPT ![m].effort = next]
    BY <2>1
  <2> HIDE DEF lowered
  <2>4. override' \in [Models -> Overrides] /\ override'[m] = lowered
    BY <1>1, <2>1, <2>2
  <2> QED BY <2>1, <2>2, <2>3, <2>4
<1> QED BY <1>2, <1>3

(* The steps from the failed answer on but for the judging: the turn goes  *)
(* on with the lower effort, or gives up.                                  *)
LEMMA FallingBackMoves ==
  ASSUME EffortsInv, NEW a \in Agents,
         \/ LowerOverride(a) \/ ResendLowered(a) \/ Proved(a)
         \/ LowerProved(a) \/ RejectedAgain(a) \/ LowerAgain(a)
  PROVE  \/ effortTurn' = [effortTurn EXCEPT ![a] = NoTurn(effortTurn[a].model)]
         \/ \E phase \in {"resend", "proved", "lower_proved", "again", "lower_again"} :
              effortTurn' = [effortTurn EXCEPT ![a] = [effortTurn[a] EXCEPT !.at = phase]]
<1> DEFINE t == effortTurn[a]
           GivesUp == effortTurn' = [effortTurn EXCEPT ![a] = NoTurn(t.model)]
           Moves(phase) == effortTurn' = [effortTurn EXCEPT ![a] = [t EXCEPT !.at = phase]]
<1>0. t \in EffortTurns
  BY DEF EffortsInv
<1>1. CASE LowerOverride(a)
  <2>1. Moves("resend")
    BY <1>1, <1>0 DEF LowerOverride, EffortsInv
  <2> QED BY <2>1
<1>2. CASE ResendLowered(a)
  <2>1. PICK answer \in Answers :
          effortTurn' = [effortTurn EXCEPT ![a] =
            CASE answer = "ok" /\ ~t.explicit -> [t EXCEPT !.at = "proved"]
              [] answer = "names_effort" /\ t.explicit -> [t EXCEPT !.at = "again"]
              [] OTHER -> NoTurn(t.model)]
    BY <1>2, <1>0 DEF ResendLowered, EffortsInv
  <2> QED BY <2>1
<1>3. CASE Proved(a)
  <2>1. Moves("lower_proved")
    BY <1>3, <1>0 DEF Proved, EffortsInv
  <2> QED BY <2>1
<1>4. CASE LowerProved(a) \/ LowerAgain(a)
  <2>1. GivesUp
    BY <1>4, <1>0 DEF LowerProved, LowerAgain, EffortsInv
  <2> QED BY <2>1
<1>5. CASE RejectedAgain(a)
  <2>1. Moves("lower_again")
    BY <1>5, <1>0 DEF RejectedAgain, EffortsInv
  <2> QED BY <2>1
<1> QED BY <1>1, <1>2, <1>3, <1>4, <1>5

(* So the invariant stays, whichever of them is taken.                     *)
LEMMA FallingBackKeepsInv ==
  ASSUME EffortsInv, SoundLevels, NEW a \in Agents,
         \/ LowerOverride(a) \/ ResendLowered(a) \/ Proved(a)
         \/ LowerProved(a) \/ RejectedAgain(a) \/ LowerAgain(a)
  PROVE  EffortsInv'
<1> DEFINE t == effortTurn[a]
           GivesUp == effortTurn' = [effortTurn EXCEPT ![a] = NoTurn(t.model)]
           Moves(phase) == effortTurn' = [effortTurn EXCEPT ![a] = [t EXCEPT !.at = phase]]
<1>1. /\ t \in EffortTurns /\ SoundTurn(t, rejections) /\ Strongest \in Nat
      /\ override \in [Models -> Overrides]
  BY DEF EffortsInv, SoundLevels
<1>2. t.at \in FallingBack \ {"judge"}
  BY DEF LowerOverride, ResendLowered, Proved, LowerProved,
         RejectedAgain, LowerAgain, FallingBack
<1>3. t.model \in Models /\ t.next \in 1 .. Strongest
  BY <1>1, <1>2 DEF EffortTurns, SoundTurn
<1>4. supported' = supported /\ rejections \subseteq rejections'
  BY DEF LowerOverride, ResendLowered, Proved, LowerProved,
         RejectedAgain, LowerAgain, Noted
<1>5. GivesUp \/ Moves("resend") \/ Moves("proved") \/ Moves("lower_proved") \/ Moves("again")
        \/ Moves("lower_again")
  BY FallingBackMoves
<1>6. override' \in [Models -> Overrides]
  <2>1. CASE UNCHANGED override
    BY <1>1, <2>1
  <2>2. CASE \E current \in {t.effective} : PersistFallback(t.model, current, t.next)
    BY <1>1, <1>3, <2>2, PersistingIs
  <2>3. CASE LowerAgain(a) /\ ~UNCHANGED override
    <3> DEFINE further == NextLower(t.next, RejectedEfforts(t.model))
    <3>1. further # 0 /\ PersistFallback(t.model, t.next, further)
      BY <2>3 DEF LowerAgain
    <3>2. further \in 1 .. Strongest
      BY <1>1, <3>1, NextLowerIs
    <3> HIDE DEF further
    <3> QED BY <1>1, <1>3, <3>1, <3>2, PersistingIs
  <2> QED BY <2>1, <2>2, <2>3
        DEF LowerOverride, ResendLowered, Proved, LowerProved, RejectedAgain
<1>7. CASE GivesUp
  <2>1. NoTurn(t.model) \in EffortTurns /\ SoundTurn(NoTurn(t.model), rejections')
    BY <1>1, <1>3, IdleTurnsAreSound
  <2> QED BY <1>4, <1>6, <1>7, <2>1, OneTurnMoves
<1>8. CASE ~GivesUp
  <2>1. PICK phase \in {"resend", "proved", "lower_proved", "again", "lower_again"} : Moves(phase)
    BY <1>5, <1>8
  <2> QED BY <1>1, <1>2, <1>4, <1>6, <2>1, PhaseMoves
<1> QED BY <1>7, <1>8

(* A rejection that has expired is forgotten by those who knew it as well. *)
LEMMA OthersKeepEffortsInv ==
  ASSUME EffortsInv, SoundLevels,
         \/ \E m \in Models : Edit(m)
         \/ \E m \in Models, e \in Effort : Expire(m, e)
         \/ UNCHANGED evars
  PROVE  EffortsInv'
<1>1. CASE \E m \in Models : Edit(m)
  <2>1. override' \in [Models -> Overrides]
    BY <1>1 DEF Edit, EffortsInv
  <2>2. UNCHANGED <<supported, rejections, effortTurn>>
    BY <1>1 DEF Edit
  <2> QED BY <2>1, <2>2 DEF EffortsInv
<1>2. CASE \E m \in Models, e \in Effort : Expire(m, e)
  <2>1. PICK m \in Models, e \in Effort : Expire(m, e)
    BY <1>2
  <2>2. /\ rejections' = rejections \ {<<m, e>>} /\ UNCHANGED <<override, supported>>
        /\ effortTurn' = [a \in Agents |-> IF effortTurn[a].model = m
                                     THEN [effortTurn[a] EXCEPT !.knew = @ \ {e}] ELSE effortTurn[a]]
    BY <2>1 DEF Expire
  <2>3. ASSUME NEW a \in Agents
        PROVE  effortTurn'[a] \in EffortTurns /\ SoundTurn(effortTurn'[a], rejections')
    <3>1. effortTurn[a] \in EffortTurns /\ SoundTurn(effortTurn[a], rejections)
      BY DEF EffortsInv
    <3>2. CASE effortTurn[a].model # m
      <4>1. effortTurn'[a] = effortTurn[a]
        BY <2>2, <3>2
      <4> QED BY <2>2, <3>1, <3>2, <4>1 DEF SoundTurn
    <3>3. CASE effortTurn[a].model = m
      <4> DEFINE less == effortTurn[a].knew \ {e}
                 t == [effortTurn[a] EXCEPT !.knew = less]
      <4>1. effortTurn'[a] = t
        BY <2>2, <3>3
      <4>2. /\ t \in EffortTurns /\ t.at = effortTurn[a].at /\ t.model = effortTurn[a].model
            /\ t.next = effortTurn[a].next /\ t.effective = effortTurn[a].effective
            /\ t.answer = effortTurn[a].answer /\ t.knew = less
        BY <3>1 DEF EffortTurns
      <4> HIDE DEF t
      <4>3. SoundTurn(t, rejections')
        BY <2>2, <3>1, <3>3, <4>2 DEF SoundTurn
      <4> QED BY <4>1, <4>2, <4>3
    <3> QED BY <3>2, <3>3
  <2>4. effortTurn' \in [Agents -> EffortTurns]
    BY <2>2, <2>3
  <2> QED BY <2>2, <2>3, <2>4 DEF EffortsInv
<1>3. CASE UNCHANGED evars
  BY <1>3 DEF evars, EffortsInv
<1> QED BY <1>1, <1>2, <1>3

(* For any number of turns, models and efforts.                            *)
THEOREM TurnsKnowTheirRejections == SoundLevels => (EffortsSpec => []EffortsInv)
<1> SUFFICES ASSUME SoundLevels PROVE EffortsSpec => []EffortsInv
  OBVIOUS
<1>1. EffortsInit => EffortsInv
  <2> SUFFICES ASSUME EffortsInit PROVE EffortsInv
    OBVIOUS
  <2>1. PICK m \in Models : effortTurn = [a \in Agents |-> NoTurn(m)]
    BY DEF EffortsInit
  <2>2. NoTurn(m) \in EffortTurns /\ SoundTurn(NoTurn(m), rejections)
    BY IdleTurnsAreSound DEF SoundLevels
  <2> QED BY <2>1, <2>2 DEF EffortsInit, EffortsInv
<1>2. EffortsInv /\ [EffortsNext]_(evars) => EffortsInv'
  <2> SUFFICES ASSUME EffortsInv, [EffortsNext]_(evars) PROVE EffortsInv'
    OBVIOUS
  <2>1. CASE \E a \in Agents : EffortStep(a)
    BY <2>1, DecideKeepsInv, CapKeepsInv, AnswerKeepsInv, JudgeKeepsInv, FallingBackKeepsInv
      DEF EffortStep
  <2>2. CASE ~ \E a \in Agents : EffortStep(a)
    BY <2>2, OthersKeepEffortsInv DEF EffortsNext
  <2> QED BY <2>1, <2>2
<1> QED BY <1>1, <1>2, PTL DEF EffortsSpec

(* What a step decides to send: the capped effort, or the lower one the    *)
(* turn holds; a step of another turn, of the user or of time, nothing.    *)
LEMMA SendsWhatItHolds ==
  ASSUME EffortsInv, SoundLevels, [EffortsNext]_(evars), NEW a \in Agents
  PROVE  \/ NowSends(a) = 0
         \/ CapEffort(a)
         \/ effortTurn[a].at \in FallingBack /\ NowSends(a) = effortTurn[a].next
<1>1. effortTurn[a] \in EffortTurns /\ effortTurn \in [Agents -> EffortTurns]
  BY DEF EffortsInv
<1>2. ASSUME NEW b \in Agents, EffortStep(b), b # a PROVE NowSends(a) = 0
  <2>1. effortTurn'[a] = effortTurn[a]
    BY <1>1, <1>2 DEF EffortStep, DecideEffort, CapEffort, AnswerComes,
         Judge, LowerOverride, ResendLowered, Proved, LowerProved,
         RejectedAgain, LowerAgain
  <2> QED BY <2>1 DEF NowSends
<1>3. CASE DecideEffort(a)
  <2>1. effortTurn'[a].at = "cap"
    <3>1. PICK m \in Models, agent \in Given :
            effortTurn' = [effortTurn EXCEPT ![a] =
              [NoTurn(m) EXCEPT
                 !.at = "cap",
                 !.raised = agent # 0
                              /\ (IF override[m].on THEN override[m].effort ELSE 0) > agent,
                 !.effective = Effective(IF override[m].on THEN override[m].effort ELSE 0,
                                                agent, supported[m]),
                 !.knew = RejectedEfforts(m)]]
      BY <1>3 DEF DecideEffort
    <3> DEFINE no == NoTurn(m)
               above == agent # 0 /\ (IF override[m].on THEN override[m].effort ELSE 0) > agent
               effort == Effective(IF override[m].on THEN override[m].effort ELSE 0,
                                          agent, supported[m])
               known == RejectedEfforts(m)
    <3>2. no \in EffortTurns
      BY IdleTurnsAreSound DEF SoundLevels
    <3>3. effortTurn' = [effortTurn EXCEPT ![a] = [no EXCEPT !.at = "cap", !.raised = above,
                                                 !.effective = effort, !.knew = known]]
      BY <3>1
    <3> HIDE DEF no, above, effort, known
    <3>4. [no EXCEPT !.at = "cap", !.raised = above, !.effective = effort, !.knew = known].at
            = "cap"
      BY <3>2 DEF EffortTurns
    <3> QED BY <1>1, <3>3, <3>4
  <2> QED BY <2>1 DEF NowSends
<1>4. CASE AnswerComes(a)
  <2>1. effortTurn'[a].at \in {"start", "judge"}
    BY <1>1, <1>4 DEF AnswerComes, NoTurn, EffortTurns
  <2> QED BY <2>1 DEF NowSends
<1>5. CASE Judge(a)
  <2>1. \/ effortTurn'[a].at \in {"start", "lower"}
        \/ effortTurn' = [effortTurn EXCEPT ![a] = [effortTurn[a] EXCEPT !.at = "resend"]]
    <3> DEFINE t == effortTurn[a]
    <3>1. CASE t.answer = "names_effort"
      <4> DEFINE raw == [t EXCEPT !.at = "lower", !.explicit = TRUE]
      <4>1. raw.at = "lower"
        BY <1>1 DEF EffortTurns
      <4>2. effortTurn' = [effortTurn EXCEPT ![a] = CASE t.answer = "names_effort" -> raw
                                          [] ProbesOpaque(t) -> [t EXCEPT !.at = "resend"]
                                          [] OTHER -> NoTurn(t.model)]
        BY <1>5 DEF Judge
      <4>3. ~ProbesOpaque(t)
        BY <3>1 DEF ProbesOpaque
      <4> HIDE DEF raw, t
      <4>4. effortTurn' = [effortTurn EXCEPT ![a] = raw]
        BY <3>1, <4>2, <4>3
      <4> QED BY <1>1, <4>1, <4>4
    <3>2. CASE t.answer # "names_effort" /\ ProbesOpaque(t)
      BY <1>5, <3>2 DEF Judge
    <3>3. CASE t.answer # "names_effort" /\ ~ProbesOpaque(t)
      <4>1. effortTurn' = [effortTurn EXCEPT ![a] = NoTurn(t.model)]
        BY <1>5, <3>3 DEF Judge
      <4> QED BY <1>1, <4>1 DEF NoTurn
    <3> QED BY <3>1, <3>2, <3>3
  <2>2. effortTurn'[a].at \in {"start", "lower"} \/ (effortTurn'[a].at = "resend" /\ effortTurn'[a].next = effortTurn[a].next)
    BY <1>1, <2>1 DEF EffortTurns
  <2>3. effortTurn[a].at = "judge"
    BY <1>5 DEF Judge
  <2> QED BY <2>2, <2>3 DEF NowSends, FallingBack
<1>6. CASE \/ LowerOverride(a) \/ ResendLowered(a) \/ Proved(a)
           \/ LowerProved(a) \/ RejectedAgain(a) \/ LowerAgain(a)
  <2>1. effortTurn'[a].at = "start" \/ (effortTurn'[a].at # "sent" /\ effortTurn'[a].next = effortTurn[a].next)
    <3>1. CASE effortTurn' = [effortTurn EXCEPT ![a] = NoTurn(effortTurn[a].model)]
      BY <1>1, <3>1 DEF NoTurn
    <3>2. CASE \E phase \in {"resend", "proved", "lower_proved", "again", "lower_again"} :
                 effortTurn' = [effortTurn EXCEPT ![a] = [effortTurn[a] EXCEPT !.at = phase]]
      BY <1>1, <3>2 DEF EffortTurns
    <3> QED BY <1>6, <3>1, <3>2, FallingBackMoves
  <2>2. effortTurn[a].at \in FallingBack
    BY <1>6 DEF LowerOverride, ResendLowered, Proved, LowerProved,
         RejectedAgain, LowerAgain, FallingBack
  <2> QED BY <2>1, <2>2 DEF NowSends
<1>7. CASE \E m \in Models, e \in Effort : Expire(m, e)
  <2>1. effortTurn'[a].at = effortTurn[a].at
    BY <1>1, <1>7 DEF Expire, EffortTurns
  <2> QED BY <2>1 DEF NowSends
<1>8. CASE UNCHANGED effortTurn
  BY <1>8 DEF NowSends
<1> QED BY <1>2, <1>3, <1>4, <1>5, <1>6, <1>7, <1>8
      DEF EffortsNext, EffortStep, Edit, evars

(* For any number of turns that interleave with each other, with the user  *)
(* and with time: no turn asks for an effort it knew to be rejected while  *)
(* a lower one is open (apply_runtime_reasoning_effort_cap and the two     *)
(* places that fall back).                                                 *)
THEOREM KnownRejectionsStayAvoided ==
  SoundLevels => (EffortsSpec => KnownRejectionsAreAvoided)
<1> SUFFICES ASSUME SoundLevels PROVE EffortsSpec => KnownRejectionsAreAvoided
  OBVIOUS
<1> DEFINE Avoids(a) ==
      NowSends(a) \in effortTurn[a].knew =>
        \A e \in Effort : e < NowSends(a) => <<effortTurn[a].model, e>> \in rejections
<1>1. ASSUME EffortsInv, [EffortsNext]_(evars), NEW a \in Agents PROVE Avoids(a)
  <2>1. effortTurn[a] \in EffortTurns /\ SoundTurn(effortTurn[a], rejections) /\ Strongest \in Nat
    BY <1>1 DEF EffortsInv, SoundLevels
  <2>2. CASE NowSends(a) = 0
    <3>1. 0 \notin effortTurn[a].knew
      BY <2>1 DEF EffortTurns
    <3> QED BY <2>2, <3>1
  <2>3. CASE effortTurn[a].at \in FallingBack /\ NowSends(a) = effortTurn[a].next
    BY <2>1, <2>3 DEF SoundTurn
  <2>4. CASE CapEffort(a)
    <3> DEFINE known == RejectedEfforts(effortTurn[a].model)
               lower == NextLower(effortTurn[a].effective, known)
    <3>1. /\ effortTurn[a].at = "cap" /\ effortTurn'[a].at = "sent"
          /\ effortTurn'[a].effective = IF effortTurn[a].effective \in known /\ lower # 0 THEN lower
                                  ELSE effortTurn[a].effective
      BY <1>1, <2>1, <2>4 DEF CapEffort, EffortsInv, EffortTurns
    <3>2. NowSends(a) = effortTurn'[a].effective
      BY <3>1 DEF NowSends
    <3>3. \A e \in effortTurn[a].knew : e \in known
      BY <2>1 DEF SoundTurn, EffortTurns, RejectedEfforts, Effort
    <3>4. \/ lower # 0 /\ lower \notin known
          \/ lower = 0 /\ \A e \in 1 .. Strongest : e < effortTurn[a].effective => e \in known
      BY <2>1, NextLowerIs
    <3>5. \A e \in known : <<effortTurn[a].model, e>> \in rejections
      BY DEF RejectedEfforts
    <3> HIDE DEF known, lower
    <3> QED BY <3>1, <3>2, <3>3, <3>4, <3>5 DEF Effort
  <2> QED BY <1>1, <2>2, <2>3, <2>4, SendsWhatItHolds
<1>2. EffortsInv /\ [EffortsNext]_(evars) =>
        [\A a \in Agents : Avoids(a)]_(evars)
  BY <1>1
<1> HIDE DEF Avoids
<1>3. EffortsSpec => [][\A a \in Agents : Avoids(a)]_(evars)
  BY <1>2, TurnsKnowTheirRejections, PTL DEF EffortsSpec
<1> QED BY <1>3 DEF KnownRejectionsAreAvoided, Avoids

(* Only the three steps that persist a fallback move a turn and a stored   *)
(* override at once; an edit in between leaves nothing to persist.         *)
LEMMA LowersItsOwn ==
  ASSUME EffortsInv, SoundLevels, NEW a \in Agents,
         LowerOverride(a) \/ LowerProved(a) \/ LowerAgain(a),
         override' # override
  PROVE  LET t == effortTurn[a]
             m == t.model
         IN  /\ effortTurn'[a].at # t.at
             /\ override' = [override EXCEPT ![m].effort = override'[m].effort]
             /\ override[m].on
             /\ override'[m].effort < override[m].effort
             /\ override[m].effort \in {t.effective, t.next}
             /\ t.answer \in {"names_effort", "html_502"}
<1> DEFINE t == effortTurn[a]
           m == t.model
<1>1. /\ t \in EffortTurns /\ SoundTurn(t, rejections) /\ Strongest \in Nat
      /\ effortTurn \in [Agents -> EffortTurns]
  BY DEF EffortsInv, SoundLevels
<1>2. t.at \in FallingBack \ {"judge"} /\ t.at \notin {"start", "resend"}
  BY DEF LowerOverride, LowerProved, LowerAgain, FallingBack
<1>3. m \in Models /\ t.next \in 1 .. Strongest /\ t.next < t.effective
        /\ t.answer \in {"names_effort", "html_502"}
  BY <1>1, <1>2 DEF EffortTurns, SoundTurn
<1>4. effortTurn'[a].at \in {"start", "resend"}
  BY <1>1 DEF LowerOverride, LowerProved, LowerAgain, NoTurn, EffortTurns
<1>5. PICK current \in {t.effective, t.next}, next \in 1 .. Strongest :
        next < current /\ PersistFallback(m, current, next)
  <2>1. CASE LowerOverride(a) \/ LowerProved(a)
    BY <1>3, <2>1 DEF LowerOverride, LowerProved
  <2>2. CASE LowerAgain(a)
    <3> DEFINE further == NextLower(t.next, RejectedEfforts(m))
    <3>1. further # 0 /\ PersistFallback(m, t.next, further)
      BY <2>2 DEF LowerAgain
    <3>2. further \in 1 .. Strongest /\ further < t.next
      BY <1>1, <3>1, NextLowerIs
    <3> HIDE DEF further, m, t
    <3> QED BY <3>1, <3>2
  <2> QED BY <2>1, <2>2
<1> HIDE DEF m, t
<1>6. /\ override[m].on /\ override[m].effort = current
      /\ override' = [override EXCEPT ![m].effort = next]
      /\ override'[m].effort = next
  BY <1>1, <1>3, <1>5, PersistingIs
<1>7. override' = [override EXCEPT ![m].effort = override'[m].effort]
  BY <1>6
<1> QED BY <1>2, <1>3, <1>4, <1>5, <1>6, <1>7 DEF m, t

(* For any number of turns and edits that interleave: a turn lowers a      *)
(* stored effort only if it is still the one that it sent itself without   *)
(* success (persist_model_reasoning_effort_fallback).                      *)
THEOREM EditsOfTheUserWin ==
  SoundLevels => (EffortsSpec => OverrideFollowsItsOwnRejection)
<1> SUFFICES ASSUME SoundLevels PROVE EffortsSpec => OverrideFollowsItsOwnRejection
  OBVIOUS
<1> DEFINE Follows(a) ==
      LET t == effortTurn[a]
          m == t.model
      IN  /\ effortTurn'[a].at # t.at
          /\ override' = [override EXCEPT ![m].effort = override'[m].effort]
          /\ override[m].on
          /\ override'[m].effort < override[m].effort
          /\ override[m].effort \in {t.effective, t.next}
          /\ t.answer \in {"names_effort", "html_502"}
    Step == (effortTurn' # effortTurn /\ override' # override) => \E a \in Agents : Follows(a)
<1>1. ASSUME EffortsInv, [EffortsNext]_(evars) PROVE Step
  <2> SUFFICES ASSUME effortTurn' # effortTurn, override' # override PROVE \E a \in Agents : Follows(a)
    OBVIOUS
  <2>1. PICK a \in Agents : LowerOverride(a) \/ LowerProved(a) \/ LowerAgain(a)
    BY <1>1 DEF EffortsNext, EffortStep, DecideEffort, CapEffort,
       AnswerComes, Judge, ResendLowered, Proved, RejectedAgain,
       Edit, Expire, evars
  <2>2. Follows(a)
    BY <1>1, <2>1, LowersItsOwn
  <2> QED BY <2>2
<1>2. EffortsInv /\ [EffortsNext]_(evars) => [Step]_(evars)
  BY <1>1
<1> HIDE DEF Step
<1>3. EffortsSpec => [][Step]_(evars)
  BY <1>2, TurnsKnowTheirRejections, PTL DEF EffortsSpec
<1> QED BY <1>3 DEF OverrideFollowsItsOwnRejection, Step, Follows

-----------------------------------------------------------------------------
(* Routing.                                                                *)

(* The least of the indices at which a test holds, as SelectInSeq has it.  *)
LEMMA LeastIndex ==
  ASSUME NEW s, NEW I, I \subseteq 1 .. Len(s)
  PROVE  LET i == IF I # {} THEN Min(I) ELSE 0
         IN (i = 0 /\ I = {}) \/ (i # 0 /\ i \in I)
<1>1. I \in SUBSET Nat
  OBVIOUS
<1>2. CASE I # {}
  <2>1. Min(I) = Min(I)
    BY DEF Min, Min
  <2> QED BY <1>2, <1>1, <2>1, LeastExists
<1> QED BY <1>2


(* The models a provider offers that are switched on, and their ids.       *)
OnModels(p) == {m \in Range(Offers[p]) : m.on}
OfferedIds(p) == {m.id : m \in OnModels(p)}

(* One of the four ways finds a model that is switched on.                 *)
LEMMA ResolveIs ==
  ASSUME SoundRoutes, NEW p \in Ids, NEW name, Resolve(p, name) # Nothing
  PROVE  name # Nothing /\ (Offers[p] = <<>> \/ Resolve(p, name) \in OfferedIds(p))
<1> DEFINE s == Offers[p]
           by_id(m) == m.on /\ m.id = name
           by_alias(m) == m.on /\ Alias(m) = name
           by_lower(m) == m.on /\ Alias(m) # Nothing
                            /\ Lower[Alias(m)] = Lower[name]
           by_tail(m) == m.on /\ Base[m.id] # Nothing /\ Base[m.id] = Lower[name]
           a == First(s, by_id)
           b == First(s, by_alias)
           c == First(s, by_lower)
           d == First(s, by_tail)
           found == First(<<a, b, c, d>>, LAMBDA m : m # Nothing)
           FirstAt(I) == IF I # {} THEN Min(I) ELSE 0
           On(m) == m \in OnModels(p) \cup {Nothing}
<1>1. Resolve(p, name) =
        IF name = Nothing THEN Nothing
        ELSE IF Offers[p] = <<>> THEN name
        ELSE IF found = Nothing THEN Nothing ELSE found.id
  BY DEF Resolve
<1>2. ASSUME NEW I, I \subseteq 1 .. Len(s), \A i \in I : s[i].on
      PROVE  On(IF FirstAt(I) = 0 THEN Nothing ELSE s[FirstAt(I)])
  <2>1. (FirstAt(I) = 0) \/ (FirstAt(I) \in I)
    BY <1>2, LeastIndex
  <2> HIDE DEF FirstAt
  <2>2. CASE FirstAt(I) \in I
    <3>1. FirstAt(I) \in 1 .. Len(s) /\ s[FirstAt(I)].on
      BY <1>2, <2>2
    <3> DEFINE R == Range(s)
    <3>2. \A i \in 1 .. Len(s) : s[i] \in R
      <4>1. s \in Seq(R)
        BY DEF SoundRoutes
      <4> HIDE DEF R
      <4> QED BY <4>1
    <3>3. s[FirstAt(I)] \in Range(s)
      BY <3>1, <3>2
    <3>4. s[FirstAt(I)] \in OnModels(p)
      BY <3>1, <3>3 DEF OnModels
    <3> QED BY <3>4
  <2> QED BY <2>1, <2>2
<1>3. On(a)
  <2> DEFINE I == {i \in 1 .. Len(s) : by_id(s[i])}
  <2>1. a = IF FirstAt(I) = 0 THEN Nothing ELSE s[FirstAt(I)]
    BY DEF First, SelectInSeq
  <2> HIDE DEF FirstAt, On
  <2> QED BY <1>2, <2>1
<1>4. On(b)
  <2> DEFINE I == {i \in 1 .. Len(s) : by_alias(s[i])}
  <2>1. b = IF FirstAt(I) = 0 THEN Nothing ELSE s[FirstAt(I)]
    BY DEF First, SelectInSeq
  <2> HIDE DEF FirstAt, On
  <2> QED BY <1>2, <2>1
<1>5. On(c)
  <2> DEFINE I == {i \in 1 .. Len(s) : by_lower(s[i])}
  <2>1. c = IF FirstAt(I) = 0 THEN Nothing ELSE s[FirstAt(I)]
    BY DEF First, SelectInSeq
  <2> HIDE DEF FirstAt, On
  <2> QED BY <1>2, <2>1
<1>6. On(d)
  <2> DEFINE I == {i \in 1 .. Len(s) : by_tail(s[i])}
  <2>1. d = IF FirstAt(I) = 0 THEN Nothing ELSE s[FirstAt(I)]
    BY DEF First, SelectInSeq
  <2> HIDE DEF FirstAt, On
  <2> QED BY <1>2, <2>1
<1>7. found \in {Nothing, a, b, c, d}
  <2> DEFINE w == <<a, b, c, d>>
             I == {i \in 1 .. Len(w) : w[i] # Nothing}
  <2>1. found = IF FirstAt(I) = 0 THEN Nothing ELSE w[FirstAt(I)]
    BY DEF First, SelectInSeq
  <2> HIDE DEF found, a, b, c, d
  <2>2. I \subseteq 1 .. 4 /\ Len(w) = 4
    OBVIOUS
  <2>3. FirstAt(I) = 0 \/ FirstAt(I) \in 1 .. 4
    BY <2>2, LeastIndex
  <2> HIDE DEF FirstAt, I
  <2> QED BY <2>1, <2>3
<1> HIDE DEF found, a, b, c, d
<1> QED BY <1>1, <1>3, <1>4, <1>5, <1>6, <1>7 DEF OfferedIds

(* What a turn has to be sent with, by its copy of the configuration: the  *)
(* body of RoutedWhereItCanBeServed.                                       *)
Served(cfg, name, agent, provider, model) ==
  LET bound == agent /\ cfg.bound \in cfg.on
  IN  /\ provider \in cfg.on
      /\ bound => provider = cfg.bound
      /\ (\E q \in cfg.on : Resolve(q, name) # Nothing) /\ ~bound =>
           Offers[provider] = <<>> \/ model \in OfferedIds(provider)

LEMMA DecisionIs ==
  ASSUME SoundRoutes, NEW cfg \in Settings, NEW name, NEW agent \in BOOLEAN,
         DecideRoute(cfg, name, agent) # Nothing
  PROVE  LET d == DecideRoute(cfg, name, agent)
         IN  Served(cfg, name, agent, d.provider, d.model)
<1> DEFINE s == Providers
           FirstAt(I) == IF I # {} THEN Min(I) ELSE 0
           ElementAt(I) == IF FirstAt(I) = 0 THEN Nothing ELSE s[FirstAt(I)]
           enabled(p) == p \in cfg.on
           near(p) == p \in cfg.on \cap Preferred
           able(p) == p \in cfg.on /\ name # Nothing /\ Supports(p, name)
           active == OnlyIf(cfg.active, cfg.on)
           fitting == IF active # Nothing /\ Supports(active, name) THEN active ELSE Nothing
           first == First(s, able)
           second == First(s, near)
           third == First(s, enabled)
           provider == Else(BoundTo(cfg, agent),
                         Else(fitting, Else(first, Else(second, third))))
           set == IF agent THEN Resolve(provider, AgentModel) ELSE Nothing
           model == IF provider = Nothing THEN Nothing
                    ELSE Else(Resolve(provider, name),
                           Else(name, Else(set, FirstModel(provider))))
           d == DecideRoute(cfg, name, agent)
<1>1. d = IF model = Nothing THEN Nothing ELSE [provider |-> provider, model |-> model]
  BY DEF DecideRoute
<1>2. /\ cfg.on \subseteq Ids /\ Nothing \notin cfg.on
      /\ \A i \in 1 .. Len(s) : s[i] \in Ids
      /\ \A p \in Ids : \E i \in 1 .. Len(s) : s[i] = p
  <2>1. cfg.on \subseteq Ids
    BY DEF Settings
  <2>2. Nothing \notin Ids /\ s \in Seq(Ids)
    BY DEF SoundRoutes
  <2>3. \A p \in Ids : \E i \in DOMAIN s : s[i] = p
    BY DEF Ids, Range
  <2> QED BY <2>1, <2>2, <2>3
<1>3. ASSUME NEW I, I \subseteq 1 .. Len(s)
      PROVE  (ElementAt(I) = Nothing /\ I = {}) \/ \E i \in I : ElementAt(I) = s[i]
  BY <1>3, LeastIndex
<1>4. \/ first = Nothing /\ \A p \in Ids : ~able(p)
      \/ first \in cfg.on /\ able(first)
  <2> DEFINE I == {i \in 1 .. Len(s) : able(s[i])}
  <2>1. first = ElementAt(I)
    BY DEF First, SelectInSeq
  <2> HIDE DEF ElementAt, first
  <2>2. (ElementAt(I) = Nothing /\ I = {}) \/ \E i \in I : ElementAt(I) = s[i]
    BY <1>3
  <2> QED BY <1>2, <2>1, <2>2
<1>5. second = Nothing \/ second \in cfg.on
  <2> DEFINE I == {i \in 1 .. Len(s) : near(s[i])}
  <2>1. second = ElementAt(I)
    BY DEF First, SelectInSeq
  <2> HIDE DEF ElementAt, second
  <2> QED BY <1>3, <2>1
<1>6. third = Nothing \/ third \in cfg.on
  <2> DEFINE I == {i \in 1 .. Len(s) : enabled(s[i])}
  <2>1. third = ElementAt(I)
    BY DEF First, SelectInSeq
  <2> HIDE DEF ElementAt, third
  <2> QED BY <1>3, <2>1
<1> HIDE DEF first, second, third, able
<1>7. fitting = Nothing \/ (fitting \in cfg.on /\ Supports(fitting, name))
  BY DEF OnlyIf
<1>8. BoundTo(cfg, agent) = IF agent /\ cfg.bound \in cfg.on THEN cfg.bound ELSE Nothing
  BY DEF BoundTo, OnlyIf
<1> HIDE DEF fitting
<1>9. model # Nothing /\ d.provider = provider /\ d.model = model
  <2> HIDE DEF model, provider, d
  <2> QED BY <1>1 DEF d
<1>10. provider \in cfg.on
  BY <1>2, <1>4, <1>5, <1>6, <1>7, <1>8, <1>9 DEF Else
<1>11. agent /\ cfg.bound \in cfg.on => provider = cfg.bound
  BY <1>2, <1>8 DEF Else
<1>12. ASSUME NEW q \in cfg.on, Resolve(q, name) # Nothing, ~(agent /\ cfg.bound \in cfg.on)
       PROVE  Offers[provider] = <<>> \/ model \in OfferedIds(provider)
  <2>1. name # Nothing
    BY <1>2, <1>12, ResolveIs
  <2>2. able(q)
    BY <1>12, <2>1 DEF able, Supports
  <2>3. Supports(provider, name)
    <3>1. first # Nothing /\ Supports(first, name)
      BY <1>2, <1>4, <1>12, <2>2 DEF able
    <3> QED BY <1>2, <1>4, <1>7, <1>8, <1>12, <3>1 DEF Else
  <2> HIDE DEF provider
  <2>4. Resolve(provider, name) # Nothing
    BY <2>1, <2>3 DEF Supports
  <2>5. model = Resolve(provider, name)
    BY <1>2, <1>10, <2>4 DEF Else
  <2> QED BY <1>2, <1>10, <2>4, <2>5, ResolveIs
<1> HIDE DEF provider, model, d
<1> QED BY <1>9, <1>10, <1>11, <1>12 DEF Served, d

(* The affinity of the conversation overrides the decision only with a     *)
(* provider that is enabled and a model that this provider offers.         *)
LEMMA AffinityServes ==
  ASSUME SoundRoutes, NEW cfg \in Settings, NEW name, NEW agent \in BOOLEAN,
         DecideRoute(cfg, name, agent) # Nothing, NEW preferred,
         ~(agent /\ cfg.bound # Nothing)
  PROVE  LET d == ApplyAffinity(cfg, DecideRoute(cfg, name, agent), name, preferred)
         IN  Served(cfg, name, agent, d.provider, d.model)
<1> DEFINE before == DecideRoute(cfg, name, agent)
           model == IF name # Nothing THEN Resolve(preferred, name)
                    ELSE Else(Resolve(preferred, before.model),
                                     FirstModel(preferred))
           d == ApplyAffinity(cfg, before, name, preferred)
           stays == preferred = before.provider \/ preferred \notin cfg.on \/ model = Nothing
<1>1. d = IF stays THEN before ELSE [provider |-> preferred, model |-> model]
  BY DEF ApplyAffinity
<1>2. Served(cfg, name, agent, before.provider, before.model)
  BY DecisionIs
<1>3. CASE stays
  BY <1>1, <1>2, <1>3
<1>4. CASE ~stays
  <2>1. preferred \in cfg.on /\ model # Nothing /\ cfg.on \subseteq Ids
    BY <1>4 DEF Settings
  <2>2. Nothing \notin cfg.on
    BY <2>1 DEF SoundRoutes
  <2>3. ASSUME NEW q \in cfg.on, Resolve(q, name) # Nothing
        PROVE  Offers[preferred] = <<>> \/ model \in OfferedIds(preferred)
    <3>1. name # Nothing
      BY <2>1, <2>3, ResolveIs
    <3>2. model = Resolve(preferred, name)
      BY <3>1
    <3> QED BY <2>1, <3>2, ResolveIs
  <2> HIDE DEF before, model
  <2>4. d.provider = preferred /\ d.model = model
    BY <1>1, <1>4
  <2> HIDE DEF d, stays
  <2> QED BY <2>1, <2>2, <2>3, <2>4 DEF Served, d, before
<1> QED BY <1>3, <1>4

-----------------------------------------------------------------------------
(* A turn has its fields and a copy of the configuration.                  *)
IsRoute(r) ==
  /\ r = [at |-> r.at, cfg |-> r.cfg, agent |-> r.agent, conv |-> r.conv,
          preferred |-> r.preferred, to |-> r.to]
  /\ r.at \in {"lookup", "forget", "decide", "sent"}
  /\ r.cfg \in Settings /\ r.agent \in BOOLEAN

SoundRoute(r) ==
  \/ r = NoRoute
  \/ IsRoute(r) /\ (r.at = "sent" =>
       Served(r.cfg, Wants[r.conv], r.agent, r.to.provider, r.to.model))

RoutingInv ==
  /\ settings \in Settings
  /\ DOMAIN route = Callers
  /\ \A t \in Callers : SoundRoute(route[t])

LEMMA OneRouteMoves ==
  ASSUME RoutingInv, NEW t \in Callers, NEW r, SoundRoute(r),
         route' = [route EXCEPT ![t] = r], settings' = settings
  PROVE  RoutingInv'
<1>1. DOMAIN route' = Callers
  BY DEF RoutingInv
<1>2. ASSUME NEW o \in Callers PROVE SoundRoute(route'[o])
  <2>1. CASE o = t
    BY <2>1 DEF RoutingInv
  <2>2. CASE o # t
    BY <2>2 DEF RoutingInv
  <2> QED BY <2>1, <2>2
<1> QED BY <1>1, <1>2 DEF RoutingInv

LEMMA ArriveKeepsInv ==
  ASSUME RoutingInv, NEW t \in Callers, Arrive(t) PROVE RoutingInv'
<1>1. PICK who, c :
        route' = [route EXCEPT ![t] =
          [at |-> "lookup", cfg |-> settings, agent |-> who = "agent", conv |-> c,
           preferred |-> Nothing, to |-> Nothing]]
  BY DEF Arrive
<1> DEFINE agent == who = "agent"
           r == [at |-> "lookup", cfg |-> settings, agent |-> agent, conv |-> c,
                 preferred |-> Nothing, to |-> Nothing]
<1>2. agent \in BOOLEAN
  OBVIOUS
<1>3. route' = [route EXCEPT ![t] = r] /\ settings' = settings
  BY <1>1 DEF Arrive
<1> HIDE DEF agent
<1>4. SoundRoute(r)
  BY <1>2 DEF SoundRoute, IsRoute, RoutingInv
<1> HIDE DEF r
<1> QED BY <1>3, <1>4, OneRouteMoves

(* A step that sets only the phase, or the preferred provider with it.     *)
LEMMA WaitingKeepsInv ==
  ASSUME RoutingInv, NEW t \in Callers, Lookup(t) \/ ForgetAffinity(t)
  PROVE  RoutingInv'
<1> DEFINE r == route[t]
<1>1. IsRoute(r) /\ settings' = settings
  BY DEF RoutingInv, SoundRoute, Lookup, ForgetAffinity, NoRoute
<1>2. \E at \in {"decide", "forget"} : \E preferred :
        route' = [route EXCEPT ![t] = [[r EXCEPT !.preferred = preferred] EXCEPT !.at = at]]
  <2>1. CASE Lookup(t)
    <3> DEFINE p == OnlyIf(routeAffinity[r.conv], r.cfg.on)
               at == IF routeAffinity[r.conv] = Nothing \/ routeAffinity[r.conv] \in r.cfg.on
                     THEN "decide" ELSE "forget"
    <3>1. route' = [route EXCEPT ![t] = [[r EXCEPT !.preferred = p] EXCEPT !.at = at]]
      BY <2>1 DEF Lookup, RoutingInv
    <3>2. at \in {"decide", "forget"}
      OBVIOUS
    <3> HIDE DEF p, at, r
    <3> QED BY <3>1, <3>2
  <2>2. CASE ForgetAffinity(t)
    <3>1. [r EXCEPT !.preferred = r.preferred] = r
      BY <1>1 DEF IsRoute
    <3>2. route' = [route EXCEPT ![t] = [r EXCEPT !.at = "decide"]]
      BY <2>2 DEF ForgetAffinity, RoutingInv
    <3>3. route' = [route EXCEPT ![t] = [[r EXCEPT !.preferred = r.preferred] EXCEPT !.at = "decide"]]
      BY <3>1, <3>2
    <3> HIDE DEF r
    <3> QED BY <3>3
  <2> QED BY <2>1, <2>2
<1>2a. PICK at \in {"decide", "forget"} : \E preferred :
         route' = [route EXCEPT ![t] = [[r EXCEPT !.preferred = preferred] EXCEPT !.at = at]]
  BY <1>2
<1>2b. PICK preferred :
         route' = [route EXCEPT ![t] = [[r EXCEPT !.preferred = preferred] EXCEPT !.at = at]]
  BY <1>2a
<1> DEFINE next == [[r EXCEPT !.preferred = preferred] EXCEPT !.at = at]
<1> HIDE DEF r
<1>3. next = [at |-> at, cfg |-> r.cfg, agent |-> r.agent, conv |-> r.conv,
              preferred |-> preferred, to |-> r.to]
  <2> DEFINE mid == [r EXCEPT !.preferred = preferred]
  <2>1. mid = [at |-> r.at, cfg |-> r.cfg, agent |-> r.agent, conv |-> r.conv,
               preferred |-> preferred, to |-> r.to]
    BY <1>1 DEF IsRoute
  <2> HIDE DEF mid
  <2>2. [mid EXCEPT !.at = at] = [at |-> at, cfg |-> r.cfg, agent |-> r.agent, conv |-> r.conv,
                                  preferred |-> preferred, to |-> r.to]
    BY <2>1
  <2> QED BY <2>2 DEF mid
<1>4. route' = [route EXCEPT ![t] = next]
  BY <1>2b
<1> HIDE DEF next
<1>5. SoundRoute(next)
  BY <1>1, <1>3 DEF SoundRoute, IsRoute
<1> QED BY <1>1, <1>4, <1>5, OneRouteMoves

LEMMA DecidingKeepsInv ==
  ASSUME SoundRoutes, RoutingInv, NEW t \in Callers, Decide(t) PROVE RoutingInv'
<1> DEFINE r == route[t]
           decision == DecideRoute(r.cfg, Wants[r.conv], r.agent)
           final == IF BoundByAgent(r) \/ r.preferred = Nothing THEN decision
                    ELSE ApplyAffinity(r.cfg, decision, Wants[r.conv], r.preferred)
<1>1. IsRoute(r) /\ settings' = settings
  BY DEF RoutingInv, SoundRoute, Decide, NoRoute
<1>2. CASE decision = Nothing
  <2>1. route' = [route EXCEPT ![t] = NoRoute]
    BY <1>2 DEF Decide
  <2>2. SoundRoute(NoRoute)
    BY DEF SoundRoute
  <2> QED BY <1>1, <2>1, <2>2, OneRouteMoves
<1>3. CASE decision # Nothing
  <2> DEFINE next == [[r EXCEPT !.at = "sent"] EXCEPT !.to = final]
  <2>1. route' = [route EXCEPT ![t] = next]
    BY <1>3 DEF Decide, RoutingInv
  <2>2. Served(r.cfg, Wants[r.conv], r.agent, final.provider, final.model)
    <3>1. r.cfg \in Settings /\ r.agent \in BOOLEAN
      BY <1>1 DEF IsRoute
    <3>2. CASE BoundByAgent(r) \/ r.preferred = Nothing
      BY <1>3, <3>1, <3>2, DecisionIs
    <3>3. CASE ~(BoundByAgent(r) \/ r.preferred = Nothing)
      <4>1. ~(r.agent /\ r.cfg.bound # Nothing)
        BY <3>3 DEF BoundByAgent
      <4>2. final = ApplyAffinity(r.cfg, decision, Wants[r.conv], r.preferred)
        BY <3>3
      <4> HIDE DEF final, r
      <4> QED BY <1>3, <3>1, <4>1, <4>2, AffinityServes
    <3> QED BY <3>2, <3>3
  <2> HIDE DEF final, r
  <2>3. next = [at |-> "sent", cfg |-> r.cfg, agent |-> r.agent, conv |-> r.conv,
                preferred |-> r.preferred, to |-> final]
    <3> DEFINE mid == [r EXCEPT !.at = "sent"]
    <3>1. mid = [at |-> "sent", cfg |-> r.cfg, agent |-> r.agent, conv |-> r.conv,
                 preferred |-> r.preferred, to |-> r.to]
      BY <1>1 DEF IsRoute
    <3> HIDE DEF mid
    <3>2. [mid EXCEPT !.to = final] = [at |-> "sent", cfg |-> r.cfg, agent |-> r.agent,
                                       conv |-> r.conv, preferred |-> r.preferred, to |-> final]
      BY <3>1
    <3> QED BY <3>2 DEF mid
  <2> HIDE DEF next
  <2>4. SoundRoute(next)
    BY <1>1, <2>2, <2>3 DEF SoundRoute, IsRoute
  <2> QED BY <1>1, <2>1, <2>4, OneRouteMoves
<1> QED BY <1>2, <1>3

(* For any providers, models, names and callers, whatever the user and     *)
(* other turns change meanwhile: the turns on their way were decided       *)
(* soundly.                                                                *)
THEOREM DecisionsAreSound == SoundRoutes => (RoutingSpec => []RoutingInv)
<1> SUFFICES ASSUME SoundRoutes PROVE RoutingSpec => []RoutingInv
  OBVIOUS
<1>1. RoutingInit => RoutingInv
  BY DEF RoutingInit, RoutingInv, SoundRoute
<1>2. RoutingInv /\ [RoutingNext]_(rvars) => RoutingInv'
  <2> SUFFICES ASSUME RoutingInv, [RoutingNext]_(rvars) PROVE RoutingInv'
    OBVIOUS
  <2>1. ASSUME NEW t \in Callers, Answered(t) PROVE RoutingInv'
    <3>1. route' = [route EXCEPT ![t] = NoRoute] /\ settings' = settings
      BY <2>1 DEF Answered
    <3>2. SoundRoute(NoRoute)
      BY DEF SoundRoute
    <3> QED BY <3>1, <3>2, OneRouteMoves
  <2>2. CASE Configure
    <3>1. settings' \in Settings /\ route' = route
      BY <2>2 DEF Configure
    <3> QED BY <3>1 DEF RoutingInv
  <2>3. CASE UNCHANGED rvars
    BY <2>3 DEF rvars, RoutingInv
  <2> QED BY <2>1, <2>2, <2>3, ArriveKeepsInv, WaitingKeepsInv, DecidingKeepsInv
        DEF RoutingNext
<1> QED BY <1>1, <1>2, PTL DEF RoutingSpec

(* Every turn on its way goes where it can be served, by its own copy of   *)
(* the configuration (decide_route, apply_provider_route_affinity).        *)
THEOREM TurnsAreServed == SoundRoutes => (RoutingSpec => []RoutedWhereItCanBeServed)
<1> SUFFICES ASSUME SoundRoutes PROVE RoutingSpec => []RoutedWhereItCanBeServed
  OBVIOUS
<1>1. RoutingInv => RoutedWhereItCanBeServed
  <2> SUFFICES ASSUME RoutingInv, NEW t \in Callers, route[t].at = "sent"
               PROVE  LET r == route[t]
                          p == r.to.provider
                          name == Wants[r.conv]
                          offered == \E q \in r.cfg.on : Resolve(q, name) # Nothing
                          ids(q) == {m.id : m \in {n \in Range(Offers[q]) : n.on}}
                      IN  /\ p \in r.cfg.on
                          /\ r.agent /\ r.cfg.bound \in r.cfg.on => p = r.cfg.bound
                          /\ offered /\ ~(r.agent /\ r.cfg.bound \in r.cfg.on) =>
                               Offers[p] = <<>> \/ r.to.model \in ids(p)
    BY DEF RoutedWhereItCanBeServed
  <2>1. Served(route[t].cfg, Wants[route[t].conv], route[t].agent,
               route[t].to.provider, route[t].to.model)
    BY DEF RoutingInv, SoundRoute, NoRoute
  <2> QED BY <2>1 DEF Served, OfferedIds, OnModels
<1> QED BY <1>1, DecisionsAreSound, PTL

-----------------------------------------------------------------------------
(* The items that are kept of a history.                                   *)

Upto(s, i) == {j \in Standing(s) : j <= i}
Count(s, i) == Cardinality(Upto(s, i))

LEMMA CountIs ==
  ASSUME NEW S, NEW s \in Seq(S)
  PROVE  /\ Count(s, 0) = 0 /\ Cardinality(Standing(s)) = Count(s, Len(s))
         /\ \A i \in 0 .. Len(s) : Count(s, i) \in Nat /\ IsFiniteSet(Upto(s, i))
         /\ \A i \in 1 .. Len(s) : Count(s, i) = Count(s, i - 1) + (IF Needed(s[i]) THEN 1 ELSE 0)
<1>1. Standing(s) \subseteq 1 .. Len(s) /\ Len(s) \in Nat
  BY DEF Standing
<1>2. Upto(s, 0) = {} /\ Upto(s, Len(s)) = Standing(s)
  BY <1>1 DEF Upto
<1>3. ASSUME NEW i \in 0 .. Len(s) PROVE Count(s, i) \in Nat /\ IsFiniteSet(Upto(s, i))
  <2>1. Upto(s, i) \in SUBSET (1 .. Len(s))
    BY <1>1 DEF Upto
  <2>2. IsFiniteSet(1 .. Len(s))
    BY <1>1, FS_Interval
  <2>3. IsFiniteSet(Upto(s, i))
    BY <2>1, <2>2, FS_Subset
  <2> QED BY <2>3, FS_CardinalityType DEF Count
<1>4. ASSUME NEW i \in 1 .. Len(s)
      PROVE  Count(s, i) = Count(s, i - 1) + (IF Needed(s[i]) THEN 1 ELSE 0)
  <2>1. i - 1 \in 0 .. Len(s) /\ i \in 0 .. Len(s)
    BY <1>1
  <2>2. IsFiniteSet(Upto(s, i - 1)) /\ Count(s, i - 1) \in Nat
    BY <1>3, <2>1
  <2>3. CASE Needed(s[i])
    <3>1. Upto(s, i) = Upto(s, i - 1) \cup {i} /\ i \notin Upto(s, i - 1)
      BY <1>1, <2>3 DEF Upto, Standing
    <3> QED BY <2>2, <2>3, <3>1, FS_AddElement DEF Count
  <2>4. CASE ~Needed(s[i])
    <3>1. Upto(s, i) = Upto(s, i - 1)
      BY <1>1, <2>4 DEF Upto, Standing
    <3> QED BY <2>2, <2>4, <3>1 DEF Count
  <2> QED BY <2>3, <2>4
<1> QED BY <1>2, <1>3, <1>4, FS_EmptySet DEF Count

LEMMA CountGrows ==
  ASSUME NEW S, NEW s \in Seq(S), NEW i \in 0 .. Len(s), NEW j \in 0 .. Len(s), i <= j
  PROVE  Count(s, i) <= Count(s, j) /\ (i < j /\ Needed(s[j]) => Count(s, i) < Count(s, j))
<1>1. ASSUME NEW k \in 0 .. Len(s), i <= k PROVE Count(s, i) <= Count(s, k)
  <2>1. Upto(s, i) \in SUBSET Upto(s, k)
    BY <1>1 DEF Upto, Standing
  <2>2. IsFiniteSet(Upto(s, k))
    BY CountIs
  <2> QED BY <2>1, <2>2, FS_Subset DEF Count
<1>2. ASSUME i < j, Needed(s[j]) PROVE Count(s, i) < Count(s, j)
  <2>1. j - 1 \in 0 .. Len(s) /\ i <= j - 1 /\ j \in 1 .. Len(s)
    BY <1>2
  <2>2. Count(s, i) <= Count(s, j - 1)
    BY <1>1, <2>1
  <2>3. Count(s, j) = Count(s, j - 1) + 1
    BY <1>2, <2>1, CountIs
  <2>4. Count(s, i) \in Nat /\ Count(s, j - 1) \in Nat
    BY <2>1, CountIs
  <2> QED BY <2>2, <2>3, <2>4
<1> QED BY <1>1, <1>2

LEMMA PositionIs ==
  ASSUME NEW S, NEW s \in Seq(S), NEW n \in 1 .. Count(s, Len(s))
  PROVE  PositionOf(n, s) \in Standing(s) /\ Count(s, PositionOf(n, s)) = n
<1> DEFINE T == {i \in 0 .. Len(s) : n <= Count(s, i)}
           m == Min(T)
<1>1. Len(s) \in Nat /\ n \in Nat /\ n > 0 /\ Len(s) \in T /\ T \in SUBSET Nat
  BY CountIs
<1>2. m \in T /\ \A y \in T : m <= y
  BY <1>1, LeastExists
<1> HIDE DEF m
<1>3. m \in 1 .. Len(s)
  BY <1>1, <1>2, CountIs
<1>4. m - 1 \in 0 .. Len(s) /\ ~ (n <= Count(s, m - 1))
  BY <1>2, <1>3
<1>5. /\ Count(s, m - 1) \in Nat /\ Count(s, m) \in Nat
      /\ Count(s, m) = Count(s, m - 1) + (IF Needed(s[m]) THEN 1 ELSE 0)
  BY <1>3, <1>4, CountIs
<1>6. n <= Count(s, m)
  BY <1>2
<1>7. Needed(s[m]) /\ Count(s, m) = n
  BY <1>1, <1>4, <1>5, <1>6
<1>8. m \in Standing(s)
  BY <1>3, <1>7 DEF Standing
<1> QED BY <1>7, <1>8 DEF PositionOf, Count, Upto

LEMMA PositionAt ==
  ASSUME NEW S, NEW s \in Seq(S), NEW i \in Standing(s)
  PROVE  Count(s, i) \in 1 .. Count(s, Len(s)) /\ PositionOf(Count(s, i), s) = i
<1>1. i \in 1 .. Len(s) /\ Needed(s[i]) /\ Len(s) \in Nat
  BY DEF Standing
<1>2. Count(s, i) <= Count(s, Len(s)) /\ Count(s, 0) < Count(s, i)
  BY <1>1, CountGrows
<1>3. Count(s, i) \in 1 .. Count(s, Len(s))
  BY <1>1, <1>2, CountIs
<1> DEFINE p == PositionOf(Count(s, i), s)
<1>4. p \in Standing(s) /\ Count(s, p) = Count(s, i)
  BY <1>3, PositionIs
<1> HIDE DEF p
<1>5. p \in 1 .. Len(s) /\ Needed(s[p])
  BY <1>4 DEF Standing
<1>6. p = i
  <2>1. ~ (p < i) /\ ~ (i < p)
    BY <1>1, <1>4, <1>5, CountGrows, CountIs
  <2> QED BY <1>1, <1>5, <2>1
<1> QED BY <1>3, <1>6 DEF p

LEMMA KeptIs ==
  ASSUME NEW S, NEW s \in Seq(S)
  PROVE  /\ Kept(s) \in Seq(S) /\ Len(Kept(s)) = Count(s, Len(s))
         /\ \A i \in Standing(s) : Kept(s)[Count(s, i)] = s[i]
         /\ \A n \in 1 .. Len(Kept(s)) : Needed(Kept(s)[n])
<1>1. Cardinality(Standing(s)) = Count(s, Len(s)) /\ Count(s, Len(s)) \in Nat
  BY CountIs
<1>2. \A n \in 1 .. Count(s, Len(s)) : PositionOf(n, s) \in Standing(s)
  BY PositionIs
<1>3. Kept(s) = [n \in 1 .. Count(s, Len(s)) |-> s[PositionOf(n, s)]]
  BY <1>1 DEF Kept
<1>4. \A i \in Standing(s) : s[i] \in S /\ Needed(s[i])
  BY DEF Standing
<1>5. Kept(s) \in [1 .. Count(s, Len(s)) -> S]
  BY <1>2, <1>3, <1>4
<1>6. Kept(s) \in Seq(S) /\ Len(Kept(s)) = Count(s, Len(s))
  BY <1>1, <1>5
<1>7. \A i \in Standing(s) : Kept(s)[Count(s, i)] = s[i]
  BY <1>3, PositionAt
<1>8. \A n \in 1 .. Len(Kept(s)) : Needed(Kept(s)[n])
  BY <1>2, <1>3, <1>4, <1>6
<1> QED BY <1>6, <1>7, <1>8

LEMMA KeptIsUnique ==
  ASSUME NEW S, NEW s \in Seq(S), NEW r \in Seq(S), Len(r) = Count(s, Len(s)),
         \A i \in Standing(s) : r[Count(s, i)] = s[i]
  PROVE  r = Kept(s)
<1>1. Kept(s) \in Seq(S) /\ Len(Kept(s)) = Len(r)
  BY KeptIs
<1>2. ASSUME NEW n \in 1 .. Len(r) PROVE r[n] = Kept(s)[n]
  <2>1. PositionOf(n, s) \in Standing(s) /\ Count(s, PositionOf(n, s)) = n
    BY PositionIs
  <2> QED BY <2>1, KeptIs
<1> QED BY <1>1, <1>2, SeqEqual

(* The places of two sequences one after the other.                        *)
LEMMA BothAre ==
  ASSUME NEW S, NEW a \in Seq(S), NEW b \in Seq(S)
  PROVE  /\ a \o b \in Seq(S) /\ Len(a \o b) = Len(a) + Len(b)
         /\ \A i \in 1 .. Len(a) : (a \o b)[i] = a[i]
         /\ \A i \in 1 .. Len(b) : (a \o b)[Len(a) + i] = b[i]
<1>1. Len(a) \in Nat /\ Len(b) \in Nat
  OBVIOUS
<1>2. /\ a \o b \in Seq(S) /\ Len(a \o b) = Len(a) + Len(b)
      /\ \A i \in 1 .. Len(a) + Len(b) : (a \o b)[i] = IF i <= Len(a) THEN a[i] ELSE b[i - Len(a)]
  BY ConcatProperties
<1>3. ASSUME NEW i \in 1 .. Len(b) PROVE (a \o b)[Len(a) + i] = b[i]
  <2>1. Len(a) + i \in 1 .. Len(a) + Len(b) /\ ~ (Len(a) + i <= Len(a)) /\ (Len(a) + i) - Len(a) = i
    BY <1>1
  <2>2. (a \o b)[Len(a) + i] = b[(Len(a) + i) - Len(a)]
    BY <1>2, <2>1
  <2> QED BY <2>1, <2>2
<1>4. ASSUME NEW i \in 1 .. Len(a) PROVE (a \o b)[i] = a[i]
  <2>1. i \in 1 .. Len(a) + Len(b) /\ i <= Len(a)
    BY <1>1
  <2> QED BY <1>2, <2>1
<1> QED BY <1>2, <1>3, <1>4

LEMMA CountOfBoth ==
  ASSUME NEW S, NEW a \in Seq(S), NEW b \in Seq(S)
  PROVE  /\ a \o b \in Seq(S) /\ Len(a \o b) = Len(a) + Len(b)
         /\ \A i \in 0 .. Len(a) : Count(a \o b, i) = Count(a, i)
         /\ \A i \in 0 .. Len(b) : Count(a \o b, Len(a) + i) = Count(a, Len(a)) + Count(b, i)
<1> DEFINE c == a \o b
<1>1. /\ c \in Seq(S) /\ Len(c) = Len(a) + Len(b) /\ Len(a) \in Nat /\ Len(b) \in Nat
      /\ \A i \in 1 .. Len(a) : c[i] = a[i]
      /\ \A i \in 1 .. Len(b) : c[Len(a) + i] = b[i]
  BY ConcatProperties
<1> HIDE DEF c
<1>2. ASSUME NEW i \in 0 .. Len(a) PROVE Count(c, i) = Count(a, i)
  <2>1. Upto(c, i) = Upto(a, i)
    BY <1>1 DEF Upto, Standing
  <2> QED BY <2>1 DEF Count
<1>3. ASSUME NEW i \in 0 .. Len(b), Count(c, Len(a) + i) # Count(a, Len(a)) + Count(b, i)
      PROVE  FALSE
  <2> DEFINE T == {j \in 0 .. Len(b) : Count(c, Len(a) + j) # Count(a, Len(a)) + Count(b, j)}
             m == Min(T)
  <2>0. T \in SUBSET Nat /\ T # {}
    <3>1. i \in T
      BY <1>3
    <3>2. T \subseteq 0 .. Len(b) /\ 0 .. Len(b) \subseteq Nat
      BY <1>1
    <3> HIDE DEF T
    <3> QED BY <3>1, <3>2
  <2>1. m \in T /\ \A y \in T : m <= y
    BY <2>0, LeastExists
  <2> HIDE DEF m
  <2>2. m # 0
    BY <1>1, <1>2, <2>1, CountIs
  <2>3. m \in 1 .. Len(b) /\ m - 1 \in 0 .. Len(b) /\ m - 1 \notin T
    BY <1>1, <2>1, <2>2
  <2>4. Count(c, Len(a) + (m - 1)) = Count(a, Len(a)) + Count(b, m - 1)
    BY <2>3
  <2>5. Count(b, m) = Count(b, m - 1) + (IF Needed(b[m]) THEN 1 ELSE 0) /\ Count(b, m - 1) \in Nat
    BY <2>3, CountIs
  <2>6. Len(a) + m \in 1 .. Len(c) /\ (Len(a) + m) - 1 = Len(a) + (m - 1)
    BY <1>1, <2>3
  <2>7. Count(c, Len(a) + m) = Count(c, Len(a) + (m - 1)) + (IF Needed(b[m]) THEN 1 ELSE 0)
    BY <1>1, <2>3, <2>6, CountIs
  <2>8. Count(a, Len(a)) \in Nat
    BY <1>1, CountIs
  <2> QED BY <2>1, <2>4, <2>5, <2>7, <2>8
<1> QED BY <1>1, <1>2, <1>3 DEF c

LEMMA KeptOfBoth ==
  ASSUME NEW S, NEW a \in Seq(S), NEW b \in Seq(S)
  PROVE  Kept(a \o b) = Kept(a) \o Kept(b)
<1> DEFINE c == a \o b
           r == Kept(a) \o Kept(b)
<1>1. /\ c \in Seq(S) /\ Len(c) = Len(a) + Len(b) /\ Len(a) \in Nat /\ Len(b) \in Nat
      /\ \A i \in 0 .. Len(a) : Count(c, i) = Count(a, i)
      /\ \A i \in 0 .. Len(b) : Count(c, Len(a) + i) = Count(a, Len(a)) + Count(b, i)
  BY CountOfBoth
<1>2. /\ \A i \in 1 .. Len(a) : c[i] = a[i]
      /\ \A i \in 1 .. Len(b) : c[Len(a) + i] = b[i]
  BY ConcatProperties
<1>3. /\ Kept(a) \in Seq(S) /\ Len(Kept(a)) = Count(a, Len(a))
      /\ Kept(b) \in Seq(S) /\ Len(Kept(b)) = Count(b, Len(b))
      /\ Count(a, Len(a)) \in Nat /\ Count(b, Len(b)) \in Nat
  BY KeptIs, CountIs
<1>4. /\ r \in Seq(S) /\ Len(r) = Count(a, Len(a)) + Count(b, Len(b))
      /\ \A n \in 1 .. Count(a, Len(a)) : r[n] = Kept(a)[n]
      /\ \A n \in 1 .. Count(b, Len(b)) : r[Count(a, Len(a)) + n] = Kept(b)[n]
  <2>1. /\ r \in Seq(S) /\ Len(r) = Len(Kept(a)) + Len(Kept(b))
        /\ \A n \in 1 .. Len(Kept(a)) : r[n] = Kept(a)[n]
        /\ \A n \in 1 .. Len(Kept(b)) : r[Len(Kept(a)) + n] = Kept(b)[n]
    <3> DEFINE x == Kept(a)
               y == Kept(b)
    <3>1. x \in Seq(S) /\ y \in Seq(S) /\ r = x \o y
      BY <1>3
    <3> HIDE DEF x, y, r
    <3>2. /\ r \in Seq(S) /\ Len(r) = Len(x) + Len(y)
          /\ \A n \in 1 .. Len(x) : r[n] = x[n]
          /\ \A n \in 1 .. Len(y) : r[Len(x) + n] = y[n]
      BY <3>1, BothAre
    <3> QED BY <3>2 DEF x, y
  <2> QED BY <1>3, <2>1
<1> HIDE DEF c, r
<1>5. Len(r) = Count(c, Len(c))
  BY <1>1, <1>4
<1>6. ASSUME NEW i \in Standing(c) PROVE r[Count(c, i)] = c[i]
  <2>1. i \in 1 .. Len(a) + Len(b) /\ Needed(c[i])
    BY <1>1 DEF Standing
  <2>2. CASE i <= Len(a)
    <3>1. i \in Standing(a) /\ c[i] = a[i] /\ Count(c, i) = Count(a, i)
      BY <1>1, <1>2, <2>1, <2>2 DEF Standing
    <3>2. Count(a, i) \in 1 .. Count(a, Len(a)) /\ Kept(a)[Count(a, i)] = a[i]
      BY <3>1, PositionAt, KeptIs
    <3> QED BY <1>4, <3>1, <3>2
  <2>3. CASE i > Len(a)
    <3>1. PICK j \in 1 .. Len(b) : i = Len(a) + j
      <4>1. i - Len(a) \in 1 .. Len(b) /\ i = Len(a) + (i - Len(a))
        BY <1>1, <2>1, <2>3
      <4> QED BY <4>1
    <3>2. j \in Standing(b) /\ c[i] = b[j] /\ Count(c, i) = Count(a, Len(a)) + Count(b, j)
      BY <1>1, <1>2, <2>1, <3>1 DEF Standing
    <3>3. Count(b, j) \in 1 .. Count(b, Len(b)) /\ Kept(b)[Count(b, j)] = b[j]
      BY <3>2, PositionAt, KeptIs
    <3> QED BY <1>4, <3>2, <3>3
  <2> QED BY <1>1, <2>1, <2>2, <2>3
<1> QED BY <1>1, <1>4, <1>5, <1>6, KeptIsUnique DEF c, r

(* Of what is all needed, everything is kept.                              *)
LEMMA AllIsKept ==
  ASSUME NEW S, NEW s \in Seq(S), \A i \in 1 .. Len(s) : Needed(s[i])
  PROVE  Kept(s) = s
<1>1. Len(s) \in Nat
  OBVIOUS
<1>2. ASSUME NEW i \in 0 .. Len(s), Count(s, i) # i PROVE FALSE
  <2> DEFINE T == {j \in 0 .. Len(s) : Count(s, j) # j}
             m == Min(T)
  <2>0. T \in SUBSET Nat /\ T # {}
    BY <1>1, <1>2
  <2>1. m \in T /\ \A y \in T : m <= y
    BY <2>0, LeastExists
  <2> HIDE DEF m
  <2>2. m # 0
    BY <2>1, CountIs
  <2>3. m \in 1 .. Len(s) /\ m - 1 \in 0 .. Len(s) /\ m - 1 \notin T
    BY <1>1, <2>1, <2>2
  <2>4. Count(s, m) = Count(s, m - 1) + 1
    BY <2>3, CountIs
  <2> QED BY <2>1, <2>3, <2>4
<1>3. Standing(s) = 1 .. Len(s)
  BY DEF Standing
<1> QED BY <1>1, <1>2, <1>3, KeptIsUnique

LEMMA KeptOfKept ==
  ASSUME NEW S, NEW s \in Seq(S)
  PROVE  Kept(Kept(s)) = Kept(s)
BY KeptIs, AllIsKept

-----------------------------------------------------------------------------
(* As histories are compared.                                              *)

LEMMA EssentialIs ==
  ASSUME NEW S, NEW s \in Seq(S)
  PROVE  /\ Essential(s) \in Seq({Comparable(x) : x \in S}) /\ Len(Essential(s)) = Count(s, Len(s))
         /\ \A n \in 1 .. Len(Essential(s)) : Essential(s)[n] = Comparable(Kept(s)[n])
<1>1. Kept(s) \in Seq(S) /\ Len(Kept(s)) = Count(s, Len(s)) /\ Len(Kept(s)) \in Nat
  BY KeptIs
<1>2. DOMAIN Kept(s) = 1 .. Len(Kept(s)) /\ \A n \in 1 .. Len(Kept(s)) : Kept(s)[n] \in S
  BY <1>1
<1> DEFINE C == {Comparable(x) : x \in S}
<1>3. Essential(s) = [n \in 1 .. Len(Kept(s)) |-> Comparable(Kept(s)[n])]
  BY <1>2 DEF Essential
<1>4. Essential(s) \in [1 .. Len(Kept(s)) -> C]
  BY <1>2, <1>3
<1> HIDE DEF C
<1>5. Essential(s) \in Seq(C) /\ Len(Essential(s)) = Len(Kept(s))
  BY <1>1, <1>4
<1> QED BY <1>1, <1>3, <1>5 DEF C

LEMMA EssentialOfBoth ==
  ASSUME NEW S, NEW a \in Seq(S), NEW b \in Seq(S)
  PROVE  Essential(a \o b) = Essential(a) \o Essential(b)
<1> DEFINE C == {Comparable(x) : x \in S}
<1>1. /\ Kept(a) \in Seq(S) /\ Kept(b) \in Seq(S) /\ a \o b \in Seq(S)
      /\ Kept(a \o b) = Kept(a) \o Kept(b)
  BY KeptIs, KeptOfBoth, BothAre
<1>2. ASSUME NEW s \in Seq(S)
      PROVE  /\ Essential(s) \in Seq(C) /\ Len(Essential(s)) = Len(Kept(s)) /\ Len(Kept(s)) \in Nat
             /\ \A n \in 1 .. Len(Kept(s)) : Essential(s)[n] = Comparable(Kept(s)[n])
  <2>1. Kept(s) \in Seq(S) /\ Len(Kept(s)) = Count(s, Len(s)) /\ Len(Kept(s)) \in Nat
    BY KeptIs, LenProperties
  <2>2. Essential(s) \in Seq(C) /\ Len(Essential(s)) = Count(s, Len(s))
    BY EssentialIs
  <2>3. \A n \in 1 .. Len(Essential(s)) : Essential(s)[n] = Comparable(Kept(s)[n])
    BY EssentialIs
  <2> QED BY <2>1, <2>2, <2>3
<1> HIDE DEF C
<1> DEFINE e == Essential(a) \o Essential(b)
<1>3. /\ e \in Seq(C) /\ Len(e) = Len(Kept(a)) + Len(Kept(b))
      /\ \A n \in 1 .. Len(Kept(a)) : e[n] = Essential(a)[n]
      /\ \A n \in 1 .. Len(Kept(b)) : e[Len(Kept(a)) + n] = Essential(b)[n]
  <2> DEFINE x == Essential(a)
             y == Essential(b)
  <2>1. /\ x \in Seq(C) /\ y \in Seq(C) /\ e = x \o y
        /\ Len(x) = Len(Kept(a)) /\ Len(y) = Len(Kept(b))
    BY <1>2
  <2> HIDE DEF x, y, e
  <2>2. /\ e \in Seq(C) /\ Len(e) = Len(x) + Len(y)
        /\ \A n \in 1 .. Len(x) : e[n] = x[n]
        /\ \A n \in 1 .. Len(y) : e[Len(x) + n] = y[n]
    <3>1. PICK T, u, v : T = C /\ u = x /\ v = y
      OBVIOUS
    <3>2. u \in Seq(T) /\ v \in Seq(T) /\ e = u \o v
      BY <2>1, <3>1
    <3>3. /\ e \in Seq(T) /\ Len(e) = Len(u) + Len(v)
          /\ \A n \in 1 .. Len(u) : e[n] = u[n]
          /\ \A n \in 1 .. Len(v) : e[Len(u) + n] = v[n]
      BY <3>2, BothAre
    <3> QED BY <3>1, <3>3
  <2> QED BY <2>1, <2>2 DEF x, y
<1>4. /\ Len(Kept(a \o b)) = Len(Kept(a)) + Len(Kept(b))
      /\ \A n \in 1 .. Len(Kept(a)) : Kept(a \o b)[n] = Kept(a)[n]
      /\ \A n \in 1 .. Len(Kept(b)) : Kept(a \o b)[Len(Kept(a)) + n] = Kept(b)[n]
  BY <1>1, BothAre
<1> HIDE DEF e
<1>5. Essential(a \o b) \in Seq(C) /\ Len(Essential(a \o b)) = Len(e)
  BY <1>1, <1>2, <1>3, <1>4
<1>6. ASSUME NEW n \in 1 .. Len(e) PROVE Essential(a \o b)[n] = e[n]
  <2>1. Len(Kept(a)) \in Nat /\ Len(Kept(b)) \in Nat /\ n \in 1 .. Len(Kept(a)) + Len(Kept(b))
    BY <1>2, <1>3
  <2>2. Essential(a \o b)[n] = Comparable(Kept(a \o b)[n])
    BY <1>1, <1>2, <1>4, <2>1
  <2>3. CASE n \in 1 .. Len(Kept(a))
    BY <1>2, <1>3, <1>4, <2>2, <2>3
  <2>4. CASE n \notin 1 .. Len(Kept(a))
    <3>1. n - Len(Kept(a)) \in 1 .. Len(Kept(b)) /\ n = Len(Kept(a)) + (n - Len(Kept(a)))
      BY <2>1, <2>4
    <3>2. PICK k \in 1 .. Len(Kept(b)) : n = Len(Kept(a)) + k
      BY <3>1
    <3>3. Kept(a \o b)[n] = Kept(b)[k] /\ e[n] = Essential(b)[k]
      BY <1>3, <1>4, <3>2
    <3>4. Essential(b)[k] = Comparable(Kept(b)[k])
      BY <1>2
    <3> QED BY <2>2, <3>3, <3>4
  <2> QED BY <2>3, <2>4
<1>7. Essential(a \o b) = e
  BY <1>3, <1>5, <1>6, SeqEqual
<1> QED BY <1>7 DEF e

LEMMA EssentialOfKept ==
  ASSUME NEW S, NEW s \in Seq(S)
  PROVE  Essential(Kept(s)) = Essential(s)
BY KeptOfKept DEF Essential

LEMMA SplitAt ==
  ASSUME NEW S, NEW s \in Seq(S), NEW i \in 0 .. Len(s)
  PROVE  /\ SubSeq(s, 1, i) \in Seq(S) /\ Len(SubSeq(s, 1, i)) = i
         /\ SubSeq(s, i + 1, Len(s)) \in Seq(S) /\ Len(SubSeq(s, i + 1, Len(s))) = Len(s) - i
         /\ s = SubSeq(s, 1, i) \o SubSeq(s, i + 1, Len(s))
<1>1. Len(s) \in Nat /\ \A j \in 1 .. Len(s) : s[j] \in S
  OBVIOUS
<1>2. /\ SubSeq(s, 1, i) \in Seq(S) /\ Len(SubSeq(s, 1, i)) = i
  BY <1>1, SubSeqProperties
<1>3. SubSeq(s, i + 1, Len(s)) \in Seq(S) /\ Len(SubSeq(s, i + 1, Len(s))) = Len(s) - i
  BY <1>1, SubSeqProperties
<1>4. SubSeq(s, 1, i) \o SubSeq(s, i + 1, Len(s)) = SubSeq(s, 1, Len(s))
  <2>1. 1 \in 1 .. Len(s) + 1 /\ i \in 1 - 1 .. Len(s) /\ Len(s) \in i .. Len(s)
    BY <1>1
  <2> QED BY <2>1, ConcatAdjacentSubSeq
<1>5. SubSeq(s, 1, Len(s)) = s
  BY SubSeqFull
<1> QED BY <1>2, <1>3, <1>4, <1>5

LEMMA PrefixSplits ==
  ASSUME NEW S, NEW a \in Seq(S), NEW s \in Seq(S), IsPrefix(a, s)
  PROVE  /\ Len(a) \in 0 .. Len(s) /\ SubSeq(s, Len(a) + 1, Len(s)) \in Seq(S)
         /\ s = a \o SubSeq(s, Len(a) + 1, Len(s))
<1>1. Len(a) \in Nat /\ Len(s) \in Nat /\ Len(a) <= Len(s) /\ SubSeq(a, 1, Len(a)) = SubSeq(s, 1, Len(a))
  BY DEF IsPrefix
<1>2. Len(a) \in 0 .. Len(s)
  BY <1>1
<1>3. SubSeq(a, 1, Len(a)) = a
  BY SubSeqFull
<1> QED BY <1>1, <1>2, <1>3, SplitAt

LEMMA PrefixOfBoth ==
  ASSUME NEW S, NEW a \in Seq(S), NEW b \in Seq(S)
  PROVE  IsPrefix(a, a \o b)
<1>1. /\ a \o b \in Seq(S) /\ Len(a \o b) = Len(a) + Len(b) /\ Len(a) \in Nat /\ Len(b) \in Nat
      /\ \A i \in 1 .. Len(a) : (a \o b)[i] = a[i]
  BY BothAre
<1> DEFINE c == a \o b
           x == SubSeq(c, 1, Len(a))
<1>2. Len(a) \in 0 .. Len(c)
  BY <1>1
<1>3. x \in Seq(S) /\ Len(x) = Len(a)
  BY <1>1, <1>2, SplitAt
<1>4. \A i \in 1 .. Len(a) : x[i] = a[i]
  BY <1>1, <1>2
<1> HIDE DEF x
<1>5. x = a
  BY <1>3, <1>4, SeqEqual
<1>6. SubSeq(a, 1, Len(a)) = a
  BY SubSeqFull
<1> QED BY <1>1, <1>5, <1>6 DEF IsPrefix, x

(* A suffix is what something is put in front of.                          *)
LEMMA SuffixIs ==
  ASSUME NEW S, NEW b \in Seq(S), NEW s \in Seq(S)
  PROVE  /\ IsSuffix(b, s) => \E a \in Seq(S) : s = a \o b
         /\ \A a \in Seq(S) : IsSuffix(b, a \o b)
<1>1. ASSUME NEW x \in Seq(S)
      PROVE  /\ Reverse(x) \in Seq(S) /\ Len(Reverse(x)) = Len(x) /\ Len(x) \in Nat
             /\ \A i \in 1 .. Len(x) : Reverse(x)[i] = x[(Len(x) - i) + 1]
  <2>1. Len(x) \in Nat /\ \A i \in 1 .. Len(x) : (Len(x) - i) + 1 \in 1 .. Len(x)
    OBVIOUS
  <2>2. Reverse(x) \in [1 .. Len(x) -> S]
    BY <2>1 DEF Reverse
  <2> QED BY <2>1, <2>2 DEF Reverse
<1>2. ASSUME IsSuffix(b, s) PROVE \E a \in Seq(S) : s = a \o b
  <2> DEFINE n == Len(s) - Len(b)
             a == SubSeq(s, 1, n)
             c == SubSeq(s, n + 1, Len(s))
  <2>1. /\ Len(b) \in Nat /\ Len(s) \in Nat /\ Len(b) <= Len(s)
        /\ SubSeq(Reverse(b), 1, Len(b)) = SubSeq(Reverse(s), 1, Len(b))
    BY <1>1, <1>2 DEF IsSuffix, IsPrefix
  <2>2. n \in 0 .. Len(s)
    BY <2>1
  <2>3. /\ a \in Seq(S) /\ c \in Seq(S) /\ Len(c) = Len(b) /\ s = a \o c
    <3>1. Len(s) - n = Len(b)
      BY <2>1
    <3> HIDE DEF n
    <3> QED BY <2>2, <3>1, SplitAt
  <2>4. ASSUME NEW i \in 1 .. Len(b) PROVE c[i] = b[i]
    <3>1. c[i] = s[n + i]
      BY <2>1, <2>2
    <3> DEFINE j == (Len(b) - i) + 1
    <3>2. j \in 1 .. Len(b) /\ j \in 1 .. Len(s) /\ (Len(b) - j) + 1 = i /\ (Len(s) - j) + 1 = n + i
      BY <2>1
    <3> HIDE DEF j
    <3>3. SubSeq(Reverse(b), 1, Len(b))[j] = Reverse(b)[j] /\ SubSeq(Reverse(s), 1, Len(b))[j] = Reverse(s)[j]
      BY <2>1, <3>2
    <3>4. Reverse(b)[j] = b[i] /\ Reverse(s)[j] = s[n + i]
      BY <1>1, <3>2
    <3> QED BY <2>1, <3>1, <3>3, <3>4
  <2>5. c = b
    BY <2>3, <2>4, SeqEqual
  <2> QED BY <2>3, <2>5
<1>3. ASSUME NEW a \in Seq(S) PROVE IsSuffix(b, a \o b)
  <2> DEFINE c == a \o b
             x == SubSeq(Reverse(b), 1, Len(b))
             y == SubSeq(Reverse(c), 1, Len(b))
  <2>1. /\ c \in Seq(S) /\ Len(c) = Len(a) + Len(b) /\ Len(a) \in Nat /\ Len(b) \in Nat
        /\ \A i \in 1 .. Len(b) : c[Len(a) + i] = b[i]
    BY BothAre
  <2> HIDE DEF c
  <2>2. /\ Reverse(b) \in Seq(S) /\ Len(Reverse(b)) = Len(b)
        /\ Reverse(c) \in Seq(S) /\ Len(Reverse(c)) = Len(c)
    BY <1>1, <2>1
  <2>3. x \in Seq(S) /\ y \in Seq(S) /\ Len(x) = Len(b) /\ Len(y) = Len(b)
    BY <2>1, <2>2, SplitAt
  <2>4. ASSUME NEW i \in 1 .. Len(b) PROVE x[i] = y[i]
    <3>1. x[i] = Reverse(b)[i] /\ y[i] = Reverse(c)[i]
      BY <2>1, <2>2
    <3> DEFINE j == (Len(b) - i) + 1
    <3>2. j \in 1 .. Len(b) /\ i \in 1 .. Len(c) /\ (Len(c) - i) + 1 = Len(a) + j
      BY <2>1
    <3> HIDE DEF j
    <3>3. Reverse(c)[i] = c[Len(a) + j]
      BY <1>1, <2>1, <3>2
    <3>4. Reverse(b)[i] = b[j]
      BY <1>1 DEF j
    <3> QED BY <2>1, <3>1, <3>2, <3>3, <3>4
  <2> HIDE DEF x, y
  <2>5. x = y
    BY <2>3, <2>4, SeqEqual
  <2>6. Len(b) <= Len(c)
    BY <2>1
  <2> QED BY <2>2, <2>5, <2>6 DEF IsSuffix, IsPrefix, x, y, c
<1> QED BY <1>2, <1>3

LEMMA SuffixGoesOn ==
  ASSUME NEW S, NEW b \in Seq(S), NEW s \in Seq(S), NEW d \in Seq(S), IsSuffix(b, s)
  PROVE  IsSuffix(b \o d, s \o d)
<1>1. PICK a \in Seq(S) : s = a \o b
  BY SuffixIs
<1>2. s \o d = a \o (b \o d) /\ b \o d \in Seq(S)
  BY <1>1, ConcatAssociative, BothAre
<1> QED BY <1>2, SuffixIs

(* The delta of two histories is what the second adds to the first         *)
(* (appended_response_input_delta).                                        *)
LEMMA DeltaAppends ==
  ASSUME NEW S, NEW p \in Seq(S), NEW c \in Seq(S), Missing \notin Nat,
         Delta(p, c) # Missing
  PROVE  Delta(p, c) \in Seq(S) /\ Essential(c) = Essential(p) \o Essential(Delta(p, c))
<1> DEFINE C == {Comparable(x) : x \in S}
           start == DeltaStart(p, c)
           tail == SubSeq(c, start, Len(c))
           head == SubSeq(c, 1, start - 1)
<1>1. start # Missing /\ Delta(p, c) = Kept(tail)
  BY DEF Delta
<1>2. start \in 1 .. Len(c) /\ Essential(head) = Essential(p)
  <2>1. CASE p # <<>> /\ IsStrictPrefix(p, c)
    <3>1. start = Len(p) + 1 /\ IsPrefix(p, c) /\ p # c
      BY <2>1 DEF DeltaStart, IsStrictPrefix
    <3>2. Len(p) \in 0 .. Len(c) /\ Len(p) \in Nat /\ Len(c) \in Nat
      BY <3>1, PrefixSplits
    <3>3. SubSeq(c, 1, Len(p)) = p
      BY <3>1, SubSeqFull DEF IsPrefix
    <3>4. Len(p) # Len(c)
      BY <3>1, <3>3, SubSeqFull
    <3>5. start \in 1 .. Len(c) /\ start - 1 = Len(p)
      BY <3>1, <3>2, <3>4
    <3> QED BY <3>3, <3>5
  <2>2. CASE ~ (p # <<>> /\ IsStrictPrefix(p, c))
    <3> DEFINE ep == Essential(p)
               ec == Essential(c)
    <3>1. Len(ep) < Len(ec) /\ IsPrefix(ep, ec) /\ start = PositionOf(Len(ep) + 1, c)
      BY <1>1, <2>2 DEF DeltaStart
    <3>2. /\ ep \in Seq(C) /\ ec \in Seq(C) /\ Len(ec) = Count(c, Len(c)) /\ Len(ep) \in Nat
          /\ Len(ec) \in Nat
      BY EssentialIs, LenProperties
    <3>3. Len(ep) + 1 \in 1 .. Count(c, Len(c))
      BY <3>1, <3>2
    <3>4. start \in Standing(c) /\ Count(c, start) = Len(ep) + 1
      BY <3>1, <3>3, PositionIs
    <3> HIDE DEF start, ep, ec
    <3>5. start \in 1 .. Len(c) /\ Needed(c[start]) /\ start - 1 \in 0 .. Len(c) /\ (start - 1) + 1 = start
      BY <3>4 DEF Standing
    <3>6. Count(c, start - 1) = Len(ep)
      BY <3>2, <3>4, <3>5, CountIs
    <3>7. head \in Seq(S) /\ Len(head) = start - 1 /\ tail \in Seq(S) /\ c = head \o tail
      BY <3>5, SplitAt
    <3> HIDE DEF head, tail
    <3>8. Count(head, Len(head)) = Len(ep)
      <4>1. Len(head) \in 0 .. Len(head)
        BY <3>7, LenProperties
      <4> QED BY <3>6, <3>7, <4>1, CountOfBoth
    <3> DEFINE eh == Essential(head)
               et == Essential(tail)
    <3>9. eh \in Seq(C) /\ et \in Seq(C) /\ ec = eh \o et /\ Len(eh) = Len(ep)
      BY <3>7, <3>8, EssentialIs, EssentialOfBoth DEF ec
    <3> HIDE DEF eh, et, C
    <3>10. IsPrefix(eh, ec)
      BY <3>9, PrefixOfBoth
    <3>11. SubSeq(eh, 1, Len(eh)) = SubSeq(ep, 1, Len(ep))
      BY <3>1, <3>9, <3>10 DEF IsPrefix
    <3>12. eh = ep
      BY <3>2, <3>9, <3>11, SubSeqFull
    <3> QED BY <3>5, <3>12 DEF eh, ep
  <2> QED BY <2>1, <2>2
<1> HIDE DEF start
<1>3. start - 1 \in 0 .. Len(c) /\ (start - 1) + 1 = start
  BY <1>2
<1>4. head \in Seq(S) /\ tail \in Seq(S) /\ c = head \o tail
  BY <1>3, SplitAt
<1> HIDE DEF head, tail
<1>5. Essential(c) = Essential(head) \o Essential(tail)
  BY <1>4, EssentialOfBoth
<1> QED BY <1>1, <1>2, <1>4, <1>5, KeptIs, EssentialOfKept

-----------------------------------------------------------------------------
(* The keeping of sessions.                                                *)

(* The history of a turn, as sessions are compared.                        *)
History(t) == Essential(asked[t].ask.input)
StoredUnder(k) == {t \in SessionTurns : asked[t].phase = "stored" /\ asked[t].ask.key = k}
Continue(a, b) == IsPrefix(History(a), History(b)) \/ IsPrefix(History(b), History(a))
Chained(k) == \A a, b \in StoredUnder(k) : Continue(a, b)

SessionOf(r) ==
  /\ r = [id |-> r.id, input |-> r.input, age |-> r.age]
  /\ r.age \in 0 .. Lifetime + 1
  /\ r.id \in SessionTurns /\ \E q \in SessionAsks : r.input = q.input

(* A turn has its fields, and a request once it is asked.                  *)
IsTurn(r) ==
  /\ r = [phase |-> r.phase, ask |-> r.ask, prev |-> r.prev, sent |-> r.sent, compat |-> r.compat]
  /\ r.phase # "idle" => r.ask \in SessionAsks

(* A key no reference of which was dropped has the history of one of the   *)
(* turns that were stored under it, and the longest if they form a chain.  *)
Keeps(k) ==
  IF StoredUnder(k) = {} THEN sessions[k] = Missing
  ELSE /\ sessions[k] # Missing
       /\ \E o \in StoredUnder(k) : sessions[k].input = asked[o].ask.input
       /\ Chained(k) => \A t \in StoredUnder(k) :
            IsPrefix(History(t), Essential(sessions[k].input))

SessionsTyped ==
  /\ DOMAIN asked = SessionTurns /\ \A t \in SessionTurns : IsTurn(asked[t])
  /\ DOMAIN sessions = SessionKeys /\ \A k \in SessionKeys : sessions[k] = Missing \/ SessionOf(sessions[k])

SessionsInv == SessionsTyped /\ \A k \in SessionKeys \ cleared : Keeps(k)

LEMMA SessionsAreSome ==
  ASSUME SoundSessions, NEW r, SessionOf(r) PROVE r # Missing
BY DEF SoundSessions, SessionOf

LEMMA InputsAre ==
  ASSUME SoundSessions, SessionsTyped
  PROVE  /\ \A q \in SessionAsks : q.input \in Seq(Items) /\ q.key \in SessionKeys
         /\ \A t \in SessionTurns : asked[t].phase # "idle" =>
              asked[t].ask \in SessionAsks /\ asked[t].ask # Missing /\ asked[t].ask.input \in Seq(Items)
         /\ \A k \in SessionKeys : sessions[k] # Missing =>
              sessions[k].id \in SessionTurns /\ sessions[k].input \in Seq(Items)
  BY DEF SoundSessions, SessionsTyped, IsTurn, SessionOf

LEMMA PrefixOrder ==
  ASSUME NEW S, NEW a \in Seq(S), NEW b \in Seq(S), NEW c \in Seq(S)
  PROVE  /\ IsPrefix(a, a)
         /\ IsPrefix(a, b) /\ IsPrefix(b, c) => IsPrefix(a, c)
<1>1. Len(a) \in Nat /\ Len(b) \in Nat /\ Len(c) \in Nat
  OBVIOUS
<1>2. IsPrefix(a, a)
  BY <1>1 DEF IsPrefix
<1>3. ASSUME IsPrefix(a, b), IsPrefix(b, c) PROVE IsPrefix(a, c)
  BY <1>1, <1>3 DEF IsPrefix
<1> QED BY <1>2, <1>3

LEMMA SendingIs ==
  ASSUME SessionsTyped, NEW t \in SessionTurns, NEW q \in SessionAsks, NEW prev, NEW sent, NEW compat,
         Sends(t, q, prev, sent, compat)
  PROVE  /\ DOMAIN asked' = SessionTurns
         /\ IsTurn(asked'[t]) /\ asked'[t].phase = "sent"
         /\ \A o \in SessionTurns \ {t} : asked'[o] = asked[o]
<1> DEFINE r == [phase |-> "sent", ask |-> q, prev |-> prev, sent |-> sent, compat |-> compat]
<1>1. asked' = [asked EXCEPT ![t] = r]
  BY DEF Sends
<1>2. IsTurn(r) /\ r.phase = "sent"
  BY DEF IsTurn
<1> HIDE DEF r
<1> QED BY <1>1, <1>2 DEF SessionsTyped

(* A step that stores nothing: the turns that are stored stay as they are. *)
Quiet ==
  /\ DOMAIN asked' = SessionTurns
  /\ \A t \in SessionTurns : IsTurn(asked'[t])
  /\ \A t \in SessionTurns : asked[t].phase = "stored" \/ asked'[t].phase = "stored"
                        => asked'[t] = asked[t]

LEMMA AskingIsQuiet ==
  ASSUME SoundSessions, SessionsTyped, NEW t \in SessionTurns, NEW id \in SessionTurns, NEW q \in SessionAsks,
         AskInFull(t, q) \/ AskByDelta(t, q) \/ AskAfter(t, q, id)
  PROVE  Quiet /\ UNCHANGED <<sessions, cleared>>
<1>1. PICK prev, sent, compat : Sends(t, q, prev, sent, compat)
  BY DEF AskInFull, AskByDelta, AskAfter
<1>2. asked[t].phase = "idle" /\ UNCHANGED <<sessions, cleared>>
  BY DEF AskInFull, AskByDelta, AskAfter
<1> QED BY <1>1, <1>2, SendingIs DEF Quiet, SessionsTyped

LEMMA ResendingIsQuiet ==
  ASSUME SoundSessions, SessionsTyped, NEW t \in SessionTurns,
         RescueTooLarge(t) \/ RefuseDelta(t)
  PROVE  Quiet
<1>1. asked[t].phase = "sent" /\ asked[t].ask \in SessionAsks
  BY DEF RescueTooLarge, RefuseDelta, SessionsTyped, IsTurn
<1>2. PICK prev, sent, compat : Sends(t, asked[t].ask, prev, sent, compat)
  BY DEF RescueTooLarge, RefuseDelta
<1> QED BY <1>1, <1>2, SendingIs DEF Quiet, SessionsTyped

LEMMA GoingOnIsQuiet ==
  ASSUME SessionsTyped, NEW t \in SessionTurns,
         RefuseReference(t) \/ AnswerArrives(t) \/ Lose(t)
  PROVE  Quiet /\ UNCHANGED <<sessions, cleared>>
<1> DEFINE r == asked[t]
<1>1. IsTurn(r) /\ r.phase \in {"sent", "answered"} /\ UNCHANGED <<sessions, cleared>>
  BY DEF SessionsTyped, RefuseReference, AnswerArrives, Lose
<1>2. CASE RefuseReference(t)
  <2> DEFINE yes == TRUE
             body == CompatBody(r.prev, r.ask.input)
             mid == [r EXCEPT !.sent = body]
             next == [mid EXCEPT !.compat = yes]
  <2>1. asked' = [asked EXCEPT ![t] = next]
    BY <1>2 DEF RefuseReference, SessionsTyped
  <2> HIDE DEF yes, body, r
  <2>2. IsTurn(mid) /\ mid.phase = r.phase
    BY <1>1 DEF IsTurn
  <2> HIDE DEF mid
  <2>3. IsTurn(next) /\ next.phase = r.phase
    BY <2>2 DEF IsTurn
  <2> HIDE DEF next
  <2> QED BY <1>1, <2>1, <2>3 DEF Quiet, SessionsTyped, r
<1>3. CASE AnswerArrives(t) \/ Lose(t)
  <2>1. PICK phase \in {"answered", "lost"} : asked' = [asked EXCEPT ![t] = [r EXCEPT !.phase = phase]]
    BY <1>3 DEF AnswerArrives, Lose, SessionsTyped
  <2> DEFINE next == [r EXCEPT !.phase = phase]
  <2> HIDE DEF r
  <2>2. IsTurn(next) /\ next.phase = phase
    BY <1>1 DEF IsTurn
  <2>3. asked' = [asked EXCEPT ![t] = next]
    BY <2>1
  <2> HIDE DEF next
  <2> QED BY <1>1, <2>2, <2>3 DEF Quiet, SessionsTyped, r
<1> QED BY <1>1, <1>2, <1>3

(* What a key keeps is not touched by a quiet step that leaves its session *)
(* as it was but for the age.                                              *)
LEMMA QuietKeeps ==
  ASSUME SessionsTyped, Quiet, NEW k \in SessionKeys, Keeps(k),
         \/ sessions'[k] = sessions[k]
         \/ sessions[k] # Missing /\ sessions'[k] # Missing /\ sessions'[k].input = sessions[k].input
  PROVE  Keeps(k)'
<1>1. StoredUnder(k)' = StoredUnder(k) /\ \A t \in StoredUnder(k) : asked'[t] = asked[t]
  BY DEF Quiet, StoredUnder
<1>2. \A t \in StoredUnder(k) : History(t)' = History(t)
  BY <1>1 DEF History
<1>3. Chained(k)' = Chained(k)
  BY <1>1, <1>2 DEF Chained, Continue
<1>4. CASE StoredUnder(k) = {}
  BY <1>1, <1>4 DEF Keeps
<1>5. CASE StoredUnder(k) # {}
  <2>1. sessions[k] # Missing /\ sessions'[k] # Missing /\ sessions'[k].input = sessions[k].input
    BY <1>5 DEF Keeps
  <2>2. \E o \in StoredUnder(k) : sessions'[k].input = asked'[o].ask.input
    BY <1>1, <1>5, <2>1 DEF Keeps
  <2>3. Chained(k) => \A t \in StoredUnder(k) :
           IsPrefix(History(t), Essential(sessions[k].input))
    BY <1>5 DEF Keeps
  <2>4. Chained(k)' => \A t \in StoredUnder(k)' :
           IsPrefix(History(t)', Essential(sessions'[k].input))
    BY <1>1, <1>2, <1>3, <2>1, <2>3
  <2> QED BY <1>1, <1>5, <2>1, <2>2, <2>4 DEF Keeps
<1> QED BY <1>4, <1>5

LEMMA QuietKeepsInv ==
  ASSUME SessionsInv, Quiet, UNCHANGED <<sessions, cleared>> PROVE SessionsInv'
<1>1. SessionsTyped'
  BY DEF SessionsInv, SessionsTyped, Quiet
<1>2. ASSUME NEW k \in SessionKeys \ cleared' PROVE Keeps(k)'
  BY <1>2, QuietKeeps DEF SessionsInv
<1> QED BY <1>1, <1>2 DEF SessionsInv

LEMMA RefusingKeepsInv ==
  ASSUME SoundSessions, SessionsInv, NEW t \in SessionTurns, RefuseDelta(t)
  PROVE  SessionsInv'
<1>1. Quiet
  BY ResendingIsQuiet DEF SessionsInv
<1>2. DOMAIN sessions' = SessionKeys /\ \A k \in SessionKeys : sessions'[k] \in {Missing, sessions[k]}
  BY DEF RefuseDelta
<1>3. cleared' = cleared \cup {k \in SessionKeys : sessions[k] # Missing /\ sessions'[k] = Missing}
  BY DEF RefuseDelta
<1>4. SessionsTyped'
  BY <1>1, <1>2 DEF SessionsInv, SessionsTyped, Quiet
<1>5. ASSUME NEW k \in SessionKeys \ cleared' PROVE Keeps(k)'
  <2>1. k \notin cleared /\ sessions'[k] = sessions[k]
    BY <1>2, <1>3
  <2> QED BY <1>1, <2>1, QuietKeeps DEF SessionsInv
<1> QED BY <1>4, <1>5 DEF SessionsInv

LEMMA AgingKeepsInv ==
  ASSUME SoundSessions, SessionsInv, Age PROVE SessionsInv'
<1>1. /\ DOMAIN sessions' = SessionKeys /\ asked' = asked /\ cleared' = cleared
      /\ \A k \in SessionKeys : sessions'[k] = IF Fresh(sessions[k])
                                        THEN [sessions[k] EXCEPT !.age = sessions[k].age + 1]
                                        ELSE sessions[k]
  BY DEF Age
<1>2. Quiet
  BY <1>1 DEF Quiet, SessionsInv, SessionsTyped
<1>3. ASSUME NEW k \in SessionKeys
      PROVE  \/ sessions'[k] = sessions[k]
             \/ /\ sessions[k] # Missing /\ SessionOf(sessions'[k])
                /\ sessions'[k].input = sessions[k].input
  <2> DEFINE r == sessions[k]
             older == [r EXCEPT !.age = r.age + 1]
  <2>1. CASE Fresh(r)
    <3>1. r # Missing /\ r.age <= Lifetime /\ SessionOf(r)
      BY <2>1 DEF Fresh, SessionsInv, SessionsTyped
    <3>2. r.age + 1 \in 0 .. Lifetime + 1
      BY <3>1 DEF SessionOf, SoundSessions
    <3>3. sessions'[k] = older
      BY <1>1, <2>1
    <3> HIDE DEF r
    <3>4. SessionOf(older) /\ older.input = r.input
      BY <3>1, <3>2 DEF SessionOf
    <3> HIDE DEF older
    <3> QED BY <3>1, <3>3, <3>4 DEF r
  <2>2. CASE ~Fresh(r)
    BY <1>1, <2>2
  <2> QED BY <2>1, <2>2
<1>4. SessionsTyped'
  BY <1>1, <1>2, <1>3 DEF SessionsInv, SessionsTyped, Quiet
<1>5. ASSUME NEW k \in SessionKeys \ cleared' PROVE Keeps(k)'
  BY <1>1, <1>2, <1>3, QuietKeeps, SessionsAreSome DEF SessionsInv
<1> QED BY <1>4, <1>5 DEF SessionsInv

(* The answer that is stored joins those under its key.  It replaces the   *)
(* session unless its history is a prefix of what the session has; then    *)
(* it continues the session, if the histories under the key form a chain.  *)
LEMMA StoringKeepsInv ==
  ASSUME SoundSessions, SessionsInv, NEW t \in SessionTurns, Store(t)
  PROVE  SessionsInv'
<1>0. asked[t].phase = "answered" /\ asked[t].ask.key \in SessionKeys
  BY DEF Store, SessionsInv, SessionsTyped, IsTurn, SoundSessions
<1> PICK k0 \in SessionKeys : k0 = asked[t].ask.key
  BY <1>0
<1> DEFINE q == asked[t].ask
           mine == History(t)
           entry == [asked[t] EXCEPT !.phase = "stored"]
           keep == sessions[k0] # Missing /\ ~ShouldReplace(sessions[k0].input, q.input)
           new == [id |-> t, input |-> q.input, age |-> 0]
<1>1. /\ asked[t].phase = "answered" /\ IsTurn(asked[t]) /\ q \in SessionAsks /\ k0 = q.key
      /\ SessionsTyped
  BY DEF Store, SessionsInv, SessionsTyped, IsTurn, SoundSessions
<1>2. asked' = [asked EXCEPT ![t] = entry] /\ cleared' = cleared
  BY DEF Store
<1>3. IsTurn(entry) /\ entry.phase = "stored" /\ entry.ask = q
  BY <1>1 DEF IsTurn
<1> HIDE DEF entry
<1>4. /\ DOMAIN asked' = SessionTurns /\ asked'[t] = entry
      /\ \A o \in SessionTurns \ {t} : asked'[o] = asked[o]
      /\ \A o \in SessionTurns : IsTurn(asked'[o]) /\ asked'[o].ask = asked[o].ask
  BY <1>1, <1>2, <1>3 DEF SessionsTyped
<1>5. \A o \in SessionTurns : History(o)' = History(o)
  BY <1>4 DEF History
<1>6. \A k \in SessionKeys : StoredUnder(k)' = IF k = k0 THEN StoredUnder(k) \cup {t} ELSE StoredUnder(k)
  BY <1>1, <1>3, <1>4 DEF StoredUnder
<1>7. \A k \in SessionKeys : Chained(k)' => Chained(k)
  BY <1>5, <1>6 DEF Chained, Continue, StoredUnder
<1>8. /\ DOMAIN sessions' = SessionKeys /\ \A k \in SessionKeys \ {k0} : sessions'[k] = sessions[k]
      /\ sessions'[k0] = IF keep THEN sessions[k0] ELSE new
  BY <1>1 DEF Store, SessionsTyped
<1>9. SessionOf(new) /\ new.input = q.input
  BY <1>1 DEF SessionOf, SoundSessions
<1> HIDE DEF new
<1>10. SessionsTyped'
  BY <1>1, <1>4, <1>8, <1>9 DEF SessionsTyped
<1>11. ASSUME NEW k \in SessionKeys \ cleared', k # k0 PROVE Keeps(k)'
  <2>1. Keeps(k) /\ StoredUnder(k)' = StoredUnder(k) /\ sessions'[k] = sessions[k]
    BY <1>2, <1>6, <1>8, <1>11 DEF SessionsInv
  <2>2. \A o \in StoredUnder(k) : asked'[o].ask = asked[o].ask /\ History(o)' = History(o)
    BY <1>4, <1>5 DEF StoredUnder
  <2> QED BY <1>7, <2>1, <2>2 DEF Keeps
<1>12. ASSUME k0 \notin cleared' PROVE Keeps(k0)'
  <2>1. Keeps(k0) /\ StoredUnder(k0)' = StoredUnder(k0) \cup {t} /\ StoredUnder(k0) \subseteq SessionTurns
    BY <1>1, <1>2, <1>6, <1>12 DEF SessionsInv, StoredUnder
  <2>2. sessions'[k0] # Missing
    BY <1>8, <1>9, SessionsAreSome
  <2>3. CASE keep
    <3>1. sessions'[k0] = sessions[k0] /\ StoredUnder(k0) # {}
      BY <1>8, <2>1, <2>3 DEF Keeps
    <3>2. IsPrefix(mine, Essential(sessions[k0].input))
      BY <2>3 DEF ShouldReplace, History
    <3>3. PICK o \in StoredUnder(k0) : sessions[k0].input = asked[o].ask.input
      BY <2>1, <3>1 DEF Keeps
    <3>4. \E u \in StoredUnder(k0)' : sessions'[k0].input = asked'[u].ask.input
      BY <1>4, <2>1, <3>1, <3>3
    <3>5. Chained(k0)' => \A u \in StoredUnder(k0)' :
             IsPrefix(History(u)', Essential(sessions'[k0].input))
      BY <1>1, <1>5, <1>7, <2>1, <3>1, <3>2 DEF Keeps
    <3> QED BY <2>1, <2>2, <3>4, <3>5 DEF Keeps
  <2>4. CASE ~keep
    <3>1. sessions'[k0].input = q.input
      BY <1>8, <1>9, <2>4
    <3>2. Essential(sessions'[k0].input) = mine
      BY <3>1 DEF History
    <3>3. \E u \in StoredUnder(k0)' : sessions'[k0].input = asked'[u].ask.input
      BY <1>4, <2>1, <3>1
    <3>4. ASSUME Chained(k0)', NEW u \in StoredUnder(k0)' PROVE IsPrefix(History(u), mine)
      <4> DEFINE C == {Comparable(x) : x \in Items}
      <4>0. \A o \in StoredUnder(k0) \cup {t} : History(o) \in Seq(C)
        <5>1. \A o \in StoredUnder(k0) \cup {t} : asked[o].ask.input \in Seq(Items)
          BY <1>1, InputsAre DEF StoredUnder
        <5> QED BY <5>1, EssentialIs DEF History
      <4> HIDE DEF C
      <4>1. CASE u = t
        BY <4>0, <4>1, PrefixOrder
      <4>2. CASE u # t
        <5> DEFINE held == Essential(sessions[k0].input)
        <5>1. u \in StoredUnder(k0) /\ Chained(k0)
          BY <1>1, <1>7, <2>1, <3>4, <4>2
        <5>2. sessions[k0] # Missing /\ IsPrefix(History(u), held)
          BY <2>1, <5>1 DEF Keeps
        <5>3. PICK o \in StoredUnder(k0) : sessions[k0].input = asked[o].ask.input
          BY <2>1, <5>1 DEF Keeps
        <5>4. held = History(o)
          BY <5>3 DEF History
        <5>5. ~IsPrefix(mine, held)
          BY <2>4, <5>2 DEF ShouldReplace, History
        <5>6. IsPrefix(mine, History(o)) \/ IsPrefix(History(o), mine)
          BY <1>5, <2>1, <3>4 DEF Chained, Continue
        <5>7. IsPrefix(held, mine)
          BY <5>4, <5>5, <5>6
        <5>8. held \in Seq(C) /\ mine \in Seq(C) /\ History(u) \in Seq(C)
          BY <4>0, <5>1, <5>3, <5>4
        <5> HIDE DEF held, mine
        <5> QED BY <5>2, <5>7, <5>8, PrefixOrder
      <4> QED BY <4>1, <4>2
    <3>5. Chained(k0)' => \A u \in StoredUnder(k0)' :
             IsPrefix(History(u)', Essential(sessions'[k0].input))
      BY <1>5, <2>1, <3>2, <3>4
    <3> QED BY <2>1, <2>2, <3>3, <3>5 DEF Keeps
  <2> QED BY <2>3, <2>4
<1> QED BY <1>2, <1>10, <1>11, <1>12 DEF SessionsInv

(* For any number of turns and keys and any requests.                      *)
THEOREM KeysKeepTheirLongest == SoundSessions => (SessionsSpec => []SessionsInv)
<1> SUFFICES ASSUME SoundSessions PROVE SessionsSpec => []SessionsInv
  OBVIOUS
<1>1. SessionsInit => SessionsInv
  <2> SUFFICES ASSUME SessionsInit PROVE SessionsInv
    OBVIOUS
  <2> DEFINE none == NewTurn
  <2>1. IsTurn(none) /\ none.phase = "idle"
    <3> DEFINE no == FALSE
               r == [phase |-> "idle", ask |-> Missing, prev |-> Missing, sent |-> Missing, compat |-> no]
    <3>1. none = r
      BY DEF NewTurn
    <3> HIDE DEF no, none
    <3>2. IsTurn(r) /\ r.phase = "idle"
      BY DEF IsTurn
    <3> QED BY <3>1, <3>2
  <2> HIDE DEF none
  <2>2. SessionsTyped
    BY <2>1 DEF SessionsInit, SessionsTyped, none
  <2>3. \A k \in SessionKeys : StoredUnder(k) = {} /\ sessions[k] = Missing
    BY <2>1 DEF SessionsInit, StoredUnder, none
  <2> QED BY <2>2, <2>3 DEF SessionsInv, Keeps
<1>2. SessionsInv /\ [SessionsNext]_(sessionVars) => SessionsInv'
  <2> SUFFICES ASSUME SessionsInv, [SessionsNext]_(sessionVars)
               PROVE  SessionsInv'
    OBVIOUS
  <2>1. CASE \E t, id \in SessionTurns, q \in SessionAsks :
               AskInFull(t, q) \/ AskByDelta(t, q) \/ AskAfter(t, q, id)
    BY <2>1, AskingIsQuiet, QuietKeepsInv DEF SessionsInv
  <2>2. CASE \E t \in SessionTurns : RescueTooLarge(t)
    <3>1. Quiet /\ UNCHANGED <<sessions, cleared>>
      BY <2>2, ResendingIsQuiet DEF SessionsInv, RescueTooLarge
    <3> QED BY <3>1, QuietKeepsInv
  <2>3. CASE \E t \in SessionTurns : RefuseDelta(t)
    BY <2>3, RefusingKeepsInv
  <2>4. CASE \E t \in SessionTurns : RefuseReference(t) \/ AnswerArrives(t) \/ Lose(t)
    BY <2>4, GoingOnIsQuiet, QuietKeepsInv DEF SessionsInv
  <2>5. CASE \E t \in SessionTurns : Store(t)
    BY <2>5, StoringKeepsInv
  <2>6. CASE Age
    BY <2>6, AgingKeepsInv
  <2>7. CASE UNCHANGED sessionVars
    <3>1. Quiet /\ UNCHANGED <<sessions, cleared>>
      BY <2>7 DEF sessionVars, Quiet, SessionsInv, SessionsTyped
    <3> QED BY <3>1, QuietKeepsInv
  <2> QED BY <2>1, <2>2, <2>3, <2>4, <2>5, <2>6, <2>7 DEF SessionsNext
<1> QED BY <1>1, <1>2, PTL DEF SessionsSpec

(* In whatever order the turns of a conversation finish, and whatever      *)
(* expires: its key keeps the longest history that was answered            *)
(* (update_response_session_with_id, should_replace_response_session).     *)
THEOREM TheLongestStays == SoundSessions => (SessionsSpec => []LongestIsKept)
<1> SUFFICES ASSUME SoundSessions PROVE SessionsSpec => []LongestIsKept
  OBVIOUS
<1>1. SessionsInv => LongestIsKept
  <2> SUFFICES ASSUME SessionsInv, NEW k \in SessionKeys,
                      \A t, o \in StoredUnder(k) : Continue(t, o),
                      StoredUnder(k) # {}, k \notin cleared
               PROVE  \A t \in StoredUnder(k) :
                        IsPrefix(History(t), Essential(sessions[k].input))
    BY DEF LongestIsKept, StoredUnder, Continue, History
  <2> QED BY DEF SessionsInv, Keeps, Chained
<1> QED BY <1>1, KeysKeepTheirLongest, PTL

-----------------------------------------------------------------------------
(* What the provider holds.                                                *)

(* A conversation ends with a history, or is that history.                 *)
EndsIn(whole, input) == whole \in Seq(Items) /\ IsSuffix(Essential(input), Essential(whole))
IsAll(whole, input) == Essential(whole) = Essential(input)

(* No client has named a response itself.                                  *)
Plain == \A o \in SessionTurns : asked[o].ask # Missing => ~asked[o].ask.prev

(* What a body on its way is the continuation of.                          *)
Behind(t) == IF asked[t].prev = Missing \/ asked[t].compat THEN <<>> ELSE context[asked[t].prev]

Carries(t) ==
  /\ asked[t].prev # Missing => asked[t].prev \in SessionTurns /\ context[asked[t].prev] # Missing
  /\ asked[t].compat => asked[t].ask.prev
  /\ asked[t].sent \in Seq(Items) /\ Behind(t) \in Seq(Items)
  /\ EndsIn(Behind(t) \o asked[t].sent, asked[t].ask.input)
  /\ Plain => IsAll(Behind(t) \o asked[t].sent, asked[t].ask.input)

(* The provider holds a conversation for every answer, and what it holds   *)
(* ends with the history of the turn it answered.                          *)
Holds(t) ==
  /\ asked[t].phase \in {"answered", "stored"} => context[t] # Missing
  /\ context[t] # Missing =>
       /\ asked[t].phase \in {"answered", "stored", "lost"}
       /\ EndsIn(context[t], asked[t].ask.input)
       /\ Plain => IsAll(context[t], asked[t].ask.input)

OfAnAnswer(k) ==
  sessions[k] # Missing =>
    /\ asked[sessions[k].id].phase = "stored"
    /\ sessions[k].input = asked[sessions[k].id].ask.input

ContextInv ==
  /\ DOMAIN context = SessionTurns
  /\ \A t \in SessionTurns : asked[t].phase = "idle" => asked[t].ask = Missing
  /\ \A t \in SessionTurns : asked[t].phase = "sent" => Carries(t)
  /\ \A t \in SessionTurns : Holds(t)
  /\ \A k \in SessionKeys : OfAnAnswer(k)

LEMMA ItselfFits ==
  ASSUME NEW i \in Seq(Items)
  PROVE  EndsIn(<<>> \o i, i) /\ IsAll(<<>> \o i, i)
<1>1. <<>> \o i = i
  BY ConcatEmptySeq
<1> DEFINE C == {Comparable(x) : x \in Items}
           e == Essential(i)
<1>2. e \in Seq(C)
  BY EssentialIs
<1> HIDE DEF C, e
<1>3. <<>> \in Seq(C) /\ <<>> \o e = e
  BY <1>2, ConcatEmptySeq
<1>4. IsSuffix(e, e)
  BY <1>2, <1>3, SuffixIs
<1> QED BY <1>1, <1>4 DEF EndsIn, IsAll, e

LEMMA BehindFits ==
  ASSUME NEW w \in Seq(Items), NEW i \in Seq(Items)
  PROVE  EndsIn(w \o i, i)
<1> DEFINE C == {Comparable(x) : x \in Items}
           e == Essential(i)
           f == Essential(w)
<1>1. e \in Seq(C) /\ f \in Seq(C) /\ Essential(w \o i) = f \o e /\ w \o i \in Seq(Items)
  BY EssentialIs, EssentialOfBoth, BothAre
<1> HIDE DEF C, e, f
<1>2. f \o e \in Seq(C)
  BY <1>1, BothAre
<1>3. IsSuffix(e, f \o e)
  BY <1>1, <1>2, SuffixIs
<1> QED BY <1>1, <1>3 DEF EndsIn, e

LEMMA DeltaFits ==
  ASSUME NEW w, NEW p \in Seq(Items), NEW c \in Seq(Items), Missing \notin Nat,
         EndsIn(w, p), Delta(p, c) # Missing
  PROVE  /\ Delta(p, c) \in Seq(Items)
         /\ EndsIn(w \o Delta(p, c), c) /\ (IsAll(w, p) => IsAll(w \o Delta(p, c), c))
<1> DEFINE C == {Comparable(x) : x \in Items}
           d == Delta(p, c)
           ew == Essential(w)
           ep == Essential(p)
           ed == Essential(d)
<1>1. w \in Seq(Items) /\ IsSuffix(ep, ew)
  BY DEF EndsIn
<1>2. d \in Seq(Items) /\ Essential(c) = ep \o ed
  BY DeltaAppends
<1> HIDE DEF d
<1>3. /\ ew \in Seq(C) /\ ep \in Seq(C) /\ ed \in Seq(C) /\ Essential(w \o d) = ew \o ed
      /\ w \o d \in Seq(Items)
  BY <1>1, <1>2, EssentialIs, EssentialOfBoth, BothAre
<1> HIDE DEF C, ew, ep, ed
<1>4. IsSuffix(ep \o ed, ew \o ed)
  BY <1>1, <1>3, SuffixGoesOn
<1> QED BY <1>2, <1>3, <1>4 DEF EndsIn, IsAll, d, ew, ep

LEMMA KeptFits ==
  ASSUME NEW w \in Seq(Items), NEW d \in Seq(Items), NEW i, EndsIn(w \o d, i)
  PROVE  EndsIn(w \o Kept(d), i) /\ (IsAll(w \o d, i) => IsAll(w \o Kept(d), i))
<1>1. Kept(d) \in Seq(Items) /\ w \o Kept(d) \in Seq(Items)
  BY KeptIs, BothAre
<1>2. Essential(w \o Kept(d)) = Essential(w \o d)
  <2> DEFINE r == Kept(d)
  <2>1. r \in Seq(Items) /\ Essential(r) = Essential(d)
    BY <1>1, EssentialOfKept
  <2> HIDE DEF r
  <2>2. Essential(w \o r) = Essential(w) \o Essential(r) /\ Essential(w \o d) = Essential(w) \o Essential(d)
    BY <2>1, EssentialOfBoth
  <2> QED BY <2>1, <2>2 DEF r
<1> QED BY <1>1, <1>2 DEF EndsIn, IsAll

(* A step of a turn that leaves what the provider holds as it is.          *)
LEMMA TurnGoesOn ==
  ASSUME SoundSessions, SessionsTyped, ContextInv, NEW t \in SessionTurns,
         \A o \in SessionTurns \ {t} : asked'[o] = asked[o], context' = context,
         asked[t].phase # "idle" => asked'[t].ask = asked[t].ask,
         \/ asked'[t].phase = "sent" /\ asked[t].phase \in {"idle", "sent"} /\ Carries(t)'
         \/ asked'[t].phase = "lost" /\ asked[t].phase \in {"sent", "answered"},
         \A k \in SessionKeys : sessions'[k] \in {Missing, sessions[k]}
  PROVE  ContextInv'
<1>1. \A o \in SessionTurns : asked[o].ask # Missing => asked'[o].ask = asked[o].ask
  BY DEF ContextInv
<1>2. Plain' => Plain
  BY <1>1 DEF Plain
<1>3. DOMAIN context' = SessionTurns
  BY DEF ContextInv
<1>4. ASSUME NEW o \in SessionTurns PROVE asked'[o].phase = "idle" => asked'[o].ask = Missing
  BY DEF ContextInv
<1>5. ASSUME NEW o \in SessionTurns, asked'[o].phase = "sent" PROVE Carries(o)'
  <2>1. CASE o = t
    BY <1>5, <2>1
  <2>2. CASE o # t
    <3>1. asked'[o] = asked[o] /\ Carries(o)
      BY <1>5, <2>2 DEF ContextInv
    <3>2. Behind(o)' = Behind(o)
      BY <3>1 DEF Behind
    <3> QED BY <1>2, <3>1, <3>2 DEF Carries
  <2> QED BY <2>1, <2>2
<1>6. ASSUME NEW o \in SessionTurns PROVE Holds(o)'
  <2>1. Holds(o) /\ context'[o] = context[o]
    BY DEF ContextInv
  <2>2. CASE o # t
    BY <1>2, <2>1, <2>2 DEF Holds
  <2>3. CASE o = t /\ asked'[t].phase = "sent"
    BY <2>1, <2>3 DEF Holds
  <2>4. CASE o = t /\ asked'[t].phase = "lost"
    BY <1>2, <2>1, <2>4 DEF Holds
  <2> QED BY <2>2, <2>3, <2>4
<1>7. ASSUME NEW k \in SessionKeys PROVE OfAnAnswer(k)'
  <2> SUFFICES ASSUME sessions'[k] # Missing
               PROVE  /\ asked'[sessions'[k].id].phase = "stored"
                      /\ sessions'[k].input = asked'[sessions'[k].id].ask.input
    BY DEF OfAnAnswer
  <2>1. sessions'[k] = sessions[k] /\ sessions[k] # Missing
    OBVIOUS
  <2>2. sessions[k].id \in SessionTurns
    BY <2>1, InputsAre
  <2>3. asked[sessions[k].id].phase = "stored" /\ sessions[k].input = asked[sessions[k].id].ask.input
    BY <2>1 DEF ContextInv, OfAnAnswer
  <2> QED BY <2>1, <2>2, <2>3
<1> QED BY <1>3, <1>4, <1>5, <1>6, <1>7 DEF ContextInv

(* A body that is sent fits, if it does by what is known of the step.      *)
LEMMA SendingFits ==
  ASSUME SessionsTyped, NEW t \in SessionTurns, NEW q \in SessionAsks, NEW prev, NEW sent,
         NEW w \in Seq(Items), sent \in Seq(Items),
         w = IF prev = Missing THEN <<>> ELSE context[prev],
         prev # Missing => prev \in SessionTurns /\ context[prev] # Missing,
         Sends(t, q, prev, sent, FALSE), context' = context,
         EndsIn(w \o sent, q.input), Plain' => IsAll(w \o sent, q.input)
  PROVE  Carries(t)'
<1> DEFINE no == FALSE
           r == [phase |-> "sent", ask |-> q, prev |-> prev, sent |-> sent, compat |-> no]
<1>1. asked'[t] = r
  BY DEF Sends, SessionsTyped
<1>2. r.ask = q /\ r.prev = prev /\ r.sent = sent /\ r.compat = no
  OBVIOUS
<1> HIDE DEF r
<1>3. asked'[t].ask = q /\ asked'[t].prev = prev /\ asked'[t].sent = sent /\ ~asked'[t].compat
  BY <1>1, <1>2
<1>4. Behind(t)' = w
  BY <1>3 DEF Behind
<1> QED BY <1>3, <1>4 DEF Carries

LEMMA SendingWhole ==
  ASSUME SessionsTyped, NEW t \in SessionTurns, NEW q \in SessionAsks, q.input \in Seq(Items),
         Sends(t, q, Missing, q.input, FALSE), context' = context
  PROVE  Carries(t)'
<1> DEFINE i == q.input
           w == <<>>
           prev == Missing
<1>1. i \in Seq(Items) /\ Sends(t, q, prev, i, FALSE)
  OBVIOUS
<1>2. w \in Seq(Items) /\ (w = IF prev = Missing THEN <<>> ELSE context[prev])
  OBVIOUS
<1>3. EndsIn(w \o i, i) /\ IsAll(w \o i, i)
  BY <1>1, ItselfFits
<1>4. prev # Missing => prev \in SessionTurns /\ context[prev] # Missing
  OBVIOUS
<1> HIDE DEF w, prev
<1>5. EndsIn(w \o i, q.input) /\ (Plain' => IsAll(w \o i, q.input))
  BY <1>3
<1> HIDE DEF i
<1> QED BY <1>1, <1>2, <1>4, <1>5, SendingFits

(* A delta continues what the provider holds under the id of its session.  *)
LEMMA DeltasContinue ==
  ASSUME SoundSessions, SessionsTyped, ContextInv, NEW t \in SessionTurns, NEW q \in SessionAsks,
         NEW k \in SessionKeys, Fresh(sessions[k]), Delta(sessions[k].input, q.input) # Missing,
         Sends(t, q, sessions[k].id, Delta(sessions[k].input, q.input), FALSE), context' = context,
         Plain' => Plain
  PROVE  Carries(t)'
<1> DEFINE id == sessions[k].id
           p == sessions[k].input
           d == Delta(p, q.input)
           w == context[id]
<1>1. sessions[k] # Missing
  BY DEF Fresh
<1>2. /\ id \in SessionTurns /\ p \in Seq(Items) /\ q.input \in Seq(Items)
      /\ asked[id].phase = "stored" /\ p = asked[id].ask.input
  BY <1>1, InputsAre DEF ContextInv, OfAnAnswer
<1>3. w # Missing /\ EndsIn(w, p) /\ (Plain => IsAll(w, p))
  BY <1>2 DEF ContextInv, Holds
<1>4. d # Missing /\ Missing \notin Nat /\ id # Missing
  BY <1>2 DEF SoundSessions
<1> HIDE DEF w, p, id
<1>5. d \in Seq(Items) /\ EndsIn(w \o d, q.input) /\ (IsAll(w, p) => IsAll(w \o d, q.input))
  BY <1>2, <1>3, <1>4, DeltaFits
<1>6. w \in Seq(Items) /\ Sends(t, q, id, d, FALSE)
  BY <1>3 DEF EndsIn, p, id
<1> HIDE DEF d
<1>7. (w = IF id = Missing THEN <<>> ELSE context[id]) /\ (id # Missing => id \in SessionTurns /\ context[id] # Missing)
  BY <1>2, <1>3, <1>4 DEF w
<1> QED BY <1>3, <1>5, <1>6, <1>7, SendingFits

LEMMA AskingContinues ==
  ASSUME SoundSessions, SessionsTyped, ContextInv, NEW t \in SessionTurns, NEW q \in SessionAsks,
         NEW id \in SessionTurns,
         AskInFull(t, q) \/ AskByDelta(t, q) \/ AskAfter(t, q, id)
  PROVE  ContextInv'
<1>1. /\ asked[t].phase = "idle" /\ context' = context /\ sessions' = sessions
      /\ \E prev, sent : Sends(t, q, prev, sent, FALSE)
  BY DEF AskInFull, AskByDelta, AskAfter
<1>2. asked'[t].phase = "sent" /\ \A o \in SessionTurns \ {t} : asked'[o] = asked[o]
  BY <1>1, SendingIs
<1>3. asked'[t].ask = q /\ q # Missing /\ q.input \in Seq(Items)
  BY <1>1, InputsAre DEF Sends, SessionsTyped, SoundSessions
<1>4. Plain' => Plain
  BY <1>1, <1>2 DEF Plain, ContextInv
<1>5. Carries(t)'
  <2>1. CASE AskInFull(t, q)
    <3>1. Sends(t, q, Missing, q.input, FALSE)
      BY <2>1 DEF AskInFull
    <3> QED BY <1>1, <1>3, <3>1, SendingWhole
  <2>2. CASE AskByDelta(t, q)
    <3>1. PICK k \in Exact(q.key, q.input) :
             Sends(t, q, sessions[k].id, Delta(sessions[k].input, q.input), FALSE)
      BY <2>2 DEF AskByDelta
    <3>2. k \in SessionKeys /\ Fresh(sessions[k]) /\ Delta(sessions[k].input, q.input) # Missing
      BY InputsAre DEF Exact
    <3> QED BY <1>1, <1>4, <3>1, <3>2, DeltasContinue
  <2>3. CASE AskAfter(t, q, id)
    <3> DEFINE w == context[id]
    <3>1. q.prev /\ w # Missing /\ Sends(t, q, id, q.input, FALSE) /\ id # Missing
      BY <2>3 DEF AskAfter, SoundSessions
    <3>2. ~Plain'
      BY <1>3, <3>1 DEF Plain
    <3>3. w \in Seq(Items)
      BY <3>1 DEF ContextInv, Holds, EndsIn
    <3>4. EndsIn(w \o q.input, q.input)
      BY <1>3, <3>3, BehindFits
    <3>5. w = IF id = Missing THEN <<>> ELSE context[id]
      BY <3>1
    <3> HIDE DEF w
    <3>6. id # Missing => id \in SessionTurns /\ context[id] # Missing
      BY <3>1 DEF w
    <3> QED BY <1>1, <1>3, <3>1, <3>2, <3>3, <3>4, <3>5, <3>6, SendingFits
  <2> QED BY <2>1, <2>2, <2>3
<1> QED BY <1>1, <1>2, <1>5, TurnGoesOn

LEMMA ResendingContinues ==
  ASSUME SoundSessions, SessionsTyped, ContextInv, NEW t \in SessionTurns,
         RescueTooLarge(t) \/ RefuseDelta(t)
  PROVE  ContextInv'
<1> DEFINE q == asked[t].ask
<1>1. /\ asked[t].phase = "sent" /\ context' = context
      /\ \E prev, sent : Sends(t, q, prev, sent, FALSE)
      /\ \A k \in SessionKeys : sessions'[k] \in {Missing, sessions[k]}
  BY DEF RescueTooLarge, RefuseDelta
<1>2. q \in SessionAsks /\ q # Missing /\ q.input \in Seq(Items) /\ q.key \in SessionKeys
  BY <1>1, InputsAre
<1>3. asked'[t].phase = "sent" /\ \A o \in SessionTurns \ {t} : asked'[o] = asked[o]
  BY <1>1, <1>2, SendingIs
<1>4. asked'[t].ask = q
  BY <1>1 DEF Sends, SessionsTyped
<1>5. Plain' => Plain
  BY <1>3, <1>4 DEF Plain, ContextInv
<1> HIDE DEF q
<1>6. Carries(t)'
  <2>1. CASE RescueTooLarge(t)
    <3>1. PICK k \in SessionKeys :
             /\ Fresh(sessions[k]) /\ Delta(sessions[k].input, q.input) # Missing
             /\ Sends(t, q, sessions[k].id, Delta(sessions[k].input, q.input), FALSE)
      BY <1>2, <2>1 DEF RescueTooLarge, Exact, Siblings, q
    <3> QED BY <1>1, <1>2, <1>5, <3>1, DeltasContinue
  <2>2. CASE RefuseDelta(t)
    <3>1. Sends(t, q, Missing, q.input, FALSE)
      BY <2>2 DEF RefuseDelta, q
    <3> QED BY <1>1, <1>2, <3>1, SendingWhole
  <2> QED BY <2>1, <2>2
<1> QED BY <1>1, <1>3, <1>4, <1>6, TurnGoesOn DEF q

(* The sessions that have the id of an answer have the history it answers. *)
LEMMA InputForIs ==
  ASSUME SoundSessions, SessionsTyped, ContextInv, NEW id
  PROVE  InputFor(id) = Missing \/ InputFor(id) \in Seq(Items)
<1> DEFINE have == {k \in SessionKeys : Fresh(sessions[k]) /\ sessions[k].id = id}
           longest == {k \in have : \A o \in have : Len(sessions[o].input) <= Len(sessions[k].input)}
<1>1. CASE have = {}
  BY <1>1 DEF InputFor
<1>2. CASE have # {}
  <2>1. InputFor(id) = sessions[CHOOSE k \in longest : TRUE].input
    BY <1>2 DEF InputFor
  <2>2. \A k \in have : sessions[k].input = asked[id].ask.input /\ sessions[k].input \in Seq(Items)
    BY InputsAre DEF ContextInv, OfAnAnswer, Fresh
  <2>3. \A k, o \in have : Len(sessions[o].input) <= Len(sessions[k].input)
    <3>1. PICK i : \A k \in have : sessions[k].input = i /\ i \in Seq(Items)
      BY <2>2
    <3> HIDE DEF have
    <3>2. \A k \in have : Len(sessions[k].input) \in Nat /\ Len(sessions[k].input) = Len(i)
      BY <3>1
    <3> QED BY <3>2
  <2>4. longest = have
    BY <2>3
  <2>5. (CHOOSE k \in longest : TRUE) \in have
    BY <1>2, <2>4
  <2> HIDE DEF have, longest
  <2> QED BY <2>1, <2>2, <2>5
<1> QED BY <1>1, <1>2

(* What replaces a reference ends with what the client says.               *)
LEMMA CompatBodyIs ==
  ASSUME SoundSessions, SessionsTyped, ContextInv, NEW id, NEW i \in Seq(Items)
  PROVE  CompatBody(id, i) \in Seq(Items) /\ EndsIn(CompatBody(id, i), i)
<1>1. CASE CompatBody(id, i) = i
  <2>1. <<>> \o i = i /\ EndsIn(<<>> \o i, i)
    BY ConcatEmptySeq, ItselfFits
  <2> QED BY <1>1, <2>1
<1>2. CASE CompatBody(id, i) # i
  <2> DEFINE w == InputFor(id)
  <2>1. w # Missing /\ CompatBody(id, i) = w \o i
    BY <1>2 DEF CompatBody
  <2>2. w \in Seq(Items)
    BY <2>1, InputForIs
  <2> HIDE DEF w
  <2> QED BY <2>1, <2>2, BehindFits, BothAre
<1> QED BY <1>1, <1>2

LEMMA ReplacingContinues ==
  ASSUME SoundSessions, SessionsTyped, ContextInv, NEW t \in SessionTurns, RefuseReference(t)
  PROVE  ContextInv'
<1> DEFINE u == asked[t]
           body == CompatBody(u.prev, u.ask.input)
           yes == TRUE
           r == [u EXCEPT !.sent = body, !.compat = yes]
<1>1. /\ u.phase = "sent" /\ u.prev # Missing /\ u.ask.prev /\ IsTurn(u)
      /\ u.ask # Missing /\ u.ask.input \in Seq(Items)
      /\ context' = context /\ sessions' = sessions
  BY InputsAre DEF RefuseReference, SessionsTyped
<1>2. body \in Seq(Items) /\ EndsIn(body, u.ask.input)
  BY <1>1, CompatBodyIs
<1>3. asked' = [asked EXCEPT ![t] = r]
  <2>1. asked' = [asked EXCEPT ![t].sent = body, ![t].compat = yes]
    BY DEF RefuseReference
  <2> HIDE DEF body, yes
  <2> QED BY <2>1
<1> HIDE DEF body
<1>4. r.phase = "sent" /\ r.prev = u.prev /\ r.ask = u.ask /\ r.sent = body /\ r.compat = yes
  <2> HIDE DEF yes
  <2> QED BY <1>1 DEF IsTurn
<1> HIDE DEF r
<1>5. asked'[t] = r /\ \A o \in SessionTurns \ {t} : asked'[o] = asked[o]
  BY <1>3 DEF SessionsTyped
<1>6. Carries(t)'
  <2>1. asked'[t].compat /\ asked'[t].ask = u.ask /\ asked'[t].sent = body /\ asked'[t].prev = u.prev
    BY <1>4, <1>5
  <2>2. ~Plain'
    BY <1>1, <2>1 DEF Plain
  <2>3. Behind(t)' = <<>>
    BY <2>1 DEF Behind
  <2>4. <<>> \o body = body /\ <<>> \in Seq(Items)
    BY <1>2, ConcatEmptySeq
  <2>5. EndsIn(<<>> \o body, u.ask.input)
    BY <1>2, <2>4
  <2>6. u.prev \in SessionTurns /\ context'[u.prev] # Missing
    BY <1>1 DEF ContextInv, Carries
  <2> HIDE DEF u
  <2> QED BY <1>1, <1>2, <2>1, <2>2, <2>3, <2>4, <2>5, <2>6 DEF Carries
<1>7. asked'[t].phase = "sent" /\ asked'[t].ask = asked[t].ask
  BY <1>4, <1>5
<1> QED BY <1>1, <1>5, <1>6, <1>7, TurnGoesOn

LEMMA LosingContinues ==
  ASSUME SoundSessions, SessionsTyped, ContextInv, NEW t \in SessionTurns, Lose(t)
  PROVE  ContextInv'
<1> DEFINE r == [asked[t] EXCEPT !.phase = "lost"]
<1>1. asked' = [asked EXCEPT ![t] = r] /\ IsTurn(asked[t])
  BY DEF Lose, SessionsTyped
<1>2. r.phase = "lost" /\ r.ask = asked[t].ask
  BY <1>1 DEF IsTurn
<1> HIDE DEF r
<1>3. asked'[t] = r /\ \A o \in SessionTurns \ {t} : asked'[o] = asked[o]
  BY <1>1 DEF SessionsTyped
<1>4. asked'[t].phase = "lost" /\ asked'[t].ask = asked[t].ask
  BY <1>2, <1>3
<1>5. context' = context /\ sessions' = sessions /\ asked[t].phase \in {"sent", "answered"}
  BY DEF Lose
<1> QED BY <1>3, <1>4, <1>5, TurnGoesOn

(* The provider holds what was behind the body and the body, under an id   *)
(* nobody has named yet.                                                   *)
LEMMA AnsweringContinues ==
  ASSUME SoundSessions, SessionsTyped, ContextInv, NEW t \in SessionTurns, AnswerArrives(t)
  PROVE  ContextInv'
<1> DEFINE u == asked[t]
           r == [u EXCEPT !.phase = "answered"]
           held == Behind(t) \o Kept(u.sent)
<1>1. /\ u.phase = "sent" /\ IsTurn(u) /\ sessions' = sessions
      /\ asked' = [asked EXCEPT ![t] = r] /\ context' = [context EXCEPT ![t] = held]
  BY DEF AnswerArrives, SessionsTyped, Behind
<1>2. r.phase = "answered" /\ r.ask = u.ask
  BY <1>1 DEF IsTurn
<1> HIDE DEF r
<1>3. /\ asked'[t] = r /\ \A o \in SessionTurns \ {t} : asked'[o] = asked[o]
      /\ DOMAIN context' = SessionTurns /\ context'[t] = held
      /\ \A o \in SessionTurns \ {t} : context'[o] = context[o]
  BY <1>1 DEF SessionsTyped, ContextInv
<1>4. \A o \in SessionTurns : asked'[o].ask = asked[o].ask
  BY <1>2, <1>3
<1>5. Plain' <=> Plain
  BY <1>4 DEF Plain
<1>6. Carries(t) /\ context[t] = Missing
  BY <1>1 DEF ContextInv, Holds
<1>7. EndsIn(held, u.ask.input) /\ (Plain => IsAll(held, u.ask.input))
  <2>1. /\ Behind(t) \in Seq(Items) /\ u.sent \in Seq(Items)
        /\ EndsIn(Behind(t) \o u.sent, u.ask.input)
        /\ Plain => IsAll(Behind(t) \o u.sent, u.ask.input)
    BY <1>6 DEF Carries
  <2> QED BY <2>1, KeptFits
<1>8. held # Missing
  BY <1>7 DEF EndsIn, SoundSessions
<1> HIDE DEF held
<1>9. Holds(t)'
  BY <1>2, <1>3, <1>4, <1>5, <1>7, <1>8 DEF Holds
<1>10. ASSUME NEW o \in SessionTurns, o # t PROVE Holds(o)'
  <2>1. Holds(o)
    BY DEF ContextInv
  <2> QED BY <1>3, <1>5, <1>10, <2>1 DEF Holds
<1>11. ASSUME NEW o \in SessionTurns, asked'[o].phase = "sent" PROVE Carries(o)'
  <2>1. o # t /\ asked'[o] = asked[o] /\ Carries(o)
    BY <1>2, <1>3, <1>11 DEF ContextInv
  <2>2. asked[o].prev # Missing =>
          asked[o].prev \in SessionTurns /\ context[asked[o].prev] # Missing /\ asked[o].prev # t
    BY <1>6, <2>1 DEF Carries
  <2>3. asked[o].prev # Missing => context'[asked[o].prev] = context[asked[o].prev]
    BY <1>3, <2>2
  <2>4. Behind(o)' = Behind(o)
    BY <2>1, <2>3 DEF Behind
  <2> QED BY <1>5, <2>1, <2>2, <2>3, <2>4 DEF Carries
<1>12. ASSUME NEW k \in SessionKeys PROVE OfAnAnswer(k)'
  <2>1. OfAnAnswer(k) /\ (sessions[k] # Missing => sessions[k].id \in SessionTurns)
    BY InputsAre DEF ContextInv
  <2>2. sessions[k] # Missing => sessions[k].id # t
    BY <1>1, <2>1 DEF OfAnAnswer
  <2> QED BY <1>1, <1>3, <2>1, <2>2 DEF OfAnAnswer
<1>13. \A o \in SessionTurns : asked'[o].phase = "idle" => asked'[o].ask = Missing
  BY <1>2, <1>3 DEF ContextInv
<1> QED BY <1>3, <1>9, <1>10, <1>11, <1>12, <1>13 DEF ContextInv

LEMMA StoringContinues ==
  ASSUME SoundSessions, SessionsTyped, ContextInv, NEW t \in SessionTurns, Store(t)
  PROVE  ContextInv'
<1> DEFINE u == asked[t]
           q == u.ask
           r == [u EXCEPT !.phase = "stored"]
           new == [id |-> t, input |-> q.input, age |-> 0]
<1>1. /\ u.phase = "answered" /\ IsTurn(u) /\ context' = context
      /\ asked' = [asked EXCEPT ![t] = r]
      /\ \A k \in SessionKeys : sessions'[k] \in {sessions[k], new}
  BY DEF Store, SessionsTyped
<1>2. r.phase = "stored" /\ r.ask = u.ask
  BY <1>1 DEF IsTurn
<1> HIDE DEF r
<1>3. asked'[t] = r /\ \A o \in SessionTurns \ {t} : asked'[o] = asked[o]
  BY <1>1 DEF SessionsTyped
<1>4. \A o \in SessionTurns : asked'[o].ask = asked[o].ask
  BY <1>2, <1>3
<1>5. Plain' <=> Plain
  BY <1>4 DEF Plain
<1>6. ASSUME NEW o \in SessionTurns PROVE Holds(o)'
  <2>1. Holds(o)
    BY DEF ContextInv
  <2>2. CASE o # t
    BY <1>1, <1>3, <1>5, <2>1, <2>2 DEF Holds
  <2>3. CASE o = t
    BY <1>1, <1>2, <1>3, <1>5, <2>1, <2>3 DEF Holds
  <2> QED BY <2>2, <2>3
<1>7. ASSUME NEW o \in SessionTurns, asked'[o].phase = "sent" PROVE Carries(o)'
  <2>1. asked'[o] = asked[o] /\ Carries(o)
    BY <1>2, <1>3, <1>7 DEF ContextInv
  <2>2. Behind(o)' = Behind(o)
    BY <1>1, <2>1 DEF Behind
  <2> QED BY <1>1, <1>5, <2>1, <2>2 DEF Carries
<1>8. ASSUME NEW k \in SessionKeys PROVE OfAnAnswer(k)'
  <2>1. CASE sessions'[k] = new
    <3>1. sessions'[k].id = t /\ sessions'[k].input = q.input
      BY <2>1
    <3> HIDE DEF new
    <3> QED BY <1>2, <1>3, <3>1 DEF OfAnAnswer
  <2>2. CASE sessions'[k] = sessions[k]
    <3>1. OfAnAnswer(k) /\ (sessions[k] # Missing => sessions[k].id \in SessionTurns)
      BY InputsAre DEF ContextInv
    <3>2. sessions[k] # Missing => sessions[k].id # t
      BY <1>1, <3>1 DEF OfAnAnswer
    <3> QED BY <1>3, <2>2, <3>1, <3>2 DEF OfAnAnswer
  <2> QED BY <1>1, <2>1, <2>2
<1>9. \A o \in SessionTurns : asked'[o].phase = "idle" => asked'[o].ask = Missing
  BY <1>2, <1>3 DEF ContextInv
<1>10. DOMAIN context' = SessionTurns
  BY <1>1 DEF ContextInv
<1> QED BY <1>6, <1>7, <1>8, <1>9, <1>10 DEF ContextInv

LEMMA AgingContinues ==
  ASSUME SoundSessions, SessionsTyped, ContextInv, Age PROVE ContextInv'
<1>1. asked' = asked /\ context' = context
  BY DEF Age
<1>2. (Plain' <=> Plain) /\ \A t \in SessionTurns : Behind(t)' = Behind(t)
  BY <1>1 DEF Plain, Behind
<1>3. \A t \in SessionTurns : (Carries(t) => Carries(t)') /\ (Holds(t) => Holds(t)')
  BY <1>1, <1>2 DEF Carries, Holds
<1>4. ASSUME NEW k \in SessionKeys PROVE OfAnAnswer(k)'
  <2> DEFINE s == sessions[k]
             older == [s EXCEPT !.age = s.age + 1]
  <2>1. OfAnAnswer(k)
    BY DEF ContextInv
  <2>2. CASE Fresh(s)
    <3>1. s # Missing /\ SessionOf(s) /\ sessions'[k] = older
      BY <2>2 DEF Fresh, SessionsTyped, Age
    <3> HIDE DEF s
    <3>2. older.id = s.id /\ older.input = s.input
      BY <3>1 DEF SessionOf
    <3> HIDE DEF older
    <3> QED BY <1>1, <2>1, <3>1, <3>2 DEF OfAnAnswer, s
  <2>3. CASE ~Fresh(s)
    <3>1. sessions'[k] = sessions[k]
      BY <2>3 DEF Age
    <3> QED BY <1>1, <2>1, <3>1 DEF OfAnAnswer
  <2> QED BY <2>2, <2>3
<1> QED BY <1>1, <1>3, <1>4 DEF ContextInv

(* For any number of turns, keys and requests: the provider holds, for     *)
(* every answer, a conversation that ends with the history it answered,    *)
(* and every body on its way continues the conversation it names to the    *)
(* history it stands for.                                                  *)
THEOREM ProviderHoldsTheHistories == SoundSessions => (SessionsSpec => []ContextInv)
<1> SUFFICES ASSUME SoundSessions PROVE SessionsSpec => []ContextInv
  OBVIOUS
<1>1. SessionsInit => ContextInv
  <2> SUFFICES ASSUME SessionsInit PROVE ContextInv
    OBVIOUS
  <2> DEFINE none == NewTurn
  <2>1. none.phase = "idle" /\ none.ask = Missing
    <3> DEFINE no == FALSE
               r == [phase |-> "idle", ask |-> Missing, prev |-> Missing, sent |-> Missing, compat |-> no]
    <3>1. none = r
      BY DEF NewTurn
    <3> HIDE DEF no, none
    <3>2. r.phase = "idle" /\ r.ask = Missing
      OBVIOUS
    <3> QED BY <3>1, <3>2
  <2> HIDE DEF none
  <2>2. DOMAIN context = SessionTurns /\ \A t \in SessionTurns : asked[t] = none /\ context[t] = Missing
    BY DEF SessionsInit, none
  <2>3. \A k \in SessionKeys : sessions[k] = Missing
    BY DEF SessionsInit
  <2> QED BY <2>1, <2>2, <2>3 DEF ContextInv, Holds, OfAnAnswer
<1>2. SessionsTyped /\ ContextInv /\ [SessionsNext]_(sessionVars) => ContextInv'
  <2> SUFFICES ASSUME SessionsTyped, ContextInv, [SessionsNext]_(sessionVars)
               PROVE  ContextInv'
    OBVIOUS
  <2>1. CASE \E t, id \in SessionTurns, q \in SessionAsks :
               AskInFull(t, q) \/ AskByDelta(t, q) \/ AskAfter(t, q, id)
    BY <2>1, AskingContinues
  <2>2. CASE \E t \in SessionTurns : RescueTooLarge(t) \/ RefuseDelta(t)
    BY <2>2, ResendingContinues
  <2>3. CASE \E t \in SessionTurns : RefuseReference(t) \/ AnswerArrives(t)
    BY <2>3, ReplacingContinues, AnsweringContinues
  <2>4. CASE \E t \in SessionTurns : Store(t) \/ Lose(t)
    BY <2>4, StoringContinues, LosingContinues
  <2>5. CASE Age
    BY <2>5, AgingContinues
  <2>6. CASE UNCHANGED sessionVars
    <3>1. asked' = asked /\ context' = context /\ sessions' = sessions
      BY <2>6 DEF sessionVars
    <3> QED BY <3>1 DEF ContextInv, Carries, Holds, OfAnAnswer, Behind, Plain
  <2> QED BY <2>1, <2>2, <2>3, <2>4, <2>5, <2>6 DEF SessionsNext
<1>3. SessionsInv => SessionsTyped
  BY DEF SessionsInv
<1> QED BY <1>1, <1>2, <1>3, KeysKeepTheirLongest, PTL DEF SessionsSpec

(* Whatever turns were answered, stored, refused or have expired, and      *)
(* whichever session is picked for a delta (appended_response_input_delta, *)
(* fallback_response_sessions): what the provider holds and the delta end  *)
(* with all that the client sent, item by item, and are that if no client  *)
(* has named a response itself.                                            *)
THEOREM DeltasContinueTheirSession == SoundSessions => (SessionsSpec => []DeltaContinues)
<1> SUFFICES ASSUME SoundSessions PROVE SessionsSpec => []DeltaContinues
  OBVIOUS
<1>1. ContextInv => DeltaContinues
  <2> SUFFICES ASSUME ContextInv, NEW t \in SessionTurns, asked[t].phase = "sent",
                      asked[t].prev # Missing, ~asked[t].ask.prev
               PROVE  /\ context[asked[t].prev] # Missing
                      /\ LET whole == Essential(context[asked[t].prev] \o asked[t].sent)
                         IN /\ IsSuffix(Essential(asked[t].ask.input), whole)
                            /\ (\A o \in SessionTurns : asked[o].ask # Missing => ~asked[o].ask.prev)
                                 => whole = Essential(asked[t].ask.input)
    BY DEF DeltaContinues
  <2>1. Carries(t) /\ Behind(t) = context[asked[t].prev]
    BY DEF ContextInv, Carries, Behind
  <2> QED BY <2>1 DEF Carries, EndsIn, IsAll, Plain
<1> QED BY <1>1, ProviderHoldsTheHistories, PTL

(* The body that replaces the client's own reference once it was refused   *)
(* (maybe_prepare_previous_response_compat_body, and the fallback that     *)
(* strips the reference): it loses nothing that the proxy knows to have    *)
(* been said before nor what is said now, and says nothing twice unless    *)
(* the client repeats it without the answers and not to the letter.        *)
THEOREM ReferencesAreReplaced == SoundSessions => (SessionsSpec => []ReferenceIsReplaced)
<1> SUFFICES ASSUME SoundSessions PROVE SessionsSpec => []ReferenceIsReplaced
  OBVIOUS
<1>1. SessionsTyped /\ ContextInv => ReferenceIsReplaced
  <2> SUFFICES ASSUME SessionsTyped, ContextInv, NEW t \in SessionTurns, asked[t].phase = "sent",
                      InputFor(asked[t].prev) # Missing, asked[t].ask.input # <<>>
               PROVE  LET u == asked[t]
                          previous == InputFor(u.prev)
                          before == Essential(previous)
                          mine == Essential(u.ask.input)
                          body == Essential(CompatBody(u.prev, u.ask.input))
                      IN /\ IsPrefix(before, body) /\ IsSuffix(mine, body)
                         /\ body # mine => body = before \o mine
                         /\ IsPrefix(before, mine)
                              /\ (SelfContained(u.ask.input) \/ IsPrefix(previous, u.ask.input))
                            => body = mine
    BY DEF ReferenceIsReplaced
  <2> DEFINE id == asked[t].prev
             i == asked[t].ask.input
             w == InputFor(id)
             C == {Comparable(x) : x \in Items}
             before == Essential(w)
             mine == Essential(i)
             compat == CompatBody(id, i)
             body == Essential(compat)
             whole == IsPrefix(before, mine) /\ SelfContained(i)
  <2>1. w \in Seq(Items) /\ i \in Seq(Items) /\ w # Missing /\ i # <<>>
    BY InputForIs, InputsAre
  <2>2. compat = IF w = <<>> \/ whole \/ IsPrefix(w, i) THEN i ELSE w \o i
    BY <2>1 DEF CompatBody
  <2>3. IsSuffix(mine, body)
    BY <2>1, CompatBodyIs DEF EndsIn
  <2>4. before \in Seq(C) /\ mine \in Seq(C) /\ Essential(w \o i) = before \o mine
    BY <2>1, EssentialIs, EssentialOfBoth
  <2>5. ASSUME IsPrefix(w, i) PROVE IsPrefix(before, mine)
    <3> DEFINE rest == SubSeq(i, Len(w) + 1, Len(i))
    <3>1. rest \in Seq(Items) /\ i = w \o rest
      BY <2>1, <2>5, PrefixSplits
    <3> HIDE DEF rest, w, i, C
    <3>2. mine = before \o Essential(rest) /\ Essential(rest) \in Seq({Comparable(x) : x \in Items})
      BY <2>1, <3>1, EssentialIs, EssentialOfBoth
    <3> QED BY <2>4, <3>2, PrefixOfBoth DEF C
  <2>6. w = <<>> => IsPrefix(w, i)
    <3> DEFINE e == <<>>
    <3>1. e \in Seq(Items) /\ e \o i = i
      BY <2>1, ConcatEmptySeq
    <3> HIDE DEF e, i
    <3>2. IsPrefix(e, i)
      BY <2>1, <3>1, PrefixOfBoth
    <3> QED BY <3>2 DEF e
  <2> HIDE DEF w, i, C, before, mine, compat, whole, id
  <2>7. CASE w = <<>> \/ whole \/ IsPrefix(w, i)
    <3>1. IsPrefix(before, mine) /\ body = mine
      BY <2>2, <2>5, <2>6, <2>7 DEF whole, mine
    <3> QED BY <2>3, <3>1 DEF w, i, before, mine, compat, id
  <2>8. CASE ~ (w = <<>> \/ whole \/ IsPrefix(w, i))
    <3>1. body = before \o mine /\ IsPrefix(before, before \o mine)
      BY <2>2, <2>4, <2>8, PrefixOfBoth
    <3>2. ~ (IsPrefix(before, mine) /\ (SelfContained(i) \/ IsPrefix(w, i)))
      BY <2>8 DEF whole
    <3> QED BY <2>3, <3>1, <3>2 DEF w, i, before, mine, compat, id
  <2> QED BY <2>7, <2>8
<1>2. SessionsInv => SessionsTyped
  BY DEF SessionsInv
<1> QED BY <1>1, <1>2, KeysKeepTheirLongest, ProviderHoldsTheHistories, PTL

-----------------------------------------------------------------------------
(* Prefixes.                                                               *)

LEMMA BucketsAreSent ==
  ASSUME NEW n \in Nat
  PROVE  /\ Bucket(n) \in Nat /\ Bucket(n) <= n
         /\ Bucket128(n) \in Nat /\ Bucket128(n) <= n
  BY DEF Bucket, Bucket128

LEMMA DelaysAreNatural ==
  ASSUME NEW s \in PrefixStates
  PROVE  SettleDelay(s) \in Nat /\ ChatSettleDelay(s) \in Nat
<1>1. SettleDelay(s) \in Nat
  <2> DEFINE n == Most(s.avoidable128, s.avoidable)
             short == Most(s.short128, s.short)
  <2>1. n \in Nat /\ short \in Nat /\ s.input \in Nat /\ s.read \in Nat /\ s.streak \in Nat
    BY DEF Most, PrefixStates
  <2> HIDE DEF n, short
  <2> QED BY <2>1 DEF SettleDelay, n, short
<1>2. ChatSettleDelay(s) \in Nat
  BY <1>1 DEF ChatSettleDelay, Least, Most, WaitCap
<1> QED BY <1>1, <1>2

(* A usage of a turn that was sent with at most top tokens.                *)
Usage(r, top) == r \in [input : Nat, read : Nat] /\ r.input <= top /\ r.read <= top
TailOf(x) == x.output \in Nat /\ x.largest \in Nat /\ x.noisy \in BOOLEAN

LEMMA EvidenceIs ==
  ASSUME NEW s, s # Empty => s \in PrefixStates,
         NEW r \in [input : Nat, read : Nat], NEW x, NEW exhausted
  PROVE  LET e == Evidence(s, r, x, exhausted)
         IN  /\ e.seen \in Nat /\ e.seen128 \in Nat
             /\ e.direct \in Nat /\ e.direct <= Short(r)
             /\ e.avoidable \in {0, e.direct}
             /\ e.avoidable128 \in Nat
             /\ s # Empty => e.seen <= Most(r.read, Strength(s)) /\ e.seen128 <= Most(r.read, Strength(s))
             /\ s = Empty => e.seen = 0 /\ e.seen128 = 0
<1> DEFINE was == IF s = Empty THEN [seen |-> 0, seen128 |-> 0] ELSE Calibrated(s, r)
           direct == Less(Least(was.seen, Bucket(r.input)), r.read)
           direct128 == Less(Least(was.seen128, Bucket128(r.input)), r.read)
           counts == ~ (Rollback(s, r, direct128, x, exhausted) \/ TailGranularity(s, r, direct128, x)
                        \/ Unreliable(x))
           e == Evidence(s, r, x, exhausted)
<1>1. r.input \in Nat /\ r.read \in Nat
  OBVIOUS
<1>2. /\ Bucket(r.input) \in Nat /\ Bucket128(r.input) \in Nat
  BY <1>1, BucketsAreSent
<1>3. /\ was.seen \in Nat /\ was.seen128 \in Nat
      /\ s # Empty => was.seen <= Most(r.read, Strength(s)) /\ was.seen128 <= Most(r.read, Strength(s))
      /\ s = Empty => was.seen = 0 /\ was.seen128 = 0
  <2>1. CASE s = Empty
    BY <2>1
  <2>2. CASE s # Empty
    <3>1. s.seen \in Nat /\ s.read \in Nat /\ s.seen128 \in Nat
      BY <2>2 DEF PrefixStates
    <3>2. was = Calibrated(s, r)
      BY <2>2
    <3> HIDE DEF was
    <3> QED BY <1>1, <2>2, <3>1, <3>2 DEF Calibrated, RawSeen, Strength, Most
  <2> QED BY <2>1, <2>2
<1>4. /\ e.seen = was.seen /\ e.seen128 = was.seen128 /\ e.direct = direct
      /\ e.avoidable \in {0, direct} /\ e.avoidable128 \in {0, direct128}
  <2> DEFINE yes == counts
  <2>1. e = [seen |-> was.seen, seen128 |-> was.seen128, direct |-> direct,
             avoidable |-> IF yes THEN direct ELSE 0, avoidable128 |-> IF yes THEN direct128 ELSE 0,
             granular |-> TailGranularity(s, r, direct128, x),
             rollback |-> Rollback(s, r, direct128, x, exhausted)]
    BY DEF Evidence
  <2> HIDE DEF e, was, direct, direct128, yes
  <2> QED BY <2>1
<1>5. direct \in Nat /\ direct128 \in Nat /\ direct <= Short(r)
  <2> HIDE DEF was
  <2> QED BY <1>1, <1>2, <1>3 DEF Less, Least, Short
<1> HIDE DEF e, was, direct, direct128
<1> QED BY <1>3, <1>4, <1>5 DEF e

(* What is known of a prefix that was sent with at most top tokens.        *)
Waterline(s, top) == s = Empty \/ (s \in PrefixStates /\ Strength(s) <= top)

LEMMA StrengthIs ==
  ASSUME NEW s, s.seen \in Nat, s.seen128 \in Nat, s.read \in Nat
  PROVE  /\ Strength(s) \in Nat
         /\ s.seen <= Strength(s) /\ s.seen128 <= Strength(s) /\ s.read <= Strength(s)
         /\ \A top \in Nat : s.seen <= top /\ s.seen128 <= top /\ s.read <= top => Strength(s) <= top
  BY DEF Strength, RawSeen, Most

LEMMA ShortIs ==
  ASSUME NEW r \in [input : Nat, read : Nat]
  PROVE  Short(r) \in Nat /\ Short128(r) \in Nat /\ Short(r) <= r.input
<1>1. r.input \in Nat /\ r.read \in Nat
  OBVIOUS
<1>2. Bucket(r.input) \in Nat /\ Bucket128(r.input) \in Nat /\ Bucket(r.input) <= r.input
  BY <1>1, BucketsAreSent
<1> QED BY <1>1, <1>2 DEF Short, Short128, Less

LEMMA PreservedIs ==
  ASSUME NEW top \in Nat, NEW s \in PrefixStates, Strength(s) <= top,
         NEW r \in [input : Nat, read : Nat], NEW x, TailOf(x)
  PROVE  Preserved(s, r, x) \in PrefixStates /\ Strength(Preserved(s, r, x)) <= top
<1> DEFINE more == IF HardBreak(s, r, x) THEN 2 ELSE 1
           yes == TRUE
           next == Preserved(s, r, x)
<1>1. next = [fresh |-> yes, input |-> s.input, read |-> s.read, short |-> Short(r),
              short128 |-> Short128(r), seen |-> s.seen, seen128 |-> s.seen128, avoidable |-> 0,
              avoidable128 |-> 0, streak |-> 0, small |-> 0, unstable |-> Least(8, s.unstable + more),
              output |-> x.output, largest |-> x.largest, noisy |-> x.noisy]
  BY DEF Preserved
<1>2. /\ s.input \in Nat /\ s.read \in Nat /\ s.seen \in Nat /\ s.seen128 \in Nat
      /\ Least(8, s.unstable + more) \in Nat /\ Short(r) \in Nat /\ Short128(r) \in Nat
      /\ x.output \in Nat /\ x.largest \in Nat /\ x.noisy \in BOOLEAN /\ yes \in BOOLEAN
  <2>1. s.unstable \in Nat /\ more \in Nat
    BY DEF PrefixStates
  <2>2. Least(8, s.unstable + more) \in Nat
    BY <2>1 DEF Least
  <2> QED BY <2>2, ShortIs DEF PrefixStates, TailOf
<1> DEFINE unstable == Least(8, s.unstable + more)
<1> HIDE DEF unstable, yes, next
<1>3. next \in PrefixStates
  BY <1>1, <1>2 DEF unstable, PrefixStates
<1>4. next.seen = s.seen /\ next.seen128 = s.seen128 /\ next.read = s.read
  BY <1>1
<1>5. Strength(next) = Strength(s)
  BY <1>4 DEF Strength, RawSeen
<1> QED BY <1>3, <1>5 DEF next

LEMMA LearnedIs ==
  ASSUME NEW top \in Nat, NEW s, Waterline(s, top),
         NEW r \in [input : Nat, read : Nat], r.input <= top, r.read <= top,
         NEW x, TailOf(x), NEW session, NEW exhausted
  PROVE  Waterline(Learned(s, r, x, session, exhausted), top)
<1> DEFINE e == Evidence(s, r, x, exhausted)
           Was(field) == IF s = Empty THEN 0 ELSE s[field]
           sent == ~e.rollback /\ ~e.granular /\ LearnsSent(s, r, x, session)
           mark == IF sent THEN Bucket(r.input) ELSE r.read
           mark128 == IF sent THEN Bucket128(r.input) ELSE r.read
           dropped == e.rollback \/ e.granular
           seen == IF dropped THEN Most(r.read, mark) ELSE Most(Most(e.seen, r.read), mark)
           seen128 == IF dropped THEN Most(r.read, mark128)
                      ELSE Most(Most(e.seen128, r.read), mark128)
           streak == IF e.avoidable > 0 \/ e.avoidable128 > 0 THEN Was("streak") + 1 ELSE 0
           small == IF Short128(r) \in 1 .. 2048 THEN Was("small") + 1
                    ELSE IF Was("small") > 0 /\ Short128(r) = 0 THEN 1 ELSE 0
           unstable == Instability(Was("unstable"), r, e)
           yes == TRUE
           next == Learned(s, r, x, session, exhausted)
<1>1. next = [fresh |-> yes, input |-> r.input, read |-> r.read,
              short |-> Short(r), short128 |-> Short128(r), seen |-> seen, seen128 |-> seen128,
              avoidable |-> e.avoidable, avoidable128 |-> e.avoidable128, streak |-> streak,
              small |-> small, unstable |-> unstable,
              output |-> x.output, largest |-> x.largest, noisy |-> x.noisy]
  BY DEF Learned
<1>2. r.input \in Nat /\ r.read \in Nat /\ Short(r) \in Nat /\ Short128(r) \in Nat
  BY ShortIs
<1>3. /\ Bucket(r.input) \in Nat /\ Bucket(r.input) <= r.input
      /\ Bucket128(r.input) \in Nat /\ Bucket128(r.input) <= r.input
  BY <1>2, BucketsAreSent
<1>4. /\ e.seen \in Nat /\ e.seen128 \in Nat /\ e.seen <= top /\ e.seen128 <= top
      /\ e.avoidable \in Nat /\ e.avoidable128 \in Nat
  <2>1. /\ e.seen \in Nat /\ e.seen128 \in Nat /\ e.direct \in Nat
        /\ e.avoidable \in {0, e.direct} /\ e.avoidable128 \in Nat
        /\ s # Empty => e.seen <= Most(r.read, Strength(s)) /\ e.seen128 <= Most(r.read, Strength(s))
        /\ s = Empty => e.seen = 0 /\ e.seen128 = 0
    BY EvidenceIs DEF Waterline
  <2>2. CASE s = Empty
    BY <2>1, <2>2
  <2>3. CASE s # Empty
    <3>1. Strength(s) \in Nat /\ Strength(s) <= top
      BY <2>3, StrengthIs DEF Waterline, PrefixStates
    <3> HIDE DEF e
    <3> QED BY <1>2, <2>1, <2>3, <3>1 DEF Most
  <2> QED BY <2>2, <2>3
<1>5. Was("streak") \in Nat /\ Was("small") \in Nat /\ Was("unstable") \in Nat
  BY DEF Waterline, PrefixStates
<1> HIDE DEF e, Was
<1>6. streak \in Nat /\ small \in Nat
  BY <1>5
<1>7. unstable \in Nat
  <2> DEFINE was == Was("unstable")
             large == Most(e.avoidable, e.avoidable128)
             n == Bucket(r.input)
             z == Short128(r)
             back == e.rollback
  <2>1. large \in Nat /\ was \in Nat /\ n \in Nat /\ r.read \in Nat /\ z \in Nat
    BY <1>2, <1>3, <1>4, <1>5 DEF Most
  <2>2. unstable = CASE r.read = 0 /\ n >= 32000 -> Least(8, was + 3)
          [] ~(r.read = 0 /\ n >= 32000) /\ (back \/ large \in 1 .. 4095) -> Least(8, was + 1)
          [] ~(r.read = 0 /\ n >= 32000) /\ ~back /\ large >= 4096 -> Least(8, was + 2)
          [] ~back /\ large = 0 /\ z <= 512 /\ r.read >= 1024 -> Less(was, 1)
          [] OTHER -> was
    BY DEF Instability
  <2> HIDE DEF was, large, n, unstable, z, back
  <2> QED BY <2>1, <2>2 DEF Least, Less
<1>8. seen \in Nat /\ seen <= top /\ seen128 \in Nat /\ seen128 <= top
  <2>1. mark \in Nat /\ mark <= top /\ mark128 \in Nat /\ mark128 <= top
    BY <1>2, <1>3
  <2> HIDE DEF mark, mark128
  <2> QED BY <1>2, <1>4, <2>1 DEF Most
<1>9. x.output \in Nat /\ x.largest \in Nat /\ x.noisy \in BOOLEAN /\ yes \in BOOLEAN
  BY DEF TailOf
<1> HIDE DEF seen, seen128, streak, small, unstable, yes, next
<1>10. next \in PrefixStates
  BY <1>1, <1>2, <1>4, <1>6, <1>7, <1>8, <1>9 DEF PrefixStates
<1>11. next.seen = seen /\ next.seen128 = seen128 /\ next.read = r.read
  BY <1>1
<1>12. Strength(next) <= top
  BY <1>2, <1>8, <1>11, StrengthIs
<1> QED BY <1>10, <1>12 DEF Waterline, next

LEMMA ObservationIs ==
  ASSUME NEW top \in Nat, NEW s, Waterline(s, top), NEW r, Usage(r, top), NEW x, TailOf(x),
         NEW session, NEW retried, NEW exhausted
  PROVE  Waterline(Observation(s, r, x, session, retried, exhausted), top)
<1>1. /\ r \in [input : Nat, read : Nat] /\ r.input <= top /\ r.read <= top
  BY DEF Usage
<1>2. Waterline(Learned(s, r, x, session, exhausted), top)
  BY <1>1, LearnedIs
<1>3. s # Empty => Waterline(Preserved(s, r, x), top)
  BY <1>1, PreservedIs DEF Waterline
<1>4. Observation(s, r, x, session, retried, exhausted)
        \in {Empty, Learned(s, r, x, session, exhausted)}
            \cup (IF s = Empty THEN {} ELSE {Preserved(s, r, x)})
  BY DEF Observation
<1>5. Waterline(Empty, top)
  BY DEF Waterline
<1> QED BY <1>2, <1>3, <1>4, <1>5

LEMMA StrongerIs ==
  ASSUME NEW a, NEW b
  PROVE  Stronger(a, b) \in {a, b}
  BY DEF Stronger

LEMMA GapsOf ==
  ASSUME NEW exact, NEW best, best # Empty => best \in PrefixStates, NEW family,
         NEW r \in [input : Nat, read : Nat], NEW x, NEW exhausted
  PROVE  LET g == Gap(exact, best, family, r, x, exhausted)
         IN  g.total = g.tail + g.avoidable + g.unstable
<1> DEFINE g == Gap(exact, best, family, r, x, exhausted)
           dynamic == Unreliable(x) \/ Burst(x) \/ x.output >= 80000 \/ x.message >= 80000
           cold == \/ Broken(exact, r)
                   \/ Broken(best, r) /\ dynamic
                   \/ exact = Empty /\ best = Empty
                      /\ ((Broken(family, r) /\ dynamic) \/ HugeHistory(r, x))
           e == Evidence(best, r, x, exhausted)
           few == r.input < 1024
           total == IF few THEN 0 ELSE Short(r)
           unstable == IF few THEN 0 ELSE IF cold THEN total ELSE IF e.rollback THEN e.direct ELSE 0
           avoidable == IF few \/ cold \/ unstable > 0 \/ e.granular THEN 0 ELSE e.avoidable
<1>1. g = [total |-> total, avoidable |-> avoidable, unstable |-> unstable,
           tail |-> Less(Less(total, avoidable), unstable)]
  BY DEF Gap
<1>2. e.direct \in Nat /\ e.direct <= Short(r) /\ e.avoidable \in {0, e.direct}
  BY EvidenceIs
<1>3. Short(r) \in Nat
  BY ShortIs
<1> HIDE DEF e, cold, few, g
<1>4. /\ total \in Nat /\ unstable \in Nat /\ avoidable \in Nat
      /\ unstable <= total /\ avoidable <= total /\ (unstable = 0 \/ avoidable = 0)
  BY <1>2, <1>3
<1> HIDE DEF total, unstable, avoidable
<1>5. g.total = total /\ g.avoidable = avoidable /\ g.unstable = unstable
      /\ g.tail = Less(Less(total, avoidable), unstable)
  BY <1>1
<1> QED BY <1>4, <1>5 DEF Less, g

-----------------------------------------------------------------------------
Slots == {Family} \cup {ExactOf(p) : p \in PrefixKeys} \cup {AliasOf(p) : p \in PrefixKeys}
Underway == {"queued", "locked", "ready", "sent", "answered", "collected"}

TurnOf(phase, a, elapsed, waited, exhausted, record, tail, effective) ==
  [phase |-> phase, ask |-> a, elapsed |-> elapsed, waited |-> waited, exhausted |-> exhausted,
   record |-> record, tail |-> tail, effective |-> effective]
IsPrefixTurn(z) ==
  z = TurnOf(z.phase, z.ask, z.elapsed, z.waited, z.exhausted, z.record, z.tail, z.effective)

(* A turn that has come so far, when a prefix p was sent with sizes[p].    *)
SoundTurnAt(z, sizes) ==
  /\ IsPrefixTurn(z)
  /\ z.elapsed \in Nat /\ z.waited \in Nat /\ z.waited <= z.elapsed
  /\ z.ask # Empty /\ z.ask.channel = "Responses" => z.waited <= WaitCap
  /\ z.phase \in Underway => z.ask \in PrefixAsks
  /\ z.phase \in {"answered", "collected"} =>
       Usage(z.record, sizes[z.ask.prefix]) /\ TailOf(z.tail)
  /\ z.phase = "collected" => Usage(z.effective, sizes[z.ask.prefix])

StatesInv ==
  /\ most \in [PrefixKeys -> Nat]
  /\ DOMAIN states = Slots
  /\ states[Family] # Empty => states[Family] \in PrefixStates
  /\ \A p \in PrefixKeys : /\ Waterline(states[ExactOf(p)], most[p])
                           /\ Waterline(states[AliasOf(p)], most[p])

PrefixInv ==
  /\ StatesInv
  /\ DOMAIN prefixTurn = PrefixTurns
  /\ \A t \in PrefixTurns : SoundTurnAt(prefixTurn[t], most)

LEMMA TurnsMove ==
  ASSUME SoundUsages, PrefixInv, NEW t \in PrefixTurns, NEW z, SoundTurnAt(z, most'),
         prefixTurn' = [prefixTurn EXCEPT ![t] = z],
         most' \in [PrefixKeys -> Nat], \A p \in PrefixKeys : most[p] <= most'[p]
  PROVE  DOMAIN prefixTurn' = PrefixTurns
         /\ \A u \in PrefixTurns : SoundTurnAt(prefixTurn'[u], most')
<1>1. DOMAIN prefixTurn' = PrefixTurns
      /\ \A u \in PrefixTurns : prefixTurn'[u] = IF u = t THEN z ELSE prefixTurn[u]
  BY DEF PrefixInv
<1>2. ASSUME NEW u \in PrefixTurns, u # t
      PROVE  SoundTurnAt(prefixTurn[u], most')
  <2> DEFINE y == prefixTurn[u]
  <2>1. SoundTurnAt(y, most)
    BY DEF PrefixInv
  <2>2. ASSUME y.phase \in {"answered", "collected"}, NEW r, Usage(r, most[y.ask.prefix])
        PROVE  Usage(r, most'[y.ask.prefix])
    <3>1. y.ask.prefix \in PrefixKeys
      BY <2>1, <2>2 DEF SoundTurnAt, Underway, SoundUsages
    <3>2. most[y.ask.prefix] \in Nat /\ most'[y.ask.prefix] \in Nat
          /\ most[y.ask.prefix] <= most'[y.ask.prefix]
      BY <3>1 DEF PrefixInv, StatesInv
    <3> QED BY <2>2, <3>2 DEF Usage
  <2> HIDE DEF y
  <2>3. SoundTurnAt(y, most')
    BY <2>1, <2>2 DEF SoundTurnAt
  <2> QED BY <2>3 DEF y
<1> QED BY <1>1, <1>2

(* A turn goes on, and nothing is learned.                                 *)
LEMMA TurnMoves ==
  ASSUME SoundUsages, PrefixInv, NEW t \in PrefixTurns, NEW z, SoundTurnAt(z, most),
         prefixTurn' = [prefixTurn EXCEPT ![t] = z], states' = states, most' = most
  PROVE  PrefixInv'
<1>1. StatesInv'
  BY DEF PrefixInv, StatesInv
<1>2. SoundTurnAt(z, most') /\ most' \in [PrefixKeys -> Nat]
      /\ \A p \in PrefixKeys : most[p] <= most'[p]
  BY DEF PrefixInv, StatesInv
<1>3. /\ DOMAIN prefixTurn' = PrefixTurns
      /\ \A u \in PrefixTurns : SoundTurnAt(prefixTurn'[u], most')
  BY <1>2, TurnsMove
<1> QED BY <1>1, <1>3 DEF PrefixInv


LEMMA DoneIsSound ==
  SoundTurnAt([NoTurnYet EXCEPT !.phase = "done"], most)
<1> DEFINE no == FALSE
           z == [NoTurnYet EXCEPT !.phase = "done"]
<1>1. z = TurnOf("done", Empty, 0, 0, no, Empty, Empty, Empty)
  <2>1. NoTurnYet = TurnOf("new", Empty, 0, 0, no, Empty, Empty, Empty)
    BY DEF NoTurnYet, TurnOf
  <2> HIDE DEF no
  <2> QED BY <2>1 DEF TurnOf
<1> HIDE DEF no, z
<1>2. z.phase = "done" /\ z.ask = Empty /\ z.elapsed = 0 /\ z.waited = 0 /\ IsPrefixTurn(z)
  BY <1>1 DEF IsPrefixTurn, TurnOf
<1>3. SoundTurnAt(z, most)
  BY <1>2 DEF SoundTurnAt, Underway
<1> QED BY <1>3 DEF z

LEMMA EnteringKeepsInv ==
  ASSUME SoundUsages, PrefixInv, NEW t \in PrefixTurns, NEW a \in PrefixAsks, NEW took \in Waits,
         Enter(t, a, took)
  PROVE  PrefixInv'
<1> DEFINE phase == IF a.guarded THEN "queued" ELSE "ready"
           no == FALSE
           z == TurnOf(phase, a, took, 0, no, Empty, Empty, Empty)
           z1 == [NoTurnYet EXCEPT !.phase = phase]
           z2 == [z1 EXCEPT !.ask = a]
<1>1. [z2 EXCEPT !.elapsed = took] = z
  <2>1. NoTurnYet = TurnOf("new", Empty, 0, 0, no, Empty, Empty, Empty)
    BY DEF NoTurnYet, TurnOf
  <2> HIDE DEF no
  <2>2. z1 = TurnOf(phase, Empty, 0, 0, no, Empty, Empty, Empty)
    BY <2>1 DEF TurnOf
  <2> HIDE DEF z1
  <2>3. z2 = TurnOf(phase, a, 0, 0, no, Empty, Empty, Empty)
    BY <2>2 DEF TurnOf
  <2> HIDE DEF z2
  <2> QED BY <2>3 DEF TurnOf
<1>2. prefixTurn' = [prefixTurn EXCEPT ![t] = z] /\ states' = states /\ most' = most
  <2>1. /\ prefixTurn' = [prefixTurn EXCEPT ![t] = [z2 EXCEPT !.elapsed = took]]
        /\ states' = states /\ most' = most
    BY DEF Enter, To
  <2> HIDE DEF z, z2
  <2> QED BY <1>1, <2>1
<1>3. SoundTurnAt(z, most)
  <2> HIDE DEF no, phase
  <2>1. /\ z.phase = phase /\ z.ask = a /\ z.elapsed = took /\ z.waited = 0
        /\ IsPrefixTurn(z)
    BY DEF IsPrefixTurn, TurnOf
  <2>2. phase \in {"queued", "ready"} /\ took \in Nat
    BY DEF SoundUsages, phase
  <2> HIDE DEF z
  <2> QED BY <2>1, <2>2 DEF SoundTurnAt, Underway, WaitCap
<1> HIDE DEF z
<1> QED BY <1>2, <1>3, TurnMoves

LEMMA LockingKeepsInv ==
  ASSUME SoundUsages, PrefixInv, NEW t \in PrefixTurns,
         (\E w \in Waits : Lock(t, w)) \/ LockTimesOut(t)
  PROVE  PrefixInv'
<1> DEFINE z == prefixTurn[t]
<1>1. SoundTurnAt(z, most)
  BY DEF PrefixInv
<1>2. \E phase \in {"locked", "ready"}, w \in Nat :
        /\ prefixTurn' = [prefixTurn EXCEPT
             ![t] = [[[z EXCEPT !.phase = phase] EXCEPT !.elapsed = z.elapsed + w] EXCEPT !.waited = w]]
        /\ states' = states /\ most' = most
        /\ z.phase = "queued" /\ (z.ask.channel = "Responses" => w <= WaitCap)
  <2>1. CASE LockTimesOut(t)
    <3> DEFINE z1 == [z EXCEPT !.phase = "ready"]
    <3>1. /\ prefixTurn' = [prefixTurn EXCEPT
               ![t] = [[z1 EXCEPT !.elapsed = z1.elapsed + WaitCap] EXCEPT !.waited = WaitCap]]
          /\ states' = states /\ most' = most /\ z.phase = "queued"
      BY <2>1 DEF LockTimesOut, To, At
    <3>2. z1.elapsed = z.elapsed
      BY <1>1 DEF SoundTurnAt, IsPrefixTurn, TurnOf
    <3>3. /\ prefixTurn' = [prefixTurn EXCEPT
               ![t] = [[[z EXCEPT !.phase = "ready"] EXCEPT !.elapsed = z.elapsed + WaitCap]
                         EXCEPT !.waited = WaitCap]]
      BY <3>1, <3>2
    <3> HIDE DEF z
    <3>4. WaitCap \in Nat /\ WaitCap <= WaitCap
      BY DEF WaitCap
    <3> QED BY <3>1, <3>3, <3>4
  <2>2. CASE \E w \in Waits : Lock(t, w)
    <3> PICK w \in Waits : Lock(t, w)
      BY <2>2
    <3> DEFINE z1 == [z EXCEPT !.phase = "locked"]
    <3>1. /\ prefixTurn' = [prefixTurn EXCEPT
               ![t] = [[z1 EXCEPT !.elapsed = z1.elapsed + w] EXCEPT !.waited = w]]
          /\ states' = states /\ most' = most /\ z.phase = "queued"
          /\ (z.ask.channel = "Responses" => w < WaitCap)
      BY DEF Lock, To, At
    <3>2. z1.elapsed = z.elapsed
      BY <1>1 DEF SoundTurnAt, IsPrefixTurn, TurnOf
    <3>3. /\ prefixTurn' = [prefixTurn EXCEPT
               ![t] = [[[z EXCEPT !.phase = "locked"] EXCEPT !.elapsed = z.elapsed + w]
                         EXCEPT !.waited = w]]
      BY <3>1, <3>2
    <3> HIDE DEF z
    <3>4. w \in Nat /\ (z.ask.channel = "Responses" => w <= WaitCap)
      BY <3>1 DEF WaitCap, SoundUsages
    <3> QED BY <3>1, <3>3, <3>4
  <2> QED BY <2>1, <2>2
<1>3. PICK phase \in {"locked", "ready"}, w \in Nat :
        /\ prefixTurn' = [prefixTurn EXCEPT
             ![t] = [[[z EXCEPT !.phase = phase] EXCEPT !.elapsed = z.elapsed + w] EXCEPT !.waited = w]]
        /\ states' = states /\ most' = most
        /\ z.phase = "queued" /\ (z.ask.channel = "Responses" => w <= WaitCap)
  BY <1>2
<1> DEFINE z1 == [z EXCEPT !.phase = phase]
           z2 == [z1 EXCEPT !.elapsed = z.elapsed + w]
           next == [z2 EXCEPT !.waited = w]
<1> HIDE DEF z
<1>4. next = TurnOf(phase, z.ask, z.elapsed + w, w, z.exhausted, z.record, z.tail, z.effective)
  <2>1. z1 = TurnOf(phase, z.ask, z.elapsed, z.waited, z.exhausted, z.record, z.tail, z.effective)
    BY <1>1 DEF SoundTurnAt, IsPrefixTurn, TurnOf
  <2> HIDE DEF z1
  <2>2. z2 = TurnOf(phase, z.ask, z.elapsed + w, z.waited, z.exhausted, z.record, z.tail, z.effective)
    BY <2>1 DEF TurnOf
  <2> HIDE DEF z2
  <2> QED BY <2>2 DEF TurnOf
<1>5. prefixTurn' = [prefixTurn EXCEPT ![t] = next]
  BY <1>3
<1> HIDE DEF next
<1>6. SoundTurnAt(next, most)
  BY <1>1, <1>3, <1>4 DEF SoundTurnAt, IsPrefixTurn, Underway, WaitCap, TurnOf
<1> QED BY <1>3, <1>5, <1>6, TurnMoves

LEMMA StateForIs ==
  ASSUME PrefixInv, NEW p \in PrefixKeys
  PROVE  Waterline(StateFor(p), most[p])
<1>1. StateFor(p) \in {states[ExactOf(p)], states[AliasOf(p)]}
  BY StrongerIs DEF StateFor
<1> QED BY <1>1 DEF PrefixInv, StatesInv

LEMMA WaitIs ==
  ASSUME SoundUsages, PrefixInv, NEW a \in PrefixAsks, NEW age \in Ages, NEW elapsed \in Nat
  PROVE  LET w == SettleWait(a, age, elapsed).wait
         IN  w \in Nat /\ (a.channel = "Responses" => w <= Budget(elapsed))
<1> DEFINE family == IF a.channel = "Responses" THEN states[Family] ELSE Empty
           s == Stronger(StateFor(a.prefix), family)
           own == StateFor(a.prefix) # Empty /\ s = StateFor(a.prefix)
           n == Most(s.avoidable128, s.avoidable)
           b == Budget(elapsed)
           before == BeforeRequest(own, n, age, b)
           result == SettleWait(a, age, elapsed)
<1>1. result = IF s = Empty THEN [wait |-> 0, exhausted |-> FALSE]
               ELSE IF a.channel = "Responses" THEN before
               ELSE [wait |-> Less(ChatSettleDelay(s), age), exhausted |-> FALSE]
  BY DEF SettleWait
<1>2. b \in Nat /\ age \in Nat
  BY DEF Budget, Less, WaitCap, SoundUsages
<1>3. s # Empty => s \in PrefixStates
  <2>1. s \in {StateFor(a.prefix), family}
    BY StrongerIs
  <2>2. a.prefix \in PrefixKeys
    BY DEF SoundUsages
  <2>3. Waterline(StateFor(a.prefix), most[a.prefix])
    BY <2>2, StateForIs
  <2> QED BY <2>1, <2>3 DEF Waterline, PrefixInv, StatesInv
<1>4. s # Empty => /\ before.wait \in Nat /\ before.wait <= b
                   /\ Less(ChatSettleDelay(s), age) \in Nat
  <2> SUFFICES ASSUME s # Empty
               PROVE  /\ before.wait \in Nat /\ before.wait <= b
                      /\ Less(ChatSettleDelay(s), age) \in Nat
    OBVIOUS
  <2>1. s \in PrefixStates
    BY <1>3
  <2> HIDE DEF s, own, b
  <2>2. ChatSettleDelay(s) \in Nat
    BY <2>1, DelaysAreNatural
  <2>3. Less(ChatSettleDelay(s), age) \in Nat
    BY <1>2, <2>2 DEF Less
  <2>4. n \in Nat
    BY <2>1 DEF PrefixStates, Most
  <2> HIDE DEF n
  <2>5. RequestedWait(n) \in Nat
    BY <2>4 DEF RequestedWait, Least
  <2>6. before.wait \in Nat /\ before.wait <= b
    BY <1>2, <2>4, <2>5 DEF BeforeRequest, Least, WaitCap
  <2> QED BY <2>3, <2>6
<1> HIDE DEF s, before, b, result
<1> QED BY <1>1, <1>2, <1>4 DEF result, b

LEMMA WaitingToSettleKeepsInv ==
  ASSUME SoundUsages, PrefixInv, NEW t \in PrefixTurns, NEW age \in Ages, WaitToSettle(t, age)
  PROVE  PrefixInv'
<1> DEFINE z == prefixTurn[t]
           w == SettleWait(z.ask, age, z.elapsed)
           z1 == [z EXCEPT !.phase = "ready"]
           z2 == [z1 EXCEPT !.elapsed = z.elapsed + w.wait]
           z3 == [z2 EXCEPT !.waited = z.waited + w.wait]
           next == [z3 EXCEPT !.exhausted = w.exhausted]
<1>1. SoundTurnAt(z, most) /\ z.phase = "locked"
  BY DEF PrefixInv, WaitToSettle, At
<1>2. w.wait \in Nat /\ (z.ask.channel = "Responses" => w.wait <= Budget(z.elapsed))
  BY <1>1, WaitIs DEF SoundTurnAt, Underway
<1>3. next = TurnOf("ready", z.ask, z.elapsed + w.wait, z.waited + w.wait, w.exhausted,
                    z.record, z.tail, z.effective)
      /\ prefixTurn' = [prefixTurn EXCEPT ![t] = next]
  <2>0. prefixTurn' = [prefixTurn EXCEPT ![t] =
          [z EXCEPT !.phase = "ready", !.elapsed = @ + w.wait, !.waited = @ + w.wait,
                    !.exhausted = w.exhausted]]
    BY DEF WaitToSettle, To
  <2> HIDE DEF z, w
  <2>1. z1 = TurnOf("ready", z.ask, z.elapsed, z.waited, z.exhausted, z.record, z.tail, z.effective)
    BY <1>1 DEF SoundTurnAt, IsPrefixTurn, TurnOf
  <2>2. z1.elapsed = z.elapsed
    BY <2>1 DEF TurnOf
  <2>3. prefixTurn' = [prefixTurn EXCEPT ![t] =
          [z2 EXCEPT !.waited = @ + w.wait, !.exhausted = w.exhausted]]
    BY <2>0, <2>2
  <2> HIDE DEF z1
  <2>4. z2 = TurnOf("ready", z.ask, z.elapsed + w.wait, z.waited, z.exhausted, z.record, z.tail, z.effective)
    BY <2>1 DEF TurnOf
  <2>5. z2.waited = z.waited
    BY <2>4 DEF TurnOf
  <2>6. prefixTurn' = [prefixTurn EXCEPT ![t] = next]
    BY <2>3, <2>5
  <2> HIDE DEF z2
  <2>7. z3 = TurnOf("ready", z.ask, z.elapsed + w.wait, z.waited + w.wait, z.exhausted, z.record, z.tail, z.effective)
    BY <2>4 DEF TurnOf
  <2> HIDE DEF z3
  <2>8. next = TurnOf("ready", z.ask, z.elapsed + w.wait, z.waited + w.wait, w.exhausted,
                      z.record, z.tail, z.effective)
    BY <2>7 DEF TurnOf
  <2> QED BY <2>6, <2>8
<1>4. states' = states /\ most' = most
  BY DEF WaitToSettle
<1> HIDE DEF z, w, next
<1>5. SoundTurnAt(next, most)
  <2> DEFINE more == w.wait
  <2>1. more \in Nat /\ z.elapsed \in Nat /\ z.waited \in Nat /\ z.waited <= z.elapsed
    BY <1>1, <1>2 DEF SoundTurnAt
  <2>2. z.ask # Empty /\ z.ask.channel = "Responses" => z.waited + more <= WaitCap
    BY <1>1, <1>2, <2>1 DEF SoundTurnAt, Budget, Less, WaitCap
  <2> HIDE DEF more
  <2>3. next = TurnOf("ready", z.ask, z.elapsed + more, z.waited + more, w.exhausted,
                      z.record, z.tail, z.effective)
    BY <1>3 DEF more
  <2> QED BY <1>1, <2>1, <2>2, <2>3 DEF SoundTurnAt, IsPrefixTurn, Underway, TurnOf
<1> QED BY <1>3, <1>4, <1>5, TurnMoves

LEMMA SendingKeepsInv ==
  ASSUME SoundUsages, PrefixInv, NEW t \in PrefixTurns, LockTalk(t) \/ Fails(t)
  PROVE  PrefixInv'
<1>1. SoundTurnAt(prefixTurn[t], most) /\ states' = states /\ most' = most
  BY DEF PrefixInv, LockTalk, Fails
<1>2. CASE LockTalk(t)
  <2> DEFINE z == prefixTurn[t]
             z1 == [z EXCEPT !.phase = "sent"]
             z2 == [z1 EXCEPT !.elapsed = 0]
             next == [z2 EXCEPT !.waited = 0]
  <2>1. z.phase = "ready" /\ prefixTurn' = [prefixTurn EXCEPT ![t] = next]
    BY <1>2 DEF LockTalk, At, To
  <2>2. next = TurnOf("sent", z.ask, 0, 0, z.exhausted, z.record, z.tail, z.effective)
    <3> HIDE DEF z
    <3>1. z1 = TurnOf("sent", z.ask, z.elapsed, z.waited, z.exhausted, z.record, z.tail, z.effective)
      BY <1>1 DEF SoundTurnAt, IsPrefixTurn, TurnOf, z
    <3> HIDE DEF z1
    <3>2. z2 = TurnOf("sent", z.ask, 0, z.waited, z.exhausted, z.record, z.tail, z.effective)
      BY <3>1 DEF TurnOf
    <3> HIDE DEF z2
    <3> QED BY <3>2 DEF TurnOf
  <2> HIDE DEF next
  <2>3. SoundTurnAt(next, most)
    BY <1>1, <2>1, <2>2 DEF SoundTurnAt, IsPrefixTurn, Underway, TurnOf, WaitCap
  <2> QED BY <1>1, <2>1, <2>3, TurnMoves
<1>3. CASE Fails(t)
  <2> DEFINE next == [NoTurnYet EXCEPT !.phase = "done"]
  <2>1. prefixTurn' = [prefixTurn EXCEPT ![t] = next]
    BY <1>3 DEF Fails, To
  <2>2. SoundTurnAt(next, most)
    BY DoneIsSound
  <2> HIDE DEF next
  <2> QED BY <1>1, <2>1, <2>2, TurnMoves
<1> QED BY <1>2, <1>3

LEMMA ReportingKeepsInv ==
  ASSUME SoundUsages, PrefixInv, NEW t \in PrefixTurns, NEW r \in Records, NEW x \in Tails,
         UsageArrives(t, r, x)
  PROVE  PrefixInv'
<1> DEFINE z == prefixTurn[t]
           p == z.ask.prefix
           tail == IF z.ask.channel = "Responses" THEN x ELSE NoTail
           z1 == [z EXCEPT !.phase = "answered"]
           z2 == [z1 EXCEPT !.record = r]
           next == [z2 EXCEPT !.tail = tail]
<1>1. SoundTurnAt(z, most) /\ z.phase = "sent" /\ states' = states
      /\ most' = [most EXCEPT ![p] = Most(@, Most(r.input, r.read))]
      /\ prefixTurn' = [prefixTurn EXCEPT ![t] = next]
  BY DEF PrefixInv, UsageArrives, At, To
<1>2. z.ask \in PrefixAsks /\ p \in PrefixKeys
  BY <1>1 DEF SoundTurnAt, Underway, SoundUsages
<1>3. r \in [input : Nat, read : Nat] /\ r.input \in Nat /\ r.read \in Nat
  BY DEF SoundUsages
<1>4. most \in [PrefixKeys -> Nat]
  BY DEF PrefixInv, StatesInv
<1>5. /\ most' \in [PrefixKeys -> Nat] /\ \A q \in PrefixKeys : most[q] <= most'[q]
      /\ r.input <= most'[p] /\ r.read <= most'[p]
  <2> HIDE DEF p
  <2> DEFINE m == Most(most[p], Most(r.input, r.read))
  <2>1. m \in Nat /\ most[p] <= m /\ r.input <= m /\ r.read <= m
    BY <1>2, <1>3, <1>4 DEF Most
  <2> QED BY <1>1, <1>2, <1>4, <2>1
<1>6. TailOf(tail)
  BY DEF TailOf, NoTail, SoundUsages
<1>7. next = TurnOf("answered", z.ask, z.elapsed, z.waited, z.exhausted, r, tail, z.effective)
  <2> HIDE DEF z, tail
  <2>1. z1 = TurnOf("answered", z.ask, z.elapsed, z.waited, z.exhausted, z.record, z.tail, z.effective)
    BY <1>1 DEF SoundTurnAt, IsPrefixTurn, TurnOf
  <2> HIDE DEF z1
  <2>2. z2 = TurnOf("answered", z.ask, z.elapsed, z.waited, z.exhausted, r, z.tail, z.effective)
    BY <2>1 DEF TurnOf
  <2> HIDE DEF z2
  <2> QED BY <2>2 DEF TurnOf
<1> HIDE DEF next, tail
<1>8. SoundTurnAt(next, most')
  <2>1. next.phase = "answered" /\ next.ask = z.ask /\ next.record = r /\ next.tail = tail
        /\ next.elapsed = z.elapsed /\ next.waited = z.waited /\ IsPrefixTurn(next)
    BY <1>7 DEF TurnOf, IsPrefixTurn
  <2>2. Usage(next.record, most'[next.ask.prefix])
    BY <1>3, <1>5, <2>1 DEF Usage
  <2> HIDE DEF z, p
  <2> QED BY <1>1, <1>2, <1>6, <2>1, <2>2 DEF SoundTurnAt
<1>9. StatesInv'
  <2>1. ASSUME NEW q \in PrefixKeys, NEW s, Waterline(s, most[q])
        PROVE  Waterline(s, most'[q])
    <3>1. most[q] \in Nat /\ most'[q] \in Nat /\ most[q] <= most'[q]
      BY <1>4, <1>5
    <3>2. s # Empty => Strength(s) \in Nat
      BY <2>1, StrengthIs DEF Waterline, PrefixStates
    <3> QED BY <2>1, <3>1, <3>2 DEF Waterline
  <2> QED BY <1>1, <1>5, <2>1 DEF PrefixInv, StatesInv
<1>10. /\ DOMAIN prefixTurn' = PrefixTurns
       /\ \A u \in PrefixTurns : SoundTurnAt(prefixTurn'[u], most')
  <2> HIDE DEF z, p
  <2> QED BY <1>1, <1>5, <1>8, TurnsMove
<1> QED BY <1>9, <1>10 DEF PrefixInv

LEMMA CollectingKeepsInv ==
  ASSUME SoundUsages, PrefixInv, NEW t \in PrefixTurns, Collect(t)
  PROVE  PrefixInv'
<1> DEFINE z == prefixTurn[t]
           top == most[z.ask.prefix]
           r == z.record
           raised == [r EXCEPT !.read = Most(r.read, Bucket(r.input))]
           z1 == [z EXCEPT !.phase = "collected"]
<1>1. SoundTurnAt(z, most) /\ z.phase = "answered" /\ states' = states /\ most' = most
  BY DEF PrefixInv, Collect, At
<1>2. PICK e \in {raised, r} : prefixTurn' = [prefixTurn EXCEPT ![t] = [z1 EXCEPT !.effective = e]]
  BY DEF Collect, To
<1>3. Usage(r, top)
  BY <1>1 DEF SoundTurnAt
<1>4. Usage(raised, top)
  <2>1. r.input \in Nat /\ r.read \in Nat /\ r.input <= top /\ r.read <= top
    BY <1>3 DEF Usage
  <2>2. Bucket(r.input) \in Nat /\ Bucket(r.input) <= r.input
    BY <2>1, BucketsAreSent
  <2>3. Most(r.read, Bucket(r.input)) \in Nat /\ Most(r.read, Bucket(r.input)) <= top
    <3>1. top \in Nat
      BY <1>1 DEF SoundTurnAt, Underway, SoundUsages, PrefixInv, StatesInv
    <3> HIDE DEF top
    <3> QED BY <2>1, <2>2, <3>1 DEF Most
  <2> DEFINE m == Most(r.read, Bucket(r.input))
  <2> HIDE DEF m, r, top
  <2>4. [r EXCEPT !.read = m] \in [input : Nat, read : Nat]
        /\ [r EXCEPT !.read = m].read = m /\ [r EXCEPT !.read = m].input = r.input
    BY <1>3, <2>3 DEF Usage, m
  <2> QED BY <1>3, <2>3, <2>4 DEF Usage, m
<1> DEFINE next == [z1 EXCEPT !.effective = e]
<1> HIDE DEF z, r, raised
<1>5. next = TurnOf("collected", z.ask, z.elapsed, z.waited, z.exhausted, z.record, z.tail, e)
  <2>1. z1 = TurnOf("collected", z.ask, z.elapsed, z.waited, z.exhausted, z.record, z.tail, z.effective)
    BY <1>1 DEF SoundTurnAt, IsPrefixTurn, TurnOf
  <2> HIDE DEF z1
  <2> QED BY <2>1 DEF TurnOf
<1>6. prefixTurn' = [prefixTurn EXCEPT ![t] = next]
  BY <1>2
<1> HIDE DEF next
<1>7. SoundTurnAt(next, most)
  <2>1. next.phase = "collected" /\ next.ask = z.ask /\ next.record = r /\ next.tail = z.tail
        /\ next.elapsed = z.elapsed /\ next.waited = z.waited /\ next.effective = e /\ IsPrefixTurn(next)
    BY <1>5 DEF TurnOf, IsPrefixTurn, r
  <2>2. Usage(next.effective, most[next.ask.prefix]) /\ Usage(next.record, most[next.ask.prefix])
    BY <1>2, <1>3, <1>4, <2>1
  <2> QED BY <1>1, <2>1, <2>2 DEF SoundTurnAt, Underway
<1> QED BY <1>1, <1>6, <1>7, TurnMoves

LEMMA ObservingKeepsInv ==
  ASSUME SoundUsages, PrefixInv, NEW t \in PrefixTurns, Observe(t)
  PROVE  PrefixInv'
<1> DEFINE z == prefixTurn[t]
           p == z.ask.prefix
           session == z.ask.sent = "delta"
           retried == z.ask.sent = "again"
           next == IF z.ask.learns
                   THEN Observation(StateFor(p), z.effective, z.tail, session, retried, z.exhausted)
                   ELSE Empty
           family == z.ask.channel = "Responses"
                     /\ FamilyLearns(StateFor(p), z.effective, z.tail, session, retried, z.exhausted)
           keys == {ExactOf(p), AliasOf(p)} \cup IF family THEN {Family} ELSE {}
           done == [NoTurnYet EXCEPT !.phase = "done"]
<1>1. SoundTurnAt(z, most) /\ z.phase = "collected" /\ most' = most
      /\ prefixTurn' = [prefixTurn EXCEPT ![t] = done]
      /\ states' = IF next = Empty THEN states
                   ELSE [k \in DOMAIN states |-> IF k \in keys THEN next ELSE states[k]]
  BY DEF PrefixInv, Observe, At, To
<1>2. p \in PrefixKeys /\ Usage(z.effective, most[p]) /\ TailOf(z.tail)
  BY <1>1 DEF SoundTurnAt, Underway, SoundUsages
<1>3. most \in [PrefixKeys -> Nat] /\ most[p] \in Nat /\ DOMAIN states = Slots
  BY <1>2 DEF PrefixInv, StatesInv
<1>4. Waterline(next, most[p])
  <2>1. Waterline(StateFor(p), most[p])
    BY <1>2, StateForIs
  <2>2. Waterline(Observation(StateFor(p), z.effective, z.tail, session, retried, z.exhausted), most[p])
    BY <1>2, <1>3, <2>1, ObservationIs
  <2>3. Waterline(Empty, most[p])
    BY DEF Waterline
  <2> HIDE DEF z, p
  <2> QED BY <2>2, <2>3
<1> HIDE DEF next, family, z, p
<1>5. ASSUME NEW q \in PrefixKeys, NEW k \in {ExactOf(q), AliasOf(q)}
      PROVE  Waterline(states'[k], most[q])
  <2>1. k \in Slots /\ Waterline(states[k], most[q])
    BY <1>5 DEF Slots, PrefixInv, StatesInv
  <2>2. k \in keys => q = p
    <3>1. k \in keys => k \in {ExactOf(p), AliasOf(p), Family}
      OBVIOUS
    <3> QED BY <3>1 DEF ExactOf, AliasOf, Family
  <2>3. states'[k] \in {next, states[k]} /\ (states'[k] # states[k] => k \in keys)
    BY <1>1, <1>3, <2>1
  <2> QED BY <1>4, <2>1, <2>2, <2>3
<1>6. states'[Family] # Empty => states'[Family] \in PrefixStates
  <2>1. Family \in Slots /\ (states[Family] # Empty => states[Family] \in PrefixStates)
    BY DEF Slots, PrefixInv, StatesInv
  <2>2. states'[Family] \in {next, states[Family]}
    BY <1>1, <1>3, <2>1
  <2> QED BY <1>4, <2>1, <2>2 DEF Waterline
<1>7. StatesInv'
  <2>1. DOMAIN states' = Slots
    BY <1>1, <1>3
  <2> QED BY <1>1, <1>3, <1>5, <1>6, <2>1 DEF StatesInv
<1>8. SoundTurnAt(done, most)
  BY DoneIsSound
<1> HIDE DEF done
<1>9. /\ DOMAIN prefixTurn' = PrefixTurns
      /\ \A u \in PrefixTurns : SoundTurnAt(prefixTurn'[u], most')
  <2>1. most' \in [PrefixKeys -> Nat] /\ (\A q \in PrefixKeys : most[q] <= most'[q])
        /\ SoundTurnAt(done, most')
    BY <1>1, <1>3, <1>8
  <2> QED BY <1>1, <2>1, TurnsMove
<1> QED BY <1>7, <1>9 DEF PrefixInv

LEMMA AgingStatesKeepsInv ==
  ASSUME PrefixInv, GrowOld PROVE PrefixInv'
<1>1. most' = most /\ prefixTurn' = prefixTurn /\ DOMAIN states' = DOMAIN states
      /\ \A k \in DOMAIN states :
           states'[k] = IF states[k] = Empty THEN Empty ELSE [states[k] EXCEPT !.fresh = FALSE]
  BY DEF GrowOld
<1>2. ASSUME NEW s \in PrefixStates
      PROVE  [s EXCEPT !.fresh = FALSE] \in PrefixStates
             /\ Strength([s EXCEPT !.fresh = FALSE]) = Strength(s)
  <2> DEFINE no == FALSE
             old == [s EXCEPT !.fresh = no]
  <2>0. no \in BOOLEAN
    OBVIOUS
  <2> HIDE DEF no
  <2>1. old \in PrefixStates /\ old.seen = s.seen /\ old.seen128 = s.seen128 /\ old.read = s.read
    BY <1>2, <2>0 DEF PrefixStates
  <2>2. Strength(old) = Strength(s)
    BY <2>1 DEF Strength, RawSeen
  <2> QED BY <2>1, <2>2 DEF no
<1>3. ASSUME NEW k \in DOMAIN states, NEW top, Waterline(states[k], top)
      PROVE  Waterline(states'[k], top)
  BY <1>1, <1>2, <1>3 DEF Waterline
<1>4. StatesInv'
  <2>1. Family \in Slots /\ \A p \in PrefixKeys : ExactOf(p) \in Slots /\ AliasOf(p) \in Slots
    BY DEF Slots
  <2>2. states'[Family] # Empty => states'[Family] \in PrefixStates
    BY <1>1, <1>2, <2>1 DEF PrefixInv, StatesInv
  <2>3. ASSUME NEW p \in PrefixKeys
        PROVE  Waterline(states'[ExactOf(p)], most[p]) /\ Waterline(states'[AliasOf(p)], most[p])
    BY <1>3, <2>1 DEF PrefixInv, StatesInv
  <2> QED BY <1>1, <2>2, <2>3 DEF PrefixInv, StatesInv
<1> QED BY <1>1, <1>4 DEF PrefixInv

-----------------------------------------------------------------------------
(* The inductive invariant. *)
THEOREM WaterlinesAreKept == SoundUsages => (PrefixSpec => []PrefixInv)
<1> SUFFICES ASSUME SoundUsages PROVE PrefixSpec => []PrefixInv
  OBVIOUS
<1>1. PrefixInit => PrefixInv
  <2> SUFFICES ASSUME PrefixInit PROVE PrefixInv
    OBVIOUS
  <2>1. PICK z \in Restored :
          /\ states = [k \in Slots |-> IF k = Family THEN Empty ELSE z[k[2]].warm]
          /\ most = [p \in PrefixKeys |-> z[p].most]
    BY DEF PrefixInit, Slots
  <2>2. \A p \in PrefixKeys : z[p].most \in Nat /\ Waterline(z[p].warm, z[p].most)
    BY <2>1 DEF SoundUsages, Waterline
  <2>3. Family \in Slots /\ states[Family] = Empty
    BY <2>1 DEF Slots
  <2>4. ASSUME NEW p \in PrefixKeys
        PROVE  states[ExactOf(p)] = z[p].warm /\ states[AliasOf(p)] = z[p].warm
    <3>1. ExactOf(p) \in Slots /\ AliasOf(p) \in Slots
      BY DEF Slots
    <3>2. ExactOf(p)[2] = p /\ AliasOf(p)[2] = p /\ ExactOf(p) # Family /\ AliasOf(p) # Family
      BY DEF ExactOf, AliasOf, Family
    <3> QED BY <2>1, <3>1, <3>2
  <2>5. StatesInv
    BY <2>1, <2>2, <2>3, <2>4 DEF StatesInv
  <2>6. SoundTurnAt(NoTurnYet, most)
    BY DEF NoTurnYet, SoundTurnAt, IsPrefixTurn, TurnOf, Underway, WaitCap
  <2>7. prefixTurn = [t \in PrefixTurns |-> NoTurnYet]
    BY DEF PrefixInit
  <2> QED BY <2>5, <2>6, <2>7 DEF PrefixInv
<1>2. PrefixInv /\ [PrefixNext]_prefixVars => PrefixInv'
  <2> SUFFICES ASSUME PrefixInv, [PrefixNext]_prefixVars PROVE PrefixInv'
    OBVIOUS
  <2>1. CASE UNCHANGED prefixVars
    BY <2>1 DEF prefixVars, PrefixInv, StatesInv
  <2>2. CASE GrowOld
    BY <2>2, AgingStatesKeepsInv
  <2>3. ASSUME NEW t \in PrefixTurns,
               \/ \E a \in PrefixAsks, took \in Waits : Enter(t, a, took)
               \/ \E w \in Waits : Lock(t, w)
               \/ LockTimesOut(t)
               \/ \E age \in Ages : WaitToSettle(t, age)
               \/ LockTalk(t)
               \/ \E r \in Records, x \in Tails : UsageArrives(t, r, x)
               \/ Fails(t)
               \/ Collect(t)
               \/ Observe(t)
        PROVE  PrefixInv'
    BY <2>3, EnteringKeepsInv, LockingKeepsInv, WaitingToSettleKeepsInv, SendingKeepsInv,
       ReportingKeepsInv, CollectingKeepsInv, ObservingKeepsInv
  <2> QED BY <2>1, <2>2, <2>3 DEF PrefixNext
<1> QED BY <1>1, <1>2, PTL DEF PrefixSpec

(* WaterlineWasSent, GapsAddUp and ForegroundWaitIsBounded. *)
THEOREM EvidenceIsSound == SoundUsages => (PrefixSpec => []PrefixEvidenceIsSound)
<1> SUFFICES ASSUME SoundUsages PROVE PrefixSpec => []PrefixEvidenceIsSound
  OBVIOUS
<1>1. PrefixInv => PrefixEvidenceIsSound
  <2> SUFFICES ASSUME PrefixInv PROVE PrefixEvidenceIsSound
    OBVIOUS
  <2>1. WaterlineWasSent
    BY DEF WaterlineWasSent, PrefixInv, StatesInv, Waterline
  <2>2. ForegroundWaitIsBounded
    BY DEF ForegroundWaitIsBounded, PrefixInv, SoundTurnAt
  <2>3. GapsAddUp
    <3> SUFFICES ASSUME NEW t \in PrefixTurns, prefixTurn[t].phase = "collected"
                 PROVE  LET z == prefixTurn[t]
                            g == Gap(states[ExactOf(z.ask.prefix)], StateFor(z.ask.prefix),
                                     IF z.ask.channel = "Responses" THEN states[Family] ELSE Empty,
                                     z.record, z.tail, z.exhausted)
                        IN  g.total = g.tail + g.avoidable + g.unstable
      BY DEF GapsAddUp
    <3> DEFINE z == prefixTurn[t]
    <3>1. z.record \in [input : Nat, read : Nat] /\ z.ask.prefix \in PrefixKeys
      BY DEF PrefixInv, SoundTurnAt, Usage, Underway, SoundUsages
    <3>2. StateFor(z.ask.prefix) # Empty => StateFor(z.ask.prefix) \in PrefixStates
      BY <3>1, StateForIs DEF Waterline
    <3> QED BY <3>1, <3>2, GapsOf
  <2> QED BY <2>1, <2>2, <2>3 DEF PrefixEvidenceIsSound
<1> QED BY <1>1, WaterlinesAreKept, PTL

-----------------------------------------------------------------------------
(* Compactions.  The argument is about what lies behind a rung: the calls  *)
(* made so far, three attempts each, and the requests that were refused,   *)
(* none of which has both the wire and the key of the next one.            *)

(* The state and the values it takes.                                      *)
CompactTypes ==
  /\ ask \in CompactAsks
  /\ pc \in {"new", "encode", "sending", "judge", "done"}
  /\ rung \in 0 .. 3
  /\ key \in 0 .. 2
  /\ call \in [packed : BOOLEAN, attempt : 0 .. 2]
  /\ sends \in Nat
  /\ pc # "new" => wire \in Wires
  /\ refused \subseteq Wires \X (0 .. 2) \X BOOLEAN

(* A rung is one call of at most three attempts.                           *)
CallsSoFar ==
  /\ pc = "new" => sends = 0 /\ rung = 0 /\ refused = {}
  /\ pc = "encode" => sends <= 3 * rung
  /\ pc = "sending" => sends <= 3 * rung + call.attempt + 1
  /\ pc \in {"judge", "done"} => sends <= 3 * rung + 3

(* The key changes once, before anything else does; the official endpoint  *)
(* is asked before Chat, and Chat before the provider's own protocol.      *)
BehindTheRung ==
  /\ rung = 0 => key \in {0, 1} /\ \A r \in refused : r[2] = key
  /\ wire = "compact" => \A r \in refused : r[1] = "compact"
  /\ wire = "chat" => \A r \in refused : r[1] \in {"compact", "chat"}

(* The call at hand has not been refused: no call for it is open yet, or   *)
(* it was refused when it was compressed.                                  *)
NotYetRefused ==
  ask.upstream # "chat" =>
    /\ pc = "encode" => \A p \in BOOLEAN : <<wire, key, p>> \notin refused
    /\ pc = "sending" =>
         /\ <<wire, key, call.packed>> \notin refused
         /\ <<wire, key, FALSE>> \notin refused

CompactInv == CompactTypes /\ CallsSoFar /\ (ask.upstream # "chat" => BehindTheRung) /\ NotYetRefused

-----------------------------------------------------------------------------
LEMMA BeginKeepsInv ==
  ASSUME CompactInv, Begin PROVE CompactInv'
<1> USE DEF CompactInv
<1>1. CompactTypes'
  BY DEF CompactTypes, Begin, sharedVars, CompactAsks, Channels, Wires
<1>2. CallsSoFar'
  BY DEF CompactTypes, CallsSoFar, Begin
<1>3. BehindTheRung' /\ NotYetRefused'
  BY DEF CompactTypes, CallsSoFar, BehindTheRung, NotYetRefused, Begin
<1> QED BY <1>1, <1>2, <1>3

LEMMA EncodeKeepsInv ==
  ASSUME CompactInv, Encode PROVE CompactInv'
<1> USE DEF CompactInv
<1>1. call'.packed \in BOOLEAN /\ call'.attempt = 0 /\ call' \in [packed : BOOLEAN, attempt : 0 .. 2]
  BY DEF CompactTypes, Encode, CompactAsks
<1>2. CompactTypes'
  BY <1>1 DEF CompactTypes, Encode
<1>3. CallsSoFar'
  BY <1>1 DEF CompactTypes, CallsSoFar, Encode
<1>4. (ask.upstream # "chat" => BehindTheRung)'
  BY DEF BehindTheRung, Encode
<1>5. NotYetRefused'
  BY <1>1 DEF NotYetRefused, Encode
<1> QED BY <1>2, <1>3, <1>4, <1>5

LEMMA UnpackKeepsInv ==
  ASSUME CompactInv, NEW s \in Statuses, AnswerUnpack(s) PROVE CompactInv'
<1> USE DEF CompactInv
<1>1. /\ call.packed = TRUE /\ call.attempt \in 0 .. 1
      /\ call'.packed = FALSE /\ call'.attempt = call.attempt + 1
      /\ call' \in [packed : BOOLEAN, attempt : 0 .. 2]
  BY DEF CompactTypes, AnswerUnpack, Again, MaxAttempts
<1>2. refused' = refused \/ refused' = refused \cup {<<wire, key, call.packed>>}
  BY DEF AnswerUnpack, RememberRefused, Request
<1>3. CompactTypes'
  <2>1. <<wire, key, call.packed>> \in Wires \X (0 .. 2) \X BOOLEAN
    BY DEF CompactTypes, AnswerUnpack
  <2>2. refused' \subseteq Wires \X (0 .. 2) \X BOOLEAN
    BY <1>2, <2>1 DEF CompactTypes
  <2> QED BY <1>1, <2>2 DEF CompactTypes, AnswerUnpack, Again
<1>4. CallsSoFar'
  BY <1>1 DEF CompactTypes, CallsSoFar, AnswerUnpack, Again
<1>5. (ask.upstream # "chat" => BehindTheRung)'
  <2>1. <<wire, key, call.packed>>[1] = wire /\ <<wire, key, call.packed>>[2] = key
    OBVIOUS
  <2> QED BY <1>2, <2>1 DEF BehindTheRung, AnswerUnpack, Again
<1>6. NotYetRefused'
  BY <1>1, <1>2 DEF NotYetRefused, AnswerUnpack, Again
<1> QED BY <1>3, <1>4, <1>5, <1>6

LEMMA RetryKeepsInv ==
  ASSUME CompactInv,
         NoAnswerRetry \/ \E s \in Statuses : AnswerRetry(s)
  PROVE  CompactInv'
<1> USE DEF CompactInv
<1>1. /\ pc = "sending" /\ refused' = refused /\ call.attempt + 1 < 3 /\ Again(call.packed)
  BY DEF CompactTypes, NoAnswerRetry, AnswerRetry, AttemptsFor, MaxAttempts
<1>2. /\ call'.packed = call.packed /\ call'.attempt = call.attempt + 1
      /\ call' \in [packed : BOOLEAN, attempt : 0 .. 2]
  BY <1>1 DEF CompactTypes, Again
<1>3. CompactTypes'
  BY <1>1, <1>2 DEF CompactTypes, Again
<1>4. CallsSoFar'
  BY <1>1, <1>2 DEF CompactTypes, CallsSoFar, Again
<1>5. (ask.upstream # "chat" => BehindTheRung)' /\ NotYetRefused'
  BY <1>1, <1>2 DEF BehindTheRung, NotYetRefused, Again
<1> QED BY <1>3, <1>4, <1>5

LEMMA TakenKeepsInv ==
  ASSUME CompactInv, NEW s \in Statuses, AnswerTaken(s) PROVE CompactInv'
<1> USE DEF CompactInv
<1>1. refused' = refused \/ refused' = refused \cup {<<wire, key, call.packed>>}
  BY DEF AnswerTaken, RememberRefused, Request
<1>2. CompactTypes'
  BY <1>1 DEF CompactTypes, AnswerTaken, sharedVars
<1>3. CallsSoFar'
  BY DEF CompactTypes, CallsSoFar, AnswerTaken
<1>4. (ask.upstream # "chat" => BehindTheRung)'
  BY <1>1 DEF BehindTheRung, AnswerTaken
<1>5. NotYetRefused'
  BY DEF NotYetRefused, AnswerTaken
<1> QED BY <1>2, <1>3, <1>4, <1>5

(* The end of the turn, whichever it is.                                   *)
LEMMA EndKeepsInv ==
  ASSUME CompactInv,
         NoAnswerEnd \/ BodyLost \/ \E error, blames \in BOOLEAN : Conclude(error, blames)
  PROVE  CompactInv'
<1> USE DEF CompactInv
<1>1. /\ pc \in {"sending", "judge"} /\ pc' = "done"
      /\ UNCHANGED <<ask, rung, wire, key, call, refused, sends>>
  BY DEF NoAnswerEnd, BodyLost, Conclude
<1>2. CompactTypes' /\ CallsSoFar'
  BY <1>1 DEF CompactTypes, CallsSoFar
<1>3. (ask.upstream # "chat" => BehindTheRung)' /\ NotYetRefused'
  BY <1>1 DEF BehindTheRung, NotYetRefused
<1> QED BY <1>2, <1>3

LEMMA NextKeyKeepsInv ==
  ASSUME CompactInv, NextKey PROVE CompactInv'
<1> USE DEF CompactInv
<1>1. /\ pc = "judge" /\ rung = 0 /\ rung' = 1 /\ key # 0
      /\ UNCHANGED <<ask, call, wire, refused, sends>>
  BY DEF NextKey, KeyFails, Resend
<1>2. (key' = 2 /\ pc' = "encode") \/ (key' = key /\ pc' = "judge")
  <2>1. CASE Resend(2, 1, wire)
    BY <2>1 DEF Resend
  <2>2. CASE ~Resend(2, 1, wire)
    BY <1>1, <2>2 DEF NextKey
  <2> QED BY <2>1, <2>2
<1>3. CompactTypes' /\ CallsSoFar'
  BY <1>1, <1>2 DEF CompactTypes, CallsSoFar
<1>4. (ask.upstream # "chat" => BehindTheRung)'
  BY <1>1 DEF BehindTheRung
<1>5. NotYetRefused'
  BY <1>1, <1>2 DEF NotYetRefused, BehindTheRung
<1> QED BY <1>3, <1>4, <1>5

(* The next wire is none of those that were refused.                       *)
LEMMA LeavingKeepsInv ==
  ASSUME CompactInv, LeaveOfficial \/ LeaveChat PROVE CompactInv'
<1> USE DEF CompactInv
<1>1. /\ pc = "judge" /\ pc' = "encode" /\ rung < rung' /\ rung' \in 2 .. 3
      /\ UNCHANGED <<ask, key, call, refused, sends>>
      /\ wire' \in Channels
  BY DEF CompactTypes, LeaveOfficial, LeaveChat, OverOther, OverResponses, Resend, CompactAsks, Channels
<1>2. CompactTypes' /\ CallsSoFar'
  <2>1. CompactTypes'
    BY <1>1 DEF CompactTypes, Channels, Wires
  <2>2. sends <= 3 * rung + 3 /\ rung + 1 <= rung'
    BY <1>1 DEF CompactTypes, CallsSoFar
  <2>3. sends' <= 3 * rung'
    <3>1. \A n, a, b \in Nat : n <= 3 * a + 3 /\ a + 1 <= b => n <= 3 * b
      OBVIOUS
    <3>2. sends \in Nat /\ rung \in Nat /\ rung' \in Nat /\ sends' = sends
      BY <1>1 DEF CompactTypes
    <3> QED BY <2>2, <3>1, <3>2
  <2>4. CallsSoFar'
    BY <1>1, <2>3 DEF CallsSoFar
  <2> QED BY <2>1, <2>4
<1>3. ASSUME ask.upstream # "chat" PROVE BehindTheRung' /\ \A r \in refused : r[1] # wire'
  <2>1. CASE LeaveOfficial
    <3>1. \A r \in refused : r[1] = "compact"
      BY <1>3, <2>1 DEF BehindTheRung, LeaveOfficial, OverOther
    <3> QED BY <1>1, <3>1 DEF BehindTheRung, Channels
  <2>2. CASE LeaveChat
    <3>1. wire = "chat" /\ wire' = ask.upstream
      BY <1>3, <2>2 DEF CompactTypes, LeaveChat, OverResponses, ChatGaveUp, Speaks, Resend
    <3>2. \A r \in refused : r[1] \in {"compact", "chat"}
      BY <1>3, <3>1 DEF BehindTheRung
    <3> QED BY <1>1, <1>3, <3>1, <3>2 DEF BehindTheRung, Channels
  <2> QED BY <2>1, <2>2
<1>4. NotYetRefused'
  BY <1>1, <1>3 DEF NotYetRefused
<1> QED BY <1>1, <1>2, <1>3, <1>4

(* For every set of statuses, whatever other turns note of keys and        *)
(* compression in between: what lies behind a rung is as above.            *)
THEOREM CompactionsMoveOn == CompactSpec => []CompactInv
<1>1. CompactInit => CompactInv
  BY DEF CompactInit, CompactInv, CompactTypes, CallsSoFar, BehindTheRung, NotYetRefused, NoCall
<1>2. CompactInv /\ [CompactNext]_compactVars => CompactInv'
  <2> SUFFICES ASSUME CompactInv, [CompactNext]_compactVars PROVE CompactInv'
    OBVIOUS
  <2>1. CASE Begin
    BY <2>1, BeginKeepsInv
  <2>2. CASE Encode
    BY <2>2, EncodeKeepsInv
  <2>3. CASE \E s \in Statuses : AnswerUnpack(s)
    BY <2>3, UnpackKeepsInv
  <2>4. CASE NoAnswerRetry \/ \E s \in Statuses : AnswerRetry(s)
    BY <2>4, RetryKeepsInv
  <2>5. CASE \E s \in Statuses : AnswerTaken(s)
    BY <2>5, TakenKeepsInv
  <2>6. CASE NoAnswerEnd \/ BodyLost \/ \E error, blames \in BOOLEAN : Conclude(error, blames)
    BY <2>6, EndKeepsInv
  <2>7. CASE NextKey
    BY <2>7, NextKeyKeepsInv
  <2>8. CASE LeaveOfficial \/ LeaveChat
    BY <2>8, LeavingKeepsInv
  <2>9. CASE Others \/ UNCHANGED compactVars
    <3>1. UNCHANGED turnVars
      BY <2>9 DEF Others, compactVars
    <3> QED BY <3>1 DEF turnVars, CompactInv, CompactTypes, CallsSoFar, BehindTheRung, NotYetRefused
  <2> QED BY <2>1, <2>2, <2>3, <2>4, <2>5, <2>6, <2>7, <2>8, <2>9 DEF CompactNext
<1> QED BY <1>1, <1>2, PTL DEF CompactSpec

(* Whatever the upstream answers and whatever other turns do: a compaction *)
(* ends within twelve attempts, and a request that was refused for good is *)
(* not sent again (mod.rs 476-1132, 8547-8694), unless the provider itself *)
(* speaks Chat.                                                            *)
THEOREM RefusalsAreFinal == CompactSpec => []RefusedIsNotRepeated
<1>1. CompactInv => RefusedIsNotRepeated
  BY DEF CompactInv, CompactTypes, CallsSoFar, NotYetRefused, RefusedIsNotRepeated, Request
<1> QED BY <1>1, CompactionsMoveOn, PTL
=============================================================================

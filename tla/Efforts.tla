------------------------------- MODULE Efforts -------------------------------
(***************************************************************************)
(* The reasoning effort of a generation request (proxy/mod.rs).  A model   *)
(* may carry an effort that overrides the one the agent asks for; a target *)
(* that rejects an effort is remembered for a while, the turn goes on with *)
(* the next lower one, and the stored override is lowered with it.  Turns  *)
(* of several agents and edits of the user interleave at every await.      *)
(*                                                                         *)
(* An effort is its rank in REASONING_EFFORT_VALUES, from 1; 0 stands for  *)
(* none given.  A target is one model of one provider on one channel.      *)
(***************************************************************************)
EXTENDS Integers, FiniteSetsExt

CONSTANTS
  Agents,       \* the turns that may be in progress at one time
  Models,       \* the targets
  Catalogues,   \* the lists of supported efforts a model may come with
  Strongest,    \* the number of effort values
  MaxEdits      \* bound: edits by the user, and failures to save

VARIABLES
  override,     \* [Models -> [on, effort]]: the stored setting of each model
  supported,    \* [Models -> SUBSET Effort]: what the model is said to support
  rejections,   \* the rejections remembered, as <<model, effort>>
  effortTurn,         \* [Agents -> the turn's own variables]
  edits         \* edits and failed saves so far

evars == <<override, supported, rejections, effortTurn, edits>>

Effort == 1 .. Strongest
Given == 0 .. Strongest

(* The user interface refuses an override without an effort. *)
Overrides == {s \in [on : BOOLEAN, effort : Given] : s.on => s.effort # 0}

NoTurn(m) ==
  [at |-> "start", model |-> m, raised |-> FALSE, effective |-> 0, next |-> 0,
   answer |-> "none", explicit |-> FALSE, knew |-> {}]

(* strongest_supported_reasoning_effort_at_or_below: 0 when none is. *)
StrongestAtOrBelow(requested, known) ==
  LET below == {e \in known : e <= requested}
  IN  IF below = {} THEN 0 ELSE Max(below)

(* Mutant: the rejections are forgotten. *)
NextLowerAny(current, rejected) ==
  LET lower == {e \in Effort : e < current}
  IN  IF lower = {} THEN 0 ELSE Max(lower)

(* next_lower_reasoning_effort: the list of supported efforts is not asked. *)
NextLower(current, rejected) ==
  LET lower == {e \in Effort : e < current /\ e \notin rejected}
  IN  IF lower = {} THEN 0 ELSE Max(lower)

RejectedEfforts(m) == {e \in Effort : <<m, e>> \in rejections}

(* apply_model_reasoning_effort: the override before the agent's own, and  *)
(* no more than the model is said to support.                              *)
Effective(configured, agent, known) ==
  LET wanted == IF configured # 0 THEN configured ELSE agent
      capped == IF wanted = 0 THEN 0 ELSE StrongestAtOrBelow(wanted, known)
  IN  IF capped = 0 THEN wanted ELSE capped

EffortsInit ==
  /\ override \in [Models -> Overrides]
  /\ supported \in [Models -> Catalogues]
  /\ rejections = {}
  /\ \E m \in Models : effortTurn = [a \in Agents |-> NoTurn(m)]
  /\ edits = 0

(* The turn is routed: its decision holds a copy of the model's settings.  *)
(* `raised` says that the override is above what the agent asked for.      *)
(* `knew` is what was already known to be rejected, for the properties.    *)
DecideEffort(a) ==
  /\ effortTurn[a].at = "start"
  /\ \E m \in Models, agent \in Given :
       LET configured == IF override[m].on THEN override[m].effort ELSE 0
       IN  effortTurn' = [effortTurn EXCEPT ![a] =
             [NoTurn(m) EXCEPT
               !.at = "cap",
               !.raised = agent # 0 /\ configured > agent,
               !.effective = Effective(configured, agent, supported[m]),
               !.knew = RejectedEfforts(m)]]
  /\ UNCHANGED <<override, supported, rejections, edits>>

(* apply_runtime_reasoning_effort_cap *)
CapEffort(a) ==
  /\ effortTurn[a].at = "cap"
  /\ LET rejected == RejectedEfforts(effortTurn[a].model)
         lower == NextLower(effortTurn[a].effective, rejected)
         capped == effortTurn[a].effective \in rejected /\ lower # 0
     IN  effortTurn' = [effortTurn EXCEPT
           ![a].at = "sent",
           ![a].effective = IF capped THEN lower ELSE @]
  /\ UNCHANGED <<override, supported, rejections, edits>>

(* The answer's status: success, an error that names the effort, a bare    *)
(* HTML 502, or another error.                                             *)
Answers == {"ok", "names_effort", "html_502", "error"}

(* On an error the next lower effort is chosen, before the body is read.   *)
AnswerComes(a) ==
  /\ effortTurn[a].at = "sent"
  /\ LET t == effortTurn[a]
         next == IF t.effective = 0 THEN 0
                 ELSE NextLower(t.effective, RejectedEfforts(t.model))
     IN  \E answer \in Answers :
           effortTurn' = [effortTurn EXCEPT
             ![a] = IF answer = "ok" \/ next = 0 THEN NoTurn(t.model)
                    ELSE [t EXCEPT !.at = "judge", !.answer = answer, !.next = next]]
  /\ UNCHANGED <<override, supported, rejections, edits>>

(* should_probe_opaque_reasoning_fallback *)
ProbesOpaque(t) ==
  /\ t.answer = "html_502"
  /\ t.raised

(* note_reasoning_effort_rejection of an effort of the turn's target *)
Noted(t, effort) == rejections \cup {<<t.model, effort>>}

(* The body decides: it names the effort, or it may hide a rejection. *)
Judge(a) ==
  /\ effortTurn[a].at = "judge"
  /\ LET t == effortTurn[a]
         explicit == t.answer = "names_effort"
     IN  /\ rejections' = IF explicit THEN Noted(t, t.effective) ELSE rejections
         /\ effortTurn' = [effortTurn EXCEPT
              ![a] = CASE explicit -> [t EXCEPT !.at = "lower", !.explicit = TRUE]
                       [] ProbesOpaque(t) -> [t EXCEPT !.at = "resend"]
                       [] OTHER -> NoTurn(t.model)]
  /\ UNCHANGED <<override, supported, edits>>

(* Mutant: whatever the override is now. *)
PersistedAnyway(m, current, next) ==
  IF override[m].on THEN [override EXCEPT ![m].effort = next] ELSE override

(* persist_model_reasoning_effort_fallback: only the override that was     *)
(* sent is lowered, and only if the configuration can be saved.            *)
Persisted(m, current, next) ==
  IF override[m].on /\ override[m].effort = current
  THEN [override EXCEPT ![m].effort = next]
  ELSE override

PersistFallback(m, current, next) ==
  \/ /\ override' = Persisted(m, current, next)
     /\ UNCHANGED edits
  \/ /\ edits < MaxEdits          \* config.save fails and the memory is put back
     /\ edits' = edits + 1
     /\ UNCHANGED override

LowerOverride(a) ==
  /\ effortTurn[a].at = "lower"
  /\ PersistFallback(effortTurn[a].model, effortTurn[a].effective, effortTurn[a].next)
  /\ effortTurn' = [effortTurn EXCEPT ![a].at = "resend"]
  /\ UNCHANGED <<supported, rejections>>

(* The request is sent once more with the next effort. *)
ResendLowered(a) ==
  /\ effortTurn[a].at = "resend"
  /\ \E answer \in Answers :
       effortTurn' = [effortTurn EXCEPT
         ![a] = CASE answer = "ok" /\ ~@.explicit -> [@ EXCEPT !.at = "proved"]
                  [] answer = "names_effort" /\ @.explicit -> [@ EXCEPT !.at = "again"]
                  [] OTHER -> NoTurn(@.model)]
  /\ UNCHANGED <<override, supported, rejections, edits>>

(* An opaque error was the effort's: the next one succeeded.  Noted, then  *)
(* persisted.                                                              *)
Proved(a) ==
  /\ effortTurn[a].at = "proved"
  /\ rejections' = Noted(effortTurn[a], effortTurn[a].effective)
  /\ effortTurn' = [effortTurn EXCEPT ![a].at = "lower_proved"]
  /\ UNCHANGED <<override, supported, edits>>

LowerProved(a) ==
  /\ effortTurn[a].at = "lower_proved"
  /\ PersistFallback(effortTurn[a].model, effortTurn[a].effective, effortTurn[a].next)
  /\ effortTurn' = [effortTurn EXCEPT ![a] = NoTurn(@.model)]
  /\ UNCHANGED <<supported, rejections>>

(* The second effort is rejected as well: it is noted, and the override    *)
(* goes one further down without another request.                          *)
RejectedAgain(a) ==
  /\ effortTurn[a].at = "again"
  /\ rejections' = Noted(effortTurn[a], effortTurn[a].next)
  /\ effortTurn' = [effortTurn EXCEPT ![a].at = "lower_again"]
  /\ UNCHANGED <<override, supported, edits>>

LowerAgain(a) ==
  /\ effortTurn[a].at = "lower_again"
  /\ LET t == effortTurn[a]
         further == NextLower(t.next, RejectedEfforts(t.model))
     IN  IF further = 0 THEN UNCHANGED <<override, edits>>
         ELSE PersistFallback(t.model, t.next, further)
  /\ effortTurn' = [effortTurn EXCEPT ![a] = NoTurn(@.model)]
  /\ UNCHANGED <<supported, rejections>>

(* The user sets or clears the model's override (add_or_update_model). *)
Edit(m) ==
  /\ edits < MaxEdits
  /\ edits' = edits + 1
  /\ \E setting \in Overrides :
       override' = [override EXCEPT ![m] = setting]
  /\ UNCHANGED <<supported, rejections, effortTurn>>

(* REASONING_EFFORT_REJECTION_COOLDOWN_SECS have passed. *)
Expire(m, e) ==
  /\ <<m, e>> \in rejections
  /\ rejections' = rejections \ {<<m, e>>}
  /\ effortTurn' = [a \in Agents |->
       IF effortTurn[a].model = m THEN [effortTurn[a] EXCEPT !.knew = @ \ {e}] ELSE effortTurn[a]]
  /\ UNCHANGED <<override, supported, edits>>

EffortStep(a) ==
  \/ DecideEffort(a) \/ CapEffort(a) \/ AnswerComes(a) \/ Judge(a)
  \/ LowerOverride(a) \/ ResendLowered(a) \/ Proved(a) \/ LowerProved(a)
  \/ RejectedAgain(a) \/ LowerAgain(a)

EffortsNext ==
  \/ \E a \in Agents : EffortStep(a)
  \/ \E m \in Models : Edit(m)
  \/ \E m \in Models, e \in Effort : Expire(m, e)

EffortsSpec == EffortsInit /\ [][EffortsNext]_evars

-----------------------------------------------------------------------------
(* The effort that a step of turn a decides to send; 0 when it is none. *)
NowSends(a) ==
  CASE effortTurn[a].at # "sent" /\ effortTurn'[a].at = "sent" -> effortTurn'[a].effective
    [] effortTurn[a].at # "resend" /\ effortTurn'[a].at = "resend" -> effortTurn'[a].next
    [] OTHER -> 0

(* A turn does not ask a target for an effort the proxy knew, when the     *)
(* turn began, to be rejected there - neither at first nor when it falls   *)
(* back - unless every lower one is rejected as well.  The set is read     *)
(* anew at each of the turn's steps, with awaits in between.               *)
KnownRejectionsAreAvoided ==
  [][ \A a \in Agents :
        LET t == effortTurn[a]
        IN  NowSends(a) \in t.knew =>
              \A e \in Effort : e < NowSends(a) => <<t.model, e>> \in rejections ]_evars

(* Whatever turns and edits interleave, a step of a turn changes a stored  *)
(* override only downwards, only when it still is an effort that the same  *)
(* turn has sent without success, and leaves the switch and every other    *)
(* model alone: a concurrent edit of the user wins.                        *)
OverrideFollowsItsOwnRejection ==
  [][ (effortTurn' # effortTurn /\ override' # override) =>
        \E a \in Agents :
          LET t == effortTurn[a]
              m == t.model
          IN  /\ effortTurn'[a].at # t.at
              /\ override' = [override EXCEPT ![m].effort = override'[m].effort]
              /\ override[m].on
              /\ override'[m].effort < override[m].effort
              /\ override[m].effort \in {t.effective, t.next}
              /\ t.answer \in {"names_effort", "html_502"} ]_evars

(* What is asked of the constants: models list efforts there are.          *)
SoundLevels == Strongest \in Nat /\ \A known \in Catalogues : known \subseteq Effort
=============================================================================

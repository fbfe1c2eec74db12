----------------------------- MODULE InboundTurn -----------------------------
(***************************************************************************)
(* What the proxy promises about one inbound generation request, whatever  *)
(* ladder of recoveries it runs inside: the upstream calls of a turn are   *)
(* made one at a time, a call that brought a successful answer is the last *)
(* one, a turn makes at most Budget calls, and it is closed once.          *)
(***************************************************************************)
EXTENDS Naturals

CONSTANT Turns

VARIABLES
  phase,     \* "new", "open" (no call outstanding), "calling", "closed"
  calls,     \* upstream calls made for the turn
  answered,  \* the last call was answered with success
  agent      \* an agent's turn: a tighter budget

vars == <<phase, calls, answered, agent>>

Budget(t) == IF agent[t] THEN 2 ELSE 5

Init ==
  /\ phase = [t \in Turns |-> "new"]
  /\ calls = [t \in Turns |-> 0]
  /\ answered = [t \in Turns |-> FALSE]
  /\ agent \in [Turns -> BOOLEAN]

Open(t) ==
  /\ phase[t] = "new"
  /\ phase' = [phase EXCEPT ![t] = "open"]
  /\ UNCHANGED <<calls, answered, agent>>

Call(t) ==
  /\ phase[t] = "open"
  /\ ~answered[t]
  /\ calls[t] < Budget(t)
  /\ phase' = [phase EXCEPT ![t] = "calling"]
  /\ calls' = [calls EXCEPT ![t] = @ + 1]
  /\ UNCHANGED <<answered, agent>>

Answer(t) ==
  /\ phase[t] = "calling"
  /\ phase' = [phase EXCEPT ![t] = "open"]
  /\ \E success \in BOOLEAN : answered' = [answered EXCEPT ![t] = success]
  /\ UNCHANGED <<calls, agent>>

Close(t) ==
  /\ phase[t] \in {"open", "calling"}
  /\ phase' = [phase EXCEPT ![t] = "closed"]
  /\ answered' = [answered EXCEPT ![t] = FALSE]
  /\ UNCHANGED <<calls, agent>>

Next == \E t \in Turns : Open(t) \/ Call(t) \/ Answer(t) \/ Close(t)

Spec == Init /\ [][Next]_vars
=============================================================================

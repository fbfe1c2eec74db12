-------------------------- MODULE GenerationTurnMC --------------------------
(***************************************************************************)
(* Instances of GenerationTurn for TLC.                                    *)
(***************************************************************************)
EXTENDS GenerationTurn, TLC

CONSTANTS t1, t2, official, third, a1, a2, a3, i1, i2, i3, i4

(* Two anchors of one scope belong to the user, a third to an agent; all   *)
(* are conversations with the same target.                                 *)
OneTarget(p) == [a \in {a1, a2, a3} |-> [agent |-> a = a3, target |-> p]]
ThirdScopes == OneTarget(third)
OfficialScopes == OneTarget(official)

Shape(a, stream, defaulted, native, chained, compact) ==
  [anchor |-> a, stream |-> stream, defaulted |-> defaulted, native |-> native,
   chained |-> chained, compact |-> compact]

(* Every request a user (a1) or an agent (a3) can make.  The shape of the  *)
(* body only matters to a sync request on a Responses route, a client's    *)
(* own previous_response_id only on a Responses route.                     *)
EveryRequest ==
  {r \in {Shape(a, s, d, n, c, k) : a \in {a1, a3}, s, d, n, c, k \in BOOLEAN} :
     /\ r.defaulted => r.stream /\ r.anchor = a3
     /\ r.compact => r.native /\ ~r.stream
     /\ r.chained => r.native}

(* The requests whose turns meet in the shared tables: streams on the two  *)
(* anchors of a scope, an agent's stream, and a sync compaction.           *)
MeetingRequests ==
  {Shape(a1, TRUE, FALSE, TRUE, FALSE, FALSE),
   Shape(a2, TRUE, FALSE, TRUE, FALSE, FALSE),
   Shape(a3, TRUE, TRUE, TRUE, FALSE, FALSE),
   Shape(a1, FALSE, FALSE, TRUE, FALSE, TRUE)}

(* One status for each way the ladder can treat an answer.                 *)
EveryStatus == {200, 302, 400, 401, 403, 404, 405, 413, 422, 429, 500, 501}
MeetingStatuses == {200, 404, 413}

Ids == Permutations(ResponseIds)
=============================================================================

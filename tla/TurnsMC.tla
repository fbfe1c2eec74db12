------------------------------- MODULE TurnsMC -------------------------------
(***************************************************************************)
(* Instances for TLC of the modules about what turns do to each other and  *)
(* to the state they share, beside the ladder of GenerationTurn: the       *)
(* contents of sessions, efforts, routing, prefix control and compaction.  *)
(* One of them moves in a behaviour, and the others stay where they began. *)
(***************************************************************************)
EXTENDS ResponseSessions, Efforts, Routing, PrefixControl, CompactTurn

CONSTANTS a1, a2, target

VARIABLE part    \* the module that moves

turnsVars == <<part, sessionVars, evars, rvars, prefixVars, compactVars>>

-----------------------------------------------------------------------------
(* Conversations that begin alike, continue each other, call a tool or are *)
(* continued by the client itself.                                         *)
User(x) == [kind |-> "user", text |-> x, call |-> 0]
Assistant(x) == [kind |-> "assistant", text |-> x, call |-> 0]
Calls(n) == [kind |-> "call", text |-> "run", call |-> n]
Output(n) == [kind |-> "output", text |-> "ok", call |-> n]
Asking(k, prev, input) == [key |-> k, prev |-> prev, input |-> input]
SomeSessionAsks == {
  Asking("k1", FALSE, <<User("hi")>>),
  Asking("k1", FALSE, <<User("hi"), Assistant("x"), User("go")>>),
  Asking("k1", FALSE, <<User("hi"), Calls(1), Output(1)>>),
  Asking("k1", FALSE, <<User("hi"), Output(2), User("go"), User("on")>>),
  Asking("k1", FALSE, <<User("hi"), User("stop")>>),
  Asking("k2", FALSE, <<User("hi"), Assistant("y"), User("go"), User("on")>>),
  Asking("k2", TRUE, <<User("go")>>),
  Asking("k1", TRUE, <<User("hi"), User("go"), User("stop")>>),
  Asking("k1", TRUE, <<User("hi"), Calls(1), Output(1), User("go")>>)}

(* Two providers that offer models under one another's names in other      *)
(* case, of which some are switched off.                                   *)
Offered(i, a, o) == [id |-> i, alias |-> a, on |-> o]
OffersOf == [p1 |-> <<Offered("org/Big", "org/Big", TRUE), Offered("small", "Big", FALSE)>>,
             p2 |-> <<Offered("small", "BIG", TRUE), Offered("org/Big", "org/Big", FALSE)>>]
Written == {"org/Big", "Big", "big", "BIG", "small", "org/big"}
InLower == [x \in Written |-> CASE x \in {"Big", "big", "BIG"} -> "big"
                                [] x = "small" -> "small"
                                [] OTHER -> "org/big"]
BaseOf == [x \in Written |-> IF x = "org/Big" THEN "big" ELSE Nothing]

WantsOf == [c1 |-> "Big", c2 |-> Nothing]
InOrder == <<"p1", "p2">>

(* Usages around a warm prefix of 131,072 tokens: read whole, two blocks   *)
(* short, not at all, a short request, one below what a cache takes, and   *)
(* one that counts what was read beside the input.                         *)
Usage(i, r) == [input |-> i, read |-> r]
Usages == {Usage(132000, 131072), Usage(135000, 130048), Usage(100000, 0), Usage(40100, 39424),
           Usage(1100, 0), Usage(4000, 131072)}
Added(source, items, message, called, output, largest, noisy) ==
  [source |-> source, items |-> items, message |-> message, call |-> called,
   output |-> output, largest |-> largest, noisy |-> noisy]
Additions == {Added("message", 1, 600, 0, 0, 0, FALSE),
              Added("mixed", 40, 9000, 9000, 90000, 40000, TRUE)}
Sending(p, protocol, guarded, stream, sent) ==
  [prefix |-> p, channel |-> protocol, session |-> "c", guarded |-> guarded, stream |-> stream,
   sent |-> sent, learns |-> TRUE]
SomePrefixAsks == {
  Sending("p", "Responses", TRUE, TRUE, "full"), Sending("p", "Responses", TRUE, TRUE, "delta"),
  Sending("p", "Responses", FALSE, FALSE, "again"), Sending("q", "Chat", TRUE, FALSE, "full")}
Warm == [fresh |-> TRUE, input |-> 132000, read |-> 131072, short |-> 512, short128 |-> 896,
         seen |-> 131584, seen128 |-> 131968, avoidable |-> 512, avoidable128 |-> 896,
         streak |-> 2, small |-> 3, unstable |-> 7, output |-> 9000, largest |-> 9000,
         noisy |-> FALSE]
Before == {[x \in {"p", "q"} |-> [warm |-> Empty, most |-> 0]],
           [x \in {"p", "q"} |-> [warm |-> Warm, most |-> 132000]]}

(* What the theorems about these modules ask of their constants.           *)
ASSUME ConstantsAreSound ==
  SoundSessions /\ SoundLevels /\ SoundRoutes /\ SoundUsages

-----------------------------------------------------------------------------
TurnsInit ==
  /\ part \in {"sessions", "efforts", "routing", "prefix", "compact"}
  /\ SessionsInit
  /\ EffortsInit
  /\ part # "efforts" =>
       override = [x \in {target} |-> [on |-> FALSE, effort |-> 0]] /\ supported = [x \in {target} |-> {}]
  /\ RoutingInit
  /\ part # "routing" =>
       settings = [on |-> {}, active |-> Nothing, agent_on |-> FALSE, bound |-> Nothing]
  /\ PrefixInit
  /\ part # "prefix" => most = [x \in {"p", "q"} |-> 0]
  /\ CompactInit
  /\ part # "compact" => ask = (CHOOSE x \in CompactAsks : TRUE) /\ ~chatCooled

TurnsNext ==
  \/ /\ part = "sessions" /\ SessionsNext
     /\ UNCHANGED <<part, evars, rvars, prefixVars, compactVars>>
  \/ /\ part = "efforts" /\ EffortsNext
     /\ UNCHANGED <<part, sessionVars, rvars, prefixVars, compactVars>>
  \/ /\ part = "routing" /\ RoutingNext
     /\ UNCHANGED <<part, sessionVars, evars, prefixVars, compactVars>>
  \/ /\ part = "prefix" /\ PrefixNext
     /\ UNCHANGED <<part, sessionVars, evars, rvars, compactVars>>
  \/ /\ part = "compact" /\ CompactNext
     /\ UNCHANGED <<part, sessionVars, evars, rvars, prefixVars>>

TurnsSpec == TurnsInit /\ [][TurnsNext]_turnsVars
=============================================================================

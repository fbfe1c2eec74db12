----------------------------- MODULE ExchangeMC -----------------------------
(***************************************************************************)
(* Instances for TLC of the modules about what passes between a client and *)
(* a provider: the relay of the answer (StreamRelay), its conversion       *)
(* (ChatStream) and that of the request (ChatRequest), and what a provider *)
(* can find in its cache of the turn before (PrefixBody, CacheBreakpoints).*)
(* One of them moves in a behaviour, and the others stay where they began. *)
(***************************************************************************)
EXTENDS StreamRelay, ChatStream

VARIABLES
  part,                                     \* the module that moves
  offered, items, open, parted, request,    \* ChatRequest
  thread, talk, tools, outbound,            \* PrefixBody
  static, messages, last                    \* CacheBreakpoints

requestVars == <<offered, items, open, parted, request>>
bodyVars == <<thread, talk, tools, outbound>>
markVars == <<static, messages, last>>
exchangeVars == <<part, relayVars, streamVars, requestVars, bodyVars, markVars>>

-----------------------------------------------------------------------------
(* A whole answer, one whose end is [DONE], one that failed.               *)
MCStreams == {<<"created", "delta", "completed">>, <<"delta", "done">>, <<"created", "failed">>}

(* A thinking tag cut in two, blanks around texts, calls whose id, name    *)
(* and arguments arrive in any order, two calls at once, a custom tool,    *)
(* and a name that changes.                                                *)
Plain == [why |-> <<>>, content |-> <<>>, calls |-> <<>>, finish |-> Absent]
Written == {<<"<th">>, <<"ink>">>, <<"</think>", "w">>, <<"w", "sp">>}
Delta(k, id, name, args) == [key |-> k, id |-> id, name |-> name, args |-> args]
Called == {
  <<Delta(0, TRUE, "run", <<>>)>>, <<Delta(0, FALSE, Absent, <<"a">>)>>,
  <<Delta(1, TRUE, Absent, <<"a">>)>>, <<Delta(1, FALSE, "exec", <<>>)>>,
  <<Delta(1, FALSE, "run", <<"b">>)>>,
  <<Delta(0, FALSE, "run", <<"a">>), Delta(1, TRUE, "exec", <<"b">>)>>}
MCChunks ==
  {[Plain EXCEPT !.content = c] : c \in Written} \cup {[Plain EXCEPT !.calls = c] : c \in Called}
  \cup {[Plain EXCEPT !.why = <<"r">>], [Plain EXCEPT !.finish = "stop"]}

(* Tools whose chat names collide, a namespace, a custom tool and the      *)
(* search for tools, which loads one more.                                 *)
Offer(kind, name, children) == [kind |-> kind, name |-> name, children |-> children]
Offers == {
  <<>>,
  <<Offer("function", <<"a", "__", "b">>, <<>>), Offer("namespace", <<"a">>, <<<<"b">>, <<"c">>>>)>>,
  <<Offer("namespace", <<"a">>, <<<<"b">>>>), Offer("search", <<"tool_search">>, <<>>)>>,
  <<Offer("custom", <<"b">>, <<>>), Offer("function", <<"b">>, <<>>)>>}
Loadable == Offer("namespace", <<"a">>, <<<<"c">>>>)
Piece(type, text) == [type |-> type, text |-> text]
Contents == {<<Piece("text", "hi"), Piece("text", ""), Piece("other", "x")>>}

Request == INSTANCE ChatRequest WITH
  Thoughts <- {"r"}, Efforts <- {"low", "unsaid"}, Instructions <- <<Piece("text", "told")>>,
  MaxItems <- 4

(* Two spellings that differ in everything a client may write differently, *)
(* and one that differs from the first in all but the contents.            *)
Parameters == {[name |-> 1, params |-> {"path", "id"}], [name |-> 2, params |-> {"x"}]}
Spelling(i, c, j, n, e) == [ids |-> i, content |-> c, json |-> j, noise |-> n, effort |-> e]
Spellings == {Spelling("provider", "text", "raw", "n", "low"),
              Spelling("client", "blocks", "canonical", "m", "high"),
              Spelling("client", "text", "canonical", "m", "high")}

Body == INSTANCE PrefixBody WITH
  Tools <- Parameters, Texts <- {"a"}, Rules <- "rules", Threads <- {None, "thread"},
  MaxTalk <- 4, offered <- tools

(* A lookback of one message, where the code has twenty blocks.            *)
Marks == INSTANCE CacheBreakpoints WITH
  Limit <- 4, Lookback <- 1, MinTokens <- 2, Sizes <- {0, 1}, Statics <- {0, 2},
  MaxMessages <- 5

-----------------------------------------------------------------------------
ExchangeInit ==
  /\ part \in {"relay", "stream", "request", "body", "marks"}
  /\ RelayInit /\ StreamInit /\ Request!RequestInit /\ Body!BodyInit /\ Marks!MarkInit
  /\ part # "relay" => body = CHOOSE b \in Streams : TRUE
  /\ part # "request" => offered = <<>>
  /\ part # "body" => thread = None
  /\ part # "marks" => static = [tools |-> 0, system |-> 0]

ExchangeNext ==
  \/ /\ part = "relay" /\ RelayNext
     /\ UNCHANGED <<part, streamVars, requestVars, bodyVars, markVars>>
  \/ /\ part = "stream" /\ StreamNext
     /\ UNCHANGED <<part, relayVars, requestVars, bodyVars, markVars>>
  \/ /\ part = "request" /\ Request!RequestNext
     /\ UNCHANGED <<part, relayVars, streamVars, bodyVars, markVars>>
  \/ /\ part = "body" /\ Body!BodyNext
     /\ UNCHANGED <<part, relayVars, streamVars, requestVars, markVars>>
  \/ /\ part = "marks" /\ Marks!MarkNext
     /\ UNCHANGED <<part, relayVars, streamVars, requestVars, bodyVars>>

(* Where the relay rests, its fair actions are disabled: the fairness asks *)
(* nothing of the other parts.                                             *)
ExchangeSpec == ExchangeInit /\ [][ExchangeNext]_exchangeVars /\ RelayFairness

-----------------------------------------------------------------------------
(* PROPERTIES, invariants asked of the part that moves                     *)

(* In a Chat request every call is followed by its output and goes by a    *)
(* name of a tool that is offered.                                         *)
ToolsPairUp == part = "request" => Request!ToolsPairUp

(* A turn's messages begin with those of the turn before.                  *)
ConversationOnlyGrows == Request!ConversationOnlyGrows

(* A turn of the same conversation has the prefix of the turn before,      *)
(* however the client spells it.                                           *)
TurnBeginsAsTheLast == Body!TurnBeginsAsTheLast

(* A tool output is sent under the id its call is sent under.              *)
OutputsKeepTheirCalls == part = "body" => Body!OutputsKeepTheirCalls

(* A turn's cache marks reach back to one of the turn before.              *)
MarksAreFoundAgain == Marks!MarksAreFoundAgain
=============================================================================

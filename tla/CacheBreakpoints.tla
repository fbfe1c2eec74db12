--------------------------- MODULE CacheBreakpoints ---------------------------
(***************************************************************************)
(* The cache marks the proxy sets in an Anthropic request                  *)
(* (src/src-tauri/src/proxy/mod.rs 11288-11609).  Such a provider caches   *)
(* up to a mark, accepts four marks in all, and finds an older mark only   *)
(* a number of blocks back from a newer one.  The client sends the whole   *)
(* conversation anew with every turn, with marks of its own or without;    *)
(* the proxy keeps nothing from turn to turn.                              *)
(***************************************************************************)
EXTENDS Naturals, Sequences, SequencesExt, FiniteSetsExt

CONSTANTS
  Limit,        \* ANTHROPIC_CACHE_BREAKPOINT_LIMIT
  Lookback,     \* ANTHROPIC_LOOKBACK_BLOCKS
  MinTokens,    \* ANTHROPIC_MIN_CACHEABLE_PREFIX_TOKENS
  Sizes,        \* tokens of a message
  Statics,      \* tokens of the tools and the system text
  MaxMessages,  \* bound on the conversation
  None

VARIABLES
  static,    \* [tools, system]: tokens; 0 where there is none
  messages,  \* what was said: the tokens of each message
  last       \* the last turn that was sent

markVars == <<static, messages, last>>

-----------------------------------------------------------------------------
(* A request: which of its places are marked.  A place is the last tool,   *)
(* the system text or a message.                                           *)

Tools == <<"tools">>
System == <<"system">>
Message(i) == <<"message", i>>

(* Mutant of Remaining: the marks of the client are not counted.         *)
RemainingOfOwn(marks) == Limit

(* count_cache_control_fields                                              *)
Remaining(marks) == IF Cardinality(marks) >= Limit THEN 0 ELSE Limit - Cardinality(marks)

(* add_cache_control_to_last_object, add_cache_control_to_content_value: a *)
(* place that is there and not marked yet.                                 *)
Markable(place, st, items) ==
  \/ place = Tools /\ st.tools > 0
  \/ place = System /\ st.system > 0
  \/ \E i \in DOMAIN items : place = Message(i)

(* anthropic_message_cache_breakpoints: tokens up to a message.            *)
Upto(i, st, items) ==
  st.tools + st.system + FoldLeft(LAMBDA n, size : n + size, 0, SubSeq(items, 1, i))

(* Where a mark may be: never at the last message, which will not be the   *)
(* last next time, and only behind enough to cache.                        *)
Eligible(st, items) == {i \in 1 .. Len(items) - 1 : Upto(i, st, items) >= MinTokens}

(* The places from the end, a lookback apart.  Near the beginning the same *)
(* place is found again and again, until enough are selected.              *)
Selected(n, st, items) ==
  LET Before(bound) == {i \in Eligible(st, items) : i <= bound}
      Next(bound) == IF Before(bound) = {} THEN 0 ELSE Max(Before(bound))
      back[k \in 1 .. n] ==
        IF k = 1 THEN Next(Len(items))
        ELSE IF back[k - 1] = 0 THEN 0
        ELSE Next(IF back[k - 1] > Lookback THEN back[k - 1] - Lookback ELSE 1)
  IN {back[k] : k \in 1 .. n} \ {0}

(* add_cache_control_to_stable_message_prefix; every message has content.  *)
MarkMessages(n, marks, st, items) == marks \cup {Message(i) : i \in Selected(n, st, items)}

(* One place, and what remains of the marks.                               *)
MarkPlace(z, place, st, items) ==
  IF z.left > 0 /\ Markable(place, st, items) /\ place \notin z.marks
  THEN [marks |-> z.marks \cup {place}, left |-> z.left - 1]
  ELSE z

(* add_anthropic_cache_control                                             *)
AddCacheControl(marks, st, items) ==
  LET left == [marks |-> marks, left |-> Remaining(marks)]
      tools == MarkPlace(left, Tools, st, items)
      system == MarkPlace(tools, System, st, items)
  IN IF system.left = 0 THEN system.marks ELSE MarkMessages(system.left, system.marks, st, items)

-----------------------------------------------------------------------------
MarkInit ==
  /\ static \in [tools : Statics, system : Statics]
  /\ messages = <<>> /\ last = None

Says(size) ==
  /\ Len(messages) < MaxMessages
  /\ messages' = Append(messages, size)
  /\ UNCHANGED <<static, last>>

Places == {Tools, System} \cup {Message(i) : i \in DOMAIN messages}

(* The client marks what it likes, within what the provider accepts.       *)
SendTurn(own) ==
  /\ messages # <<>>
  /\ Cardinality(own) <= Limit
  /\ \A place \in own : Markable(place, static, messages)
  /\ last' = [ours |-> own = {}, marks |-> AddCacheControl(own, static, messages), length |-> Len(messages)]
  /\ UNCHANGED <<static, messages>>

MarkNext ==
  \/ \E size \in Sizes : Says(size)
  \/ \E own \in SUBSET Places : SendTurn(own)

MarkSpec == MarkInit /\ [][MarkNext]_markVars

-----------------------------------------------------------------------------
(* PROPERTIES *)

MessageMarks(turn) == {i \in 1 .. turn.length : Message(i) \in turn.marks}

(* Two turns of one conversation, neither marked by the client.            *)
BothOurs == last # None /\ last.ours /\ last'.ours

(* A turn has never more marks than the provider accepts, whoever set      *)
(* them.  And the marks the proxy sets can be found again: where it set    *)
(* the last mark of a turn, the next turn, if it has not grown by more     *)
(* than the lookback, has a mark at that place or near enough behind it.   *)
MarksAreFoundAgain ==
  [][last # last' =>
       /\ Cardinality(last'.marks) <= Limit
       /\ BothOurs /\ last'.length <= last.length + Lookback =>
            \A i \in MessageMarks(last) :
              i = Max(MessageMarks(last)) =>
                \E j \in MessageMarks(last') : i <= j /\ j <= i + Lookback]_markVars
=============================================================================

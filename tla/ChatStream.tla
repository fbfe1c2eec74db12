------------------------------ MODULE ChatStream ------------------------------
(***************************************************************************)
(* The conversion of a Chat Completions stream into the events of a        *)
(* Responses stream (src/src-tauri/src/proxy/streaming_codex_chat.rs) for  *)
(* an agent that speaks Responses to a provider that speaks Chat.          *)
(*                                                                         *)
(* A text is a sequence of atoms: "sp" is white space, "<th" and "ink>"    *)
(* are the two parts a chunk boundary may cut an opening tag into,         *)
(* "</think>" closes it, anything else is a word.  The functions of        *)
(* ChatToResponsesState return the new state and the events they emit.     *)
(***************************************************************************)
EXTENDS Naturals, Sequences, SequencesExt, FiniteSetsExt, Functions

CONSTANTS
  Chunks,       \* the chunks an upstream may send: [why, content, calls,
                \* finish], a reasoning field, a content field, the deltas of
                \* tool calls and the finish_reason
  MaxChunks,    \* how many of them a stream has at most
  MaxCalls,     \* the indexes of the calls are below it
  CustomTools,  \* chat names that stand for custom tools of the request
  Absent        \* no value, and in received the end mark of the stream

IsList(x) == x \in Seq(Range(x))

(* Texts and calls are lists, and calls are numbered.                      *)
ASSUME SoundChunks ==
  /\ MaxCalls \in Nat
  /\ Absent \notin Chunks /\ Absent \notin CustomTools \cup {"given", "made"}
  /\ \A c \in Chunks :
       /\ IsList(c.why) /\ IsList(c.content) /\ IsList(c.calls)
       /\ \A d \in Range(c.calls) :
            d.key \in 0 .. MaxCalls - 1 /\ d.id \in BOOLEAN /\ IsList(d.args)

VARIABLES
  s,         \* ChatToResponsesState
  events,    \* what the client has been sent
  phase,     \* how far the stream is
  received   \* the chunks of the upstream so far (history)

streamVars == <<s, events, phase, received>>

-----------------------------------------------------------------------------
(* Texts.                                                                  *)

IsBlank(t) == \A i \in DOMAIN t : t[i] = "sp"
TrimStart(t) ==
  LET i == SelectInSeq(t, LAMBDA a : a # "sp")
  IN IF i = 0 THEN <<>> ELSE SubSeq(t, i, Len(t))
Trim(t) == Reverse(TrimStart(Reverse(TrimStart(t))))

Open == <<"<th", "ink>">>
From(t, i) == SubSeq(t, i, Len(t))

(* Mutant of ThinkPrefix: a tag that has not arrived whole is text.      *)
ThinkPrefixAtOnce(buffer) ==
  IF TrimStart(buffer) = <<>> THEN "NeedMore"
  ELSE IF IsPrefix(Open, TrimStart(buffer)) THEN "Reasoning" ELSE "Text"

(* leading_think_prefix_decision                                           *)
ThinkPrefix(buffer) ==
  LET t == TrimStart(buffer)
  IN IF IsPrefix(Open, t) THEN "Reasoning" ELSE IF IsPrefix(t, Open) THEN "NeedMore" ELSE "Text"

(* split_leading_think_block: the thought and the answer, Absent if the    *)
(* tag is not there or not closed.                                         *)
SplitThink(t) ==
  LET b == TrimStart(t)
      close == SelectInSeq(b, LAMBDA a : a = "</think>")
  IN IF ~IsPrefix(Open, b) \/ close = 0 THEN Absent
     ELSE [why |-> Trim(SubSeq(b, Len(Open) + 1, close - 1)),
           answer |-> TrimStart(From(b, close + 1))]

(* strip_leading_think_open_tag                                            *)
StripOpenTag(t) ==
  IF IsPrefix(Open, TrimStart(t)) THEN Trim(From(TrimStart(t), Len(Open) + 1)) ELSE t

(* canonicalize_tool_arguments_str: equal arguments have one form, and no  *)
(* arguments are an empty object.                                          *)
Canonical(args) == IF IsBlank(args) THEN <<"{}">> ELSE Trim(args)

-----------------------------------------------------------------------------
(* ChatToResponsesState                                                    *)

NewItem == [index |-> Absent, text |-> <<>>, added |-> FALSE, done |-> FALSE]
NewTool == [index |-> Absent, call |-> Absent, name |-> Absent, args |-> <<>>, why |-> <<>>,
            added |-> FALSE, done |-> FALSE]

NewState ==
  [started |-> FALSE, completed |-> FALSE, next |-> 0,
   reasoning |-> NewItem, message |-> NewItem,
   mode |-> "Detecting", buffer |-> <<>>,     \* InlineThinkState
   tools |-> <<>>, output |-> <<>>, finish |-> Absent]

Ev(type, item, index, text) == [type |-> type, item |-> item, index |-> index, text |-> text]
Tool(k) == <<"tool", k>>
Reasoning == <<"reasoning">>
Message == <<"message">>
Response == <<"response">>

(* A function's result: the state after it and the events it returns.      *)
Step(z, evs) == [s |-> z, out |-> evs]
Then(r, F(_)) == LET n == F(r.s) IN Step(n.s, r.out \o n.out)

(* ensure_response_started                                                 *)
EnsureStarted(z) ==
  IF z.started THEN Step(z, <<>>)
  ELSE Step([z EXCEPT !.started = TRUE],
            <<Ev("created", Response, 0, <<>>), Ev("in_progress", Response, 0, <<>>)>>)

PushItem(z, field, item, d) ==
  LET new == ~z[field].added
      i == IF new THEN z.next ELSE z[field].index
  IN Step([z EXCEPT ![field].index = i, ![field].added = TRUE, ![field].text = @ \o d,
                    !.next = IF new THEN @ + 1 ELSE @],
          (IF new THEN <<Ev("item.added", item, i, <<>>), Ev("part.added", item, i, <<>>)>>
           ELSE <<>>)
          \o <<Ev("delta", item, i, d)>>)

PushReasoning(z, d) == PushItem(z, "reasoning", Reasoning, d)
PushText(z, d) == PushItem(z, "message", Message, d)

CloseItem(z, field, item) ==
  LET it == z[field]
  IN IF ~it.added \/ it.done THEN Step(z, <<>>)
     ELSE Step([z EXCEPT ![field].done = TRUE,
                         !.output = Append(@, [index |-> it.index, item |-> item, text |-> it.text])],
               <<Ev("text.done", item, it.index, it.text), Ev("part.done", item, it.index, it.text),
                 Ev("item.done", item, it.index, it.text)>>)

CloseReasoning(z) == CloseItem(z, "reasoning", Reasoning)

CloseText(z) == CloseItem(z, "message", Message)

(* What both ways to the end of a thought do with its two parts.           *)
Told(z, parts) ==
  LET thought == IF parts.why = <<>> THEN Step(z, <<>>)
                 ELSE Then(PushReasoning(z, parts.why), CloseReasoning)
  IN Then(thought, LAMBDA y : IF parts.answer = <<>> THEN Step(y, <<>>) ELSE PushText(y, parts.answer))

(* drain_complete_inline_think                                             *)
DrainThink(z) ==
  IF SplitThink(z.buffer) = Absent THEN Step(z, <<>>)
  ELSE Told([z EXCEPT !.mode = "Text", !.buffer = <<>>], SplitThink(z.buffer))

(* flush_inline_think_at_boundary                                          *)
FlushThink(z) ==
  LET y == [z EXCEPT !.mode = "Text", !.buffer = <<>>]
      rest == StripOpenTag(z.buffer)
  IN CASE z.mode = "Text" -> Step(z, <<>>)
       [] z.mode = "Detecting" ->
            IF z.buffer = <<>> THEN Step(y, <<>>)
            ELSE Then(CloseReasoning(y), LAMBDA x : PushText(x, z.buffer))
       [] z.mode = "Reasoning" /\ SplitThink(z.buffer) # Absent -> Told(y, SplitThink(z.buffer))
       [] OTHER ->
            IF rest = <<>> THEN Step(y, <<>>) ELSE Then(PushReasoning(y, rest), CloseReasoning)

(* push_content_delta                                                      *)
PushContent(z, d) ==
  LET y == [z EXCEPT !.buffer = @ \o d]
      p == ThinkPrefix(y.buffer)
  IN IF z.mode = "Text" THEN Then(CloseReasoning(z), LAMBDA x : PushText(x, d))
     ELSE IF z.mode = "Reasoning" THEN DrainThink(y)
     ELSE IF p = "NeedMore" THEN Step(y, <<>>)
     ELSE IF p = "Reasoning" THEN DrainThink([y EXCEPT !.mode = "Reasoning"])
     ELSE Then(CloseReasoning([y EXCEPT !.mode = "Text", !.buffer = <<>>]),
               LAMBDA x : PushText(x, y.buffer))

-----------------------------------------------------------------------------
(* Tool calls.                                                             *)

(* append_reasoning_to_active_tools                                        *)
AppendReasoning(z, d) ==
  IF IsBlank(d) THEN z
  ELSE [z EXCEPT !.tools = [k \in DOMAIN z.tools |->
         LET t == z.tools[k]
         IN IF t.done THEN t
            ELSE [t EXCEPT !.why = IF @ = <<>> THEN TrimStart(d) ELSE @ \o d]]]

Put(f, key, value) == [y \in DOMAIN f \cup {key} |-> IF y = key THEN value ELSE f[y]]

(* Mutant of PushTool: the arguments that came before the name are not   *)
(* sent when the item is added.                                            *)
PushToolLate(z, c, why) ==
  LET old == IF c.key \in DOMAIN z.tools THEN z.tools[c.key] ELSE NewTool
      t == [old EXCEPT !.call = IF c.id THEN "given" ELSE @,
                       !.name = IF c.name # Absent THEN c.name ELSE @, !.args = @ \o c.args,
                       !.why = IF @ = <<>> THEN Trim(why) ELSE @]
      add == ~t.added /\ t.call # Absent /\ t.name # Absent
      u == IF add THEN [t EXCEPT !.added = TRUE, !.index = z.next] ELSE t
      sent == IF u.added THEN c.args ELSE <<>>
  IN Step([z EXCEPT !.tools = Put(@, c.key, u), !.next = IF add THEN @ + 1 ELSE @],
          (IF add THEN <<Ev("item.added", Tool(c.key), u.index, <<>>)>> ELSE <<>>)
          \o (IF sent # <<>> /\ u.name \notin CustomTools
              THEN <<Ev("delta", Tool(c.key), u.index, sent)>> ELSE <<>>))

(* push_tool_call_delta: the item is added once it has an id and a name,   *)
(* with the arguments that have come until then.                           *)
PushTool(z, c, why) ==
  LET old == IF c.key \in DOMAIN z.tools THEN z.tools[c.key] ELSE NewTool
      t == [old EXCEPT !.call = IF c.id THEN "given" ELSE @,
                       !.name = IF c.name # Absent THEN c.name ELSE @, !.args = @ \o c.args,
                       !.why = IF @ = <<>> THEN Trim(why) ELSE @]
      add == ~t.added /\ t.call # Absent /\ t.name # Absent
      u == IF add THEN [t EXCEPT !.added = TRUE, !.index = z.next] ELSE t
      sent == IF add THEN u.args ELSE IF u.added THEN c.args ELSE <<>>
  IN Step([z EXCEPT !.tools = Put(@, c.key, u), !.next = IF add THEN @ + 1 ELSE @],
          (IF add THEN <<Ev("item.added", Tool(c.key), u.index, <<>>)>> ELSE <<>>)
          \o (IF sent # <<>> /\ u.name \notin CustomTools
              THEN <<Ev("delta", Tool(c.key), u.index, sent)>> ELSE <<>>))

PushTools(z, calls, why) ==
  LET pushed[n \in 0 .. Len(calls)] ==
        IF n = 0 THEN Step(z, <<>>)
        ELSE Then(pushed[n - 1], LAMBDA y : PushTool(y, calls[n], why))
  IN  pushed[Len(calls)]

(* One round of finalize_tools: a call without a name is left out, one     *)
(* without an id is given one.                                             *)
CloseTool(z, k) ==
  LET t == z.tools[k]
      add == ~t.added
      u == [t EXCEPT !.done = TRUE, !.added = TRUE, !.index = IF add THEN z.next ELSE @,
                     !.call = IF add /\ @ = Absent THEN "made" ELSE @]
      text == Canonical(t.args)
  IN IF t.done THEN Step(z, <<>>)
     ELSE IF t.name = Absent THEN Step([z EXCEPT !.tools[k].done = TRUE], <<>>)
     ELSE Step([z EXCEPT !.tools[k] = u, !.next = IF add THEN @ + 1 ELSE @,
                         !.output = Append(@, [index |-> u.index, item |-> Tool(k), text |-> text])],
               (IF add THEN <<Ev("item.added", Tool(k), u.index, <<>>)>> ELSE <<>>)
               \o (IF t.name \in CustomTools THEN <<Ev("delta", Tool(k), u.index, text)>> ELSE <<>>)
               \o <<Ev("text.done", Tool(k), u.index, text), Ev("item.done", Tool(k), u.index, text)>>)

(* finalize_tools, in the order of the chat indexes                        *)
CloseTools(z) ==
  LET closed[n \in 0 .. MaxCalls] ==
        IF n = 0 THEN Step(z, <<>>)
        ELSE IF n - 1 \in DOMAIN z.tools THEN Then(closed[n - 1], LAMBDA y : CloseTool(y, n - 1))
        ELSE closed[n - 1]
  IN  closed[MaxCalls]

-----------------------------------------------------------------------------
(* The whole stream.                                                       *)

(* handle_chat_chunk                                                       *)
HandleChunk(z, c) ==
  LET thought == IF c.why = <<>> THEN EnsureStarted(z)
                 ELSE Then(Then(EnsureStarted(z), LAMBDA y : PushReasoning(y, c.why)),
                           LAMBDA y : Step(AppendReasoning(y, c.why), <<>>))
      said == Then(thought, LAMBDA y : IF c.content = <<>> THEN Step(y, <<>>)
                                       ELSE PushContent(y, c.content))
      called == IF c.calls = <<>> THEN said
                ELSE LET flushed == Then(said, FlushThink)
                     IN Then(Then(flushed, CloseReasoning),
                             LAMBDA y : PushTools(y, c.calls, Trim(flushed.s.reasoning.text)))
  IN IF c.finish = Absent THEN called ELSE Step([called.s EXCEPT !.finish = c.finish], called.out)

(* completed_output_items: sorted by their indexes.                        *)
CompletedOutput(z) ==
  LET sorted[n \in 0 .. z.next] ==
        IF n = 0 THEN <<>>
        ELSE IF \E j \in DOMAIN z.output : z.output[j].index = n - 1
        THEN Append(sorted[n - 1], CHOOSE e \in Range(z.output) : e.index = n - 1)
        ELSE sorted[n - 1]
  IN  sorted[z.next]

(* Mutant of Finalize: it may be run again.                              *)
FinalizeAgain(z) ==
  LET r == Then(Then(Then(Then(EnsureStarted(z), FlushThink), CloseReasoning), CloseText), CloseTools)
      status == IF z.finish = "length" THEN "incomplete" ELSE "completed"
  IN Step([r.s EXCEPT !.completed = TRUE],
          Append(r.out, [type |-> "completed", item |-> Response, index |-> 0,
                         text |-> <<>>, status |-> status, output |-> CompletedOutput(r.s)]))

(* finalize                                                                *)
Finalize(z) ==
  LET r == Then(Then(Then(Then(EnsureStarted(z), FlushThink), CloseReasoning), CloseText), CloseTools)
      status == IF z.finish = "length" THEN "incomplete" ELSE "completed"
  IN IF z.completed THEN Step(z, <<>>)
     ELSE Step([r.s EXCEPT !.completed = TRUE],
               Append(r.out, [type |-> "completed", item |-> Response, index |-> 0,
                              text |-> <<>>, status |-> status, output |-> CompletedOutput(r.s)]))

(* failed_event                                                            *)
Failed(z) ==
  Step([z EXCEPT !.completed = TRUE],
       <<[type |-> "failed", item |-> Response, index |-> 0, text |-> <<>>,
          status |-> "failed", output |-> CompletedOutput(z)]>>)

(* has_substantive_output                                                  *)
HasOutput(z) ==
  \/ ~IsBlank(z.message.text) \/ ~IsBlank(z.reasoning.text) \/ ~IsBlank(z.buffer)
  \/ z.output # <<>>
  \/ \E k \in DOMAIN z.tools :
       LET t == z.tools[k]
       IN t.added \/ t.call # Absent \/ t.name # Absent \/ ~IsBlank(t.args) \/ ~IsBlank(t.why)

(* chat_completion_to_response_with_context: the items an answer received  *)
(* in one piece is converted to.  A thought in the content counts if there *)
(* is no reasoning field.                                                  *)
WholeOutput(m) ==
  LET parts == SplitThink(m.content)
      why == IF m.why # <<>> \/ parts = Absent THEN m.why ELSE parts.why
      text == IF parts = Absent THEN m.content ELSE parts.answer
  IN (IF why = <<>> THEN {} ELSE {[item |-> Reasoning, text |-> why]})
     \cup (IF text = <<>> THEN {} ELSE {[item |-> Message, text |-> text]})
     \cup {[item |-> Tool(k), text |-> Canonical(m.calls[k].args)] :
            k \in {j \in DOMAIN m.calls : m.calls[j].name # Absent}}

(* The end of the upstream body: a stream cut off after some output is     *)
(* completed as one that ran into its length.                              *)
AtEnd(z) ==
  IF z.completed \/ z.finish # Absent THEN Finalize(z)
  ELSE IF HasOutput(z) THEN Finalize([z EXCEPT !.finish = "length"])
  ELSE Failed(z)

Yield(r) == s' = r.s /\ events' = events \o r.out

StreamInit == s = NewState /\ events = <<>> /\ phase = "open" /\ received = <<>>

(* A data block with a JSON object without an error.                       *)
Chunk(c) ==
  /\ phase = "open" /\ Len(received) < MaxChunks
  /\ Yield(HandleChunk(s, c))
  /\ received' = Append(received, c)
  /\ UNCHANGED phase

(* data: [DONE]                                                            *)
Done ==
  /\ phase = "open" /\ Len(received) < MaxChunks
  /\ Yield(Finalize(s))
  /\ received' = Append(received, Absent)
  /\ UNCHANGED phase

(* An error object, or an upstream body that breaks off with an error.     *)
Error ==
  /\ phase = "open"
  /\ Yield(Failed(s))
  /\ phase' = "failed"
  /\ UNCHANGED received

EndOfBody ==
  /\ phase = "open"
  /\ Yield(AtEnd(s))
  /\ phase' = "ended"
  /\ UNCHANGED received

StreamNext == (\E c \in Chunks : Chunk(c)) \/ Done \/ Error \/ EndOfBody

StreamSpec == StreamInit /\ [][StreamNext]_streamVars

-----------------------------------------------------------------------------
(* PROPERTIES *)

(* A list before the first of some of its places.                          *)
Before(list, places) == IF places = {} THEN list ELSE SubSeq(list, 1, Min(places) - 1)

(* What the client has seen until the response was completed or failed.    *)
Terminal == {"completed", "failed"}
Answer == Before(events, {i \in DOMAIN events : events[i].type \in Terminal})

(* The chunks before the first [DONE], and the deltas of calls in them.    *)
Said == Before(received, {i \in DOMAIN received : received[i] = Absent})
CallsIn(chunks) == UNION {Range(chunks[i].calls) : i \in DOMAIN chunks}

(* The text a client puts together from the deltas of an item.             *)
Shown(evs, item) ==
  LET text[n \in 0 .. Len(evs)] ==
        IF n = 0 THEN <<>>
        ELSE IF evs[n].type = "delta" /\ evs[n].item = item THEN text[n - 1] \o evs[n].text
        ELSE text[n - 1]
  IN  text[Len(evs)]

(* A client puts each item together from its events, so they must come in  *)
(* order: an item is added once, under an index of its own, before         *)
(* anything is said of it under that index, it is done at most once, and   *)
(* the response completes at most once.  push_* and finalize_* run in an   *)
(* order the upstream decides.                                             *)
ItemsInOrder ==
  /\ \A i \in DOMAIN Answer : Answer[i].item # Response =>
       \E a \in 1 .. i : /\ Answer[a].type = "item.added" /\ Answer[a].item = Answer[i].item
                        /\ Answer[a].index = Answer[i].index
  /\ \A i, j \in DOMAIN Answer : i # j /\ Answer[i].type = Answer[j].type =>
       /\ Answer[i].type = "item.added" =>
            Answer[i].item # Answer[j].item /\ Answer[i].index # Answer[j].index
       /\ Answer[i].type = "item.done" => Answer[i].item # Answer[j].item
  /\ \A i, j \in DOMAIN events :
       events[i].type = "completed" /\ events[j].type = "completed" => i = j

(* A call whose name changes between that of a custom tool and another.    *)
Renamed(deltas, k) ==
  \E c, d \in deltas :
    /\ c.key = k /\ c.name \in CustomTools
    /\ d.key = k /\ d.name \notin CustomTools \cup {Absent}

(* An item of the completed response has the text the client was shown.    *)
SaysTheSame(entry, shown, deltas) ==
  IF entry.item = Reasoning THEN IsPrefix(entry.text, shown)
  ELSE IF entry.item = Message THEN entry.text = shown
  ELSE \E k \in 0 .. MaxCalls - 1 :
         /\ entry.item = Tool(k)
         /\ \/ entry.text = Canonical(shown)
            \/ shown = <<>> /\ \A d \in deltas : d.key = k => ~d.id
            \/ Renamed(deltas, k)

(* What the client put together from the deltas is what the completed      *)
(* response says: every item it was shown is listed, in the order of the   *)
(* indexes, with the same text.  Reasoning that goes on after other output *)
(* has begun is sent but not listed (see README); a call that never got an *)
(* id has no deltas; and of one that is renamed the deltas are of both     *)
(* kinds.  And it has the status "completed" only if the upstream said     *)
(* that it was finished: an answer that broke off is not reported as a     *)
(* whole one.                                                              *)
CompletedSaysTheSame ==
  \A i \in DOMAIN events : events[i].type = "completed" =>
    LET listed == events[i].output
        deltas == CallsIn(Said)
    IN /\ {Answer[j].item : j \in {a \in DOMAIN Answer : Answer[a].type = "item.added"}}
            = {listed[j].item : j \in DOMAIN listed}
       /\ \A j, k \in DOMAIN listed : j < k => listed[j].index < listed[k].index
       /\ \A j \in DOMAIN listed :
            SaysTheSame(listed[j], Shown(Answer, listed[j].item), deltas)
       /\ events[i].status = "completed" =>
            \E j \in DOMAIN received : received[j] = Absent \/ received[j].finish # Absent

(* What the chunks before the first [DONE] carry in all.                   *)
WholeAnswer ==
  LET deltas == FlattenSeq([i \in DOMAIN Said |-> Said[i].calls])
      Call(k) == SelectSeq(deltas, LAMBDA d : d.key = k)
      Names(k) == {Call(k)[i].name : i \in DOMAIN Call(k)} \ {Absent}
  IN [why |-> FlattenSeq([i \in DOMAIN Said |-> Said[i].why]),
      content |-> FlattenSeq([i \in DOMAIN Said |-> Said[i].content]),
      calls |-> [k \in {deltas[i].key : i \in DOMAIN deltas} |->
                   [name |-> IF Names(k) = {} THEN Absent ELSE CHOOSE n \in Names(k) : TRUE,
                    args |-> FlattenSeq([i \in DOMAIN Call(k) |-> Call(k)[i].args])]]]

(* Streams for which the two conversions mean the same: reasoning comes in *)
(* one stretch and as a field or as a tag, which is closed; content does   *)
(* not follow calls.                                                       *)
Comparable ==
  /\ \A i, j, k \in DOMAIN Said :
       i <= j /\ j < k /\ Said[i].why # <<>> /\ (Said[j].content # <<>> \/ Said[j].calls # <<>>)
       => Said[k].why = <<>>
  /\ IsPrefix(Open, TrimStart(WholeAnswer.content)) => WholeAnswer.why = <<>> /\ SplitThink(WholeAnswer.content) # Absent
  /\ \A i, j \in DOMAIN Said : i < j /\ Said[i].calls # <<>> => Said[j].content = <<>>

(* Where the upstream cuts its answer into chunks does not matter: when    *)
(* the body has ended and the response was completed, it lists the items   *)
(* that the conversion of the same answer received in one piece would      *)
(* list.  The two are separate code (streaming_codex_chat.rs and           *)
(* transform_codex_chat.rs).                                               *)
CutsDoNotMatter ==
  phase = "ended" /\ Comparable =>
    \A i \in DOMAIN events : events[i].type = "completed" =>
      {[item |-> events[i].output[j].item, text |-> events[i].output[j].text] :
         j \in DOMAIN events[i].output} = WholeOutput(WholeAnswer)
=============================================================================

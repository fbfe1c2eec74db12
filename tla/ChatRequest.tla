------------------------------ MODULE ChatRequest ------------------------------
(***************************************************************************)
(* The conversion of a Responses request into a Chat Completions request,  *)
(* and of the tools a Chat model calls back into Responses items           *)
(* (src/src-tauri/src/proxy/transform_codex_chat.rs).                      *)
(*                                                                         *)
(* The client keeps the conversation and sends all of it with every turn;  *)
(* the proxy keeps nothing and converts it anew.  What one turn sends must *)
(* therefore agree with what the turn before it sent.                      *)
(*                                                                         *)
(* A tool's name is a sequence of words, so that "a__b" may be a function  *)
(* of its own or the function "b" of the namespace "a".  Thoughts and      *)
(* texts are single words.                                                 *)
(***************************************************************************)
EXTENDS Naturals, Sequences, SequencesExt

CONSTANTS
  Offers,     \* the lists of tools a client may offer
  Loadable,   \* a tool the search tool may load
  Contents,   \* the contents of a user's message: sequences of parts
  Thoughts,   \* the thoughts of a model
  Efforts,    \* what a client may ask of the model's reasoning: an effort,
              \* "unsaid" in an object without one, "null" instead of an object
  Instructions, \* what it tells the model before the conversation: texts
  MaxItems,   \* bound on the conversation
  None

VARIABLES
  offered,    \* the tools of the client
  items,      \* the conversation, as the client keeps it
  open,       \* the calls without an output
  parted,     \* a message came between a call and its output (history)
  request     \* the last Chat request

requestVars == <<offered, items, open, parted, request>>

-----------------------------------------------------------------------------
(* CodexToolContext: the tools by their chat names, first come first       *)
(* served.                                                                 *)

Search == <<"tool_search">>

(* flatten_namespace_tool_name; the digest that shortens a long name is    *)
(* taken to be unique.                                                     *)
Flat(space, name) == space \o <<"__">> \o name

ChatName(space, name) == IF space = None THEN name ELSE Flat(space, name)

(* The specifications a tool of the request stands for.                    *)
Specs(tool) ==
  IF tool.kind = "namespace"
  THEN [i \in DOMAIN tool.children |->
          [kind |-> "namespace", space |-> tool.name, name |-> tool.children[i]]]
  ELSE <<[kind |-> tool.kind, space |-> None, name |-> tool.name]>>

(* add_chat_tool                                                           *)
AddTool(context, spec) ==
  LET chat == ChatName(spec.space, spec.name)
  IN IF chat = <<>> \/ \E i \in DOMAIN context : context[i].chat = chat THEN context
     ELSE Append(context, [chat |-> chat, spec |-> spec])

Loads(conversation) ==
  FlattenSeq([i \in DOMAIN conversation |->
    IF conversation[i].type = "output" THEN conversation[i].loads ELSE <<>>])

(* build_codex_tool_context_from_request: the tools of the request, then   *)
(* those a search in the conversation has found.                           *)
Context(tools, conversation) ==
  LET all == tools \o Loads(conversation)
  IN FoldLeft(AddTool, <<>>, FlattenSeq([i \in DOMAIN all |-> Specs(all[i])]))

Lookup(context, chat) == SelectInSeq(context, LAMBDA e : e.chat = chat)

(* response_tool_call_item_from_chat_name                                  *)
Restore(context, chat) ==
  LET spec == context[Lookup(context, chat)].spec
  IN CASE Lookup(context, chat) = 0 -> [kind |-> "function", space |-> None, name |-> chat]
       [] spec.kind = "search" -> [kind |-> "search", space |-> None, name |-> Search]
       [] spec.kind = "custom" -> [kind |-> "custom", space |-> None, name |-> spec.name]
       [] OTHER -> [kind |-> "function", space |-> spec.space, name |-> spec.name]

(* responses_*_call_to_chat_tool_call: the name a call of the conversation *)
(* has in a Chat request.  The name the context recorded for a function of *)
(* a namespace is always the flattened one.                                *)
CallBack(item) ==
  [id |-> item.id,
   name |-> IF item.kind = "search" THEN Search
            ELSE IF item.kind = "custom" THEN item.name
            ELSE ChatName(item.space, item.name)]

(* responses_tool_choice_to_chat; the choice names a tool by its           *)
(* specification.                                                          *)
Choice(spec) ==
  IF spec.kind = "search" THEN Search
  ELSE IF spec.kind = "custom" THEN spec.name ELSE ChatName(spec.space, spec.name)

-----------------------------------------------------------------------------
(* Messages.                                                               *)

Msg(role, content) == [role |-> role, content |-> content, why |-> <<>>, calls |-> <<>>, id |-> None]

(* responses_content_to_chat_content: parts of text alone are joined.      *)
Content(parts) ==
  LET known == SelectSeq(parts, LAMBDA p : p.type \in {"text", "image", "file", "audio"} /\ p.text # "")
  IN [joined |-> \A i \in DOMAIN known : known[i].type = "text", parts |-> known]

(* responses_role_to_chat_role                                             *)
Role(role) ==
  CASE role = "assistant" -> "assistant"
    [] role \in {"system", "developer", "latest_reminder"} -> "system"
    [] role = "tool" -> "tool"
    [] OTHER -> "user"

(* What append_responses_item_as_chat_message carries from item to item.   *)
Pending == [messages |-> <<>>, calls |-> <<>>, why |-> <<>>]

(* append_unique_pending_reasoning                                         *)
AddThought(z, thought) ==
  IF thought = None \/ thought \in Range(z.why) THEN z ELSE [z EXCEPT !.why = Append(@, thought)]

(* flush_pending_tool_calls                                                *)
Flush(z) ==
  IF z.calls = <<>> THEN z
  ELSE [messages |-> Append(z.messages, [Msg("assistant", Content(<<>>)) EXCEPT !.calls = z.calls, !.why = z.why]),
        calls |-> <<>>, why |-> <<>>]

ToolMessage(id) == [Msg("tool", Content(<<>>)) EXCEPT !.id = id]

(* A message of the conversation; the pending thoughts are an assistant's. *)
AddMessage(z, item) ==
  LET m == Msg(Role(item.role), Content(item.parts))
  IN IF m.role = "assistant"
     THEN [z EXCEPT !.messages = Append(@, [m EXCEPT !.why = z.why]), !.why = <<>>]
     ELSE [z EXCEPT !.messages = Append(@, m)]

(* Mutant of AppendItem: an output does not flush the calls before it.   *)
AppendItemUnflushed(z, item) ==
  CASE item.type = "call" -> [AddThought(z, item.why) EXCEPT !.calls = Append(@, CallBack(item))]
    [] item.type = "output" -> [z EXCEPT !.messages = Append(@, ToolMessage(item.id))]
    [] item.type = "reasoning" -> AddThought(z, item.why)
    [] OTHER -> AddMessage(Flush(z), item)

(* append_responses_item_as_chat_message                                   *)
AppendItem(z, item) ==
  CASE item.type = "call" -> [AddThought(z, item.why) EXCEPT !.calls = Append(@, CallBack(item))]
    [] item.type = "output" -> LET y == Flush(z) IN [y EXCEPT !.messages = Append(@, ToolMessage(item.id))]
    [] item.type = "reasoning" -> AddThought(z, item.why)
    [] OTHER -> AddMessage(Flush(z), item)

(* ensure_tool_call_reasoning_content                                      *)
Backfill(m) ==
  IF m.role = "assistant" /\ m.calls # <<>> /\ m.why = <<>> THEN [m EXCEPT !.why = <<"tool call">>] ELSE m

(* Mutant of Messages: a thought that is left belongs to the last answer.*)
MessagesLookingBack(conversation) ==
  LET z == Flush(FoldLeft(AppendItem, Pending, conversation))
      last == SelectLastInSeq(z.messages, LAMBDA m : m.role = "assistant")
  IN [i \in DOMAIN z.messages |->
        Backfill([z.messages[i] EXCEPT !.why = IF i = last THEN @ \o z.why ELSE @])]

(* append_responses_input_as_chat_messages; a thought that is left at the  *)
(* end is dropped.                                                         *)
Messages(conversation) ==
  LET z == Flush(FoldLeft(AppendItem, Pending, conversation))
  IN [i \in DOMAIN z.messages |-> Backfill(z.messages[i])]

(* collapse_system_messages_to_head                                        *)
IsSystemText(m) == m.role = "system" /\ m.content.joined
Collapse(messages) ==
  [system |-> FlattenSeq([i \in DOMAIN messages |->
                IF IsSystemText(messages[i]) THEN messages[i].content.parts ELSE <<>>]),
   rest |-> SelectSeq(messages, LAMBDA m : ~IsSystemText(m))]

-----------------------------------------------------------------------------
(* Reasoning options.                                                      *)

Off == {"none", "off", "disabled", "null"}

(* map_reasoning_effort, for a model of which nothing else is known.       *)
MapEffort(effort) ==
  CASE effort \in {"minimal", "low"} -> "low"
    [] effort \in {"high", "max", "xhigh"} -> "high"
    [] OTHER -> "medium"

(* apply_reasoning_options: whether the model is told to think, and how    *)
(* hard; None is left out.  No caller in the program passes a              *)
(* configuration, so it depends only on whether the model takes efforts.   *)
ReasoningOptions(effort, supports) ==
  IF effort = None \/ ~supports THEN [thinking |-> None, effort |-> None]
  ELSE IF effort \in Off THEN [thinking |-> "disabled", effort |-> None]
  ELSE [thinking |-> "enabled", effort |-> IF effort = "unsaid" THEN None ELSE MapEffort(effort)]

-----------------------------------------------------------------------------
(* responses_to_chat_completions_with_reasoning: the instructions are the  *)
(* first of the system texts.                                              *)

Convert(tools, conversation, choice, effort, supports) ==
  LET context == Context(tools, conversation)
      sorted == Collapse(Messages(conversation))
  IN [system |-> Instructions \o sorted.system, messages |-> sorted.rest, tools |-> context,
      choice |-> IF context = <<>> \/ choice = None THEN None ELSE Choice(choice),
      options |-> ReasoningOptions(effort, supports)]

-----------------------------------------------------------------------------
(* The conversation.  A model answers in items of any order: a provider    *)
(* that speaks Responses may have answered the turns before this one.      *)

(* The client asks for none of its tools, or for one.                      *)
Asked(tools) == {None} \cup UNION {Range(Specs(tools[i])) : i \in DOMAIN tools}

RequestInit ==
  /\ offered \in Offers
  /\ items = <<>> /\ open = <<>> /\ parted = FALSE /\ request = None

Add(item) == Len(items) < MaxItems /\ items' = Append(items, item)

Speaks(role, parts) ==
  /\ Add([type |-> "message", role |-> role, parts |-> parts])
  /\ parted' = (parted \/ open # <<>>)
  /\ UNCHANGED <<offered, open, request>>

UserSpeaks(parts) == open = <<>> /\ Speaks("user", parts)
DeveloperSpeaks == Speaks("developer", <<[type |-> "text", text |-> "rule"]>>)
ModelSpeaks == Speaks("assistant", <<[type |-> "text", text |-> "said"]>>)

Answering == open # <<>> => items[Len(items)].type # "output"

ModelThinks(thought) ==
  /\ Answering
  /\ Add([type |-> "reasoning", why |-> thought])
  /\ UNCHANGED <<offered, open, parted, request>>

(* The model calls a tool by the name it was sent; the client gets the     *)
(* tool it offered under that name.                                        *)
ModelCalls(i, thought) ==
  LET call == Restore(request.tools, request.tools[i].chat)
  IN /\ Answering
     /\ Add([type |-> "call", id |-> Len(items), why |-> thought, chat |-> request.tools[i].chat,
             kind |-> call.kind, space |-> call.space, name |-> call.name])
     /\ open' = Append(open, Len(items))
     /\ UNCHANGED <<offered, parted, request>>

(* The client answers its calls in any order.                              *)
ClientAnswers(i, loads) ==
  /\ loads # <<>> => items[open[i] + 1].kind = "search"
  /\ Add([type |-> "output", id |-> open[i], loads |-> loads])
  /\ open' = RemoveAt(open, i)
  /\ UNCHANGED <<offered, parted, request>>

Send(choice, effort, supports) ==
  /\ open = <<>> /\ items # <<>>
  /\ request' = Convert(offered, items, choice, effort, supports)
  /\ UNCHANGED <<offered, items, open, parted>>

RequestNext ==
  \/ \E parts \in Contents : UserSpeaks(parts)
  \/ DeveloperSpeaks
  \/ ModelSpeaks
  \/ \E thought \in Thoughts : ModelThinks(thought)
  \/ \E thought \in Thoughts \cup {None} :
       request # None /\ \E i \in DOMAIN request.tools : ModelCalls(i, thought)
  \/ \E i \in DOMAIN open, loads \in {<<>>, <<Loadable>>} : ClientAnswers(i, loads)
  \/ \E choice \in Asked(offered), effort \in Efforts \cup {None}, supports \in BOOLEAN :
       Send(choice, effort, supports)

RequestSpec == RequestInit /\ [][RequestNext]_requestVars

-----------------------------------------------------------------------------
(* PROPERTIES *)

ToolNames(r) == {r.tools[i].chat : i \in DOMAIN r.tools}
CallOf(id) == items[SelectInSeq(items, LAMBDA it : it.type = "call" /\ it.id = id)]

(* A Chat provider refuses a request whose tool messages do not follow the *)
(* assistant message with their call, or that calls a tool by a name that  *)
(* is not offered or offered twice.  Each call of the conversation is sent *)
(* under the name the model called it by, though in between it was a       *)
(* function of a namespace, a custom tool or a search; and a tool the      *)
(* client asks for is one that is sent.  (A message the client puts        *)
(* between a call and its output does part them; see README.)              *)
ToolsPairUp ==
  request # None =>
    LET m == request.messages
    IN /\ \A i, j \in DOMAIN request.tools :
            i # j => request.tools[i].chat # request.tools[j].chat
       /\ \A i \in DOMAIN m : \A k \in DOMAIN m[i].calls :
            /\ m[i].calls[k].name = CallOf(m[i].calls[k].id).chat
            /\ m[i].calls[k].name \in ToolNames(request)
       /\ \A i \in DOMAIN m : m[i].role = "tool" /\ ~parted =>
            \E j \in 1 .. i - 1 :
              /\ \A k \in j + 1 .. i : m[k].role = "tool"
              /\ \E k \in DOMAIN m[j].calls : m[j].calls[k].id = m[i].id
       /\ request.choice # None => request.choice \in ToolNames(request)

(* The provider's prefix cache holds what the turn before sent, so a turn  *)
(* must begin as the turn before it did: its messages and tools (they are  *)
(* sorted later) are those and more, and the system text, which is lifted  *)
(* to the head, grows only by what was said since.  A thought goes to an   *)
(* answer that is yet to come and never to one that was sent.              *)
ConversationOnlyGrows ==
  [][request # None =>
       /\ IsPrefix(request.messages, request'.messages)
       /\ ToolNames(request) \subseteq ToolNames(request')
       /\ IsPrefix(request.system, request'.system)]_requestVars
=============================================================================

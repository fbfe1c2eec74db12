------------------------------ MODULE PrefixBody ------------------------------
(***************************************************************************)
(* The body of a Responses turn on its way out                             *)
(* (src/src-tauri/src/proxy/mod.rs 8774-10966, session_identity.rs): the   *)
(* normal form of a request, the ids of its calls, what is stripped, the   *)
(* identity of its conversation and the order on the wire.  A provider     *)
(* caches what it was sent byte by byte, so all of this is there to make   *)
(* one turn begin as the turn before it did, however the client spells its *)
(* request this time.  A stream that Codex asks of a provider of Responses *)
(* is native: it is sent as Codex wrote it, with the proxy's cache key.    *)
(*                                                                         *)
(* JSON objects have no order here: sorting their keys is the identity.  A *)
(* tool's name is a number, its place in the order of the names.           *)
(***************************************************************************)
EXTENDS Naturals, Sequences, SequencesExt, Functions, FiniteSets, TLC

CONSTANTS
  Tools,      \* what a client may offer: [name, params]
  Texts,      \* what is said, called with and answered
  Rules,      \* the instructions of the client
  Threads,    \* what a client may call its conversation; None: it does not
  Spellings,  \* how it writes a request: [ids, content, json, noise, effort]
  MaxTalk,    \* bound on the conversation
  None

VARIABLES
  thread,     \* the client's name of the conversation
  talk,       \* the conversation, free of spelling
  offered,    \* the tools the client offers
  outbound    \* the last turn that was sent

bodyVars == <<thread, talk, offered, outbound>>

-----------------------------------------------------------------------------
(* What the client writes.                                                 *)

Instruction == {"system", "developer"}

(* One item; the client numbers its calls, in the provider's numbers or    *)
(* its own.  A json value is written in one of several ways; a content is  *)
(* a text, or blocks, which are input or output by who says them.          *)
Block(role) == IF role = "assistant" THEN "output_text" ELSE "input_text"

Spell(item, p) ==
  CASE item.type = "message" ->
         [type |-> IF p.content = "text" THEN None ELSE "message", role |-> item.role,
          content |-> <<IF p.content = "text" THEN "text" ELSE Block(item.role), item.text>>,
          id |-> p.noise]
    [] item.type = "call" ->
         [type |-> "function_call", call |-> <<p.ids, item.call>>, name |-> item.name,
          arguments |-> <<p.json, item.text>>, id |-> p.noise, status |-> p.noise]
    [] item.type = "output" ->
         [type |-> "function_call_output", call |-> <<p.ids, item.call>>,
          output |-> <<p.json, item.text>>, id |-> p.noise]

Written(items, tools, p) ==
  [instructions |-> <<Rules>>, input |-> [i \in DOMAIN items |-> Spell(items[i], p)],
   tools |-> tools, effort |-> p.effort, metadata |-> p.noise]

-----------------------------------------------------------------------------
(* normalize_responses_request                                             *)

(* promote_responses_instruction_input: the texts of the instructions in   *)
(* the input, and the input without them.                                  *)
IsInstruction(item) == "role" \in DOMAIN item /\ item.role \in Instruction
Promoted(input) ==
  LET said == SelectSeq(input, IsInstruction) IN [i \in DOMAIN said |-> said[i].content[2]]
Retained(input) == SelectSeq(input, LAMBDA item : ~IsInstruction(item))

(* append_instructions                                                     *)
AppendInstructions(existing, promoted) ==
  IF promoted = <<>> \/ promoted = existing THEN existing ELSE existing \o promoted

(* normalize_content_blocks: a text becomes a block of input, whoever said *)
(* it; blocks stay as they are.                                            *)
NormalContent(content) ==
  IF content[1] = "text" THEN <<"input_text", content[2]>> ELSE content

(* normalize_responses_input, normalize_json_string                        *)
NormalItem(item) ==
  CASE "role" \in DOMAIN item ->
         [item EXCEPT !.type = "message", !.content = NormalContent(@)]
    [] item.type = "function_call" -> [item EXCEPT !.arguments = <<"canonical", @[2]>>]
    [] item.type = "function_call_output" -> [item EXCEPT !.output = <<"canonical", @[2]>>]

(* normalize_tool_definitions                                              *)
SortedTools(tools) == SortSeq(tools, LAMBDA a, b : a.name < b.name)

Normalize(r) ==
  LET kept == Retained(r.input)
  IN [r EXCEPT !.instructions = AppendInstructions(@, Promoted(r.input)),
               !.input = [i \in DOMAIN kept |-> NormalItem(kept[i])],
               !.tools = SortedTools(@)]

-----------------------------------------------------------------------------
(* stabilize_responses_provider_prefix                                     *)

(* strip_responses_provider_noise takes these keys out wherever they are,  *)
(* the parameters of a tool included.                                      *)
Noisy == {"id", "status", "metadata", "created_at"}
Strip(item) == Restrict(item, DOMAIN item \ Noisy)
StripTool(tool) == [tool EXCEPT !.params = @ \ Noisy]

IsCall(item) == item.type = "function_call"

(* stable_function_call_payload                                            *)
Payload(item) == Restrict(Strip(item), DOMAIN Strip(item) \ {"call"})

(* Mutant of StableId: equal calls have one id.                          *)
StableIdBare(input, i) == <<"apx", Payload(input[i]), 0>>

(* deterministic_call_id: the call, and how many like it came before.      *)
StableId(input, i) ==
  <<"apx", Payload(input[i]),
    Cardinality({j \in 1 .. i - 1 : IsCall(input[j]) /\ Payload(input[j]) = Payload(input[i])})>>

(* stabilize_responses_tool_call_ids: the last call of an id gives the new *)
(* one to what refers to it; an output without its call keeps its id.      *)
StableInput(input) ==
  LET CallsOf(id) == {j \in DOMAIN input : IsCall(input[j]) /\ input[j].call = id}
      LastCall(id) == CHOOSE j \in CallsOf(id) : \A k \in CallsOf(id) : k <= j
  IN [i \in DOMAIN input |->
        IF "call" \notin DOMAIN input[i] THEN input[i]
        ELSE IF IsCall(input[i]) THEN [input[i] EXCEPT !.call = StableId(input, i)]
        ELSE IF CallsOf(input[i].call) = {} THEN input[i]
        ELSE [input[i] EXCEPT !.call = StableId(input, LastCall(@))]]

Stabilize(r) ==
  LET named == StableInput(r.input)
  IN [r EXCEPT !.metadata = None,
               !.input = [i \in DOMAIN named |-> Strip(named[i])],
               !.tools = [i \in DOMAIN @ |-> StripTool(@[i])]]

-----------------------------------------------------------------------------
(* SessionIdentity                                                         *)

(* canonicalize_responses_instruction_shape: the instructions are one text *)
(* and what is promoted another, said once if they are the same.           *)
InstructionShape(r) ==
  LET promoted == Promoted(r.input)
      kept == Retained(r.input)
  IN [r EXCEPT !.instructions = IF promoted \in {<<>>, @} THEN @ ELSE @ \o promoted,
               !.input = [i \in DOMAIN kept |-> NormalItem(kept[i])]]

(* strip_dynamic_invocation_fields                                         *)
WithoutInvocation(r) == [r EXCEPT !.effort = None, !.metadata = None]

(* Mutant of AnchorMaterial: all of the input identifies a conversation. *)
AnchorMaterialWhole(r) == Stabilize(WithoutInvocation(InstructionShape(r)))

(* fallback_anchor_material: the instructions, the tools and the first     *)
(* item.                                                                   *)
AnchorMaterial(r) ==
  LET z == WithoutInvocation(InstructionShape(r))
  IN Stabilize([z EXCEPT !.input = IF @ = <<>> THEN <<>> ELSE <<@[1]>>])

(* fallback_scope_material: those without the input.                       *)
ScopeMaterial(r) == Stabilize([WithoutInvocation(InstructionShape(r)) EXCEPT !.input = <<>>])

(* SessionIdentity::derive_for_agent; the keys are digests of these.       *)
Identity(r, name) ==
  [anchor |-> IF name = None THEN AnchorMaterial(r) ELSE name, scope |-> ScopeMaterial(r)]

-----------------------------------------------------------------------------
(* On the wire.                                                            *)

(* optimize_provider_prefix and apply_session_provider_cache_key           *)
Prepared(r, name) == Stabilize(Normalize(r)) @@ [key |-> Identity(Normalize(r), name).anchor]

(* copy_responses_prefix_cache_fields_for_native_stream: a native stream   *)
(* is neither normalised nor stabilised; its key is derived from what the  *)
(* client wrote.                                                           *)
Native(r, name) == r @@ [key |-> Identity(r, name).anchor]

Outbound(r, name, native) == IF native THEN Native(r, name) ELSE Prepared(r, name)

(* serialize_responses_body_for_provider_prefix: what stays comes first.   *)
Beginning(body) == <<body.key, body.instructions, body.tools>>
Cached(body) == Beginning(body) \o body.input
Wire(body) == Cached(body) \o <<body.effort, body.metadata>>

(* response_session_delta_item_is_needed: not what the provider said.      *)
Needed(item) == ~IsCall(item) /\ ("role" \in DOMAIN item => item.role # "assistant")

(* appended_response_input_delta: the delta is cut out of the body that    *)
(* was made ready to be sent.                                              *)
Delta(body, upto) == SelectSeq(SubSeq(body.input, upto + 1, Len(body.input)), Needed)

-----------------------------------------------------------------------------
(* The conversation.                                                       *)

BodyInit == thread \in Threads /\ talk = <<>> /\ offered = {} /\ outbound = None

Open == {i \in DOMAIN talk : talk[i].type = "call" /\
          \A j \in DOMAIN talk : talk[j].type = "output" => talk[j].call # talk[i].call}

Says(role, text) ==
  /\ Len(talk) < MaxTalk /\ Open = {}
  /\ talk' = Append(talk, [type |-> "message", role |-> role, text |-> text])
  /\ UNCHANGED <<thread, offered, outbound>>

Calls(name, text) ==
  /\ Len(talk) < MaxTalk
  /\ talk' = Append(talk, [type |-> "call", call |-> Len(talk), name |-> name, text |-> text])
  /\ UNCHANGED <<thread, offered, outbound>>

Answers(i, text) ==
  /\ Len(talk) < MaxTalk
  /\ talk' = Append(talk, [type |-> "output", call |-> talk[i].call, text |-> text])
  /\ UNCHANGED <<thread, offered, outbound>>

Offers(tool) ==
  /\ offered' = offered \cup {tool}
  /\ UNCHANGED <<thread, talk, outbound>>

Kept == SelectSeq(talk, LAMBDA item : item.type # "message" \/ item.role \notin Instruction)

(* What of the conversation the input of a turn holds: instructions are    *)
(* taken out of it, but for a native stream.                               *)
Input(native) == IF native THEN talk ELSE Kept

Turn(kind, body, upto, native, tools, p) ==
  [kind |-> kind, body |-> body, from |-> upto, talk |-> Input(native),
   rules |-> Len(talk) - Len(Kept), offered |-> offered,
   native |-> native, tools |-> tools, spelling |-> p]

(* The whole conversation.                                                 *)
SendWhole(native, tools, p) ==
  /\ Open = {} /\ Kept # <<>>
  /\ outbound' = Turn("whole", Outbound(Written(talk, tools, p), thread, native), 0, native, tools, p)
  /\ UNCHANGED <<thread, talk, offered>>

(* The client names the last response itself and sends what came since.    *)
SendReference(native, tools, p) ==
  /\ Open = {} /\ outbound # None /\ outbound.native = native
  /\ LET upto == Len(outbound.talk)
         new == SubSeq(Input(native), upto + 1, Len(Input(native)))
         rest == SelectSeq(new, LAMBDA item : item.type # "call")
     IN /\ rest # <<>>
        /\ outbound' = Turn("reference", Outbound(Written(rest, tools, p), thread, native),
                            upto, native, tools, p)
  /\ UNCHANGED <<thread, talk, offered>>

(* The proxy names the last response and sends what the provider lacks.    *)
SendDelta(native, tools, p) ==
  /\ Open = {} /\ outbound # None /\ outbound.native = native
  /\ LET upto == Len(outbound.talk)
         whole == Outbound(Written(talk, tools, p), thread, native)
     IN /\ Delta(whole, upto) # <<>>
        /\ outbound' = Turn("delta", [whole EXCEPT !.input = Delta(whole, upto)],
                            upto, native, tools, p)
  /\ UNCHANGED <<thread, talk, offered>>

BodyNext ==
  \/ \E role \in {"user", "assistant", "developer"}, text \in Texts : Says(role, text)
  \/ \E text \in Texts, tool \in offered : Calls(tool.name, text)
  \/ \E i \in Open, text \in Texts : Answers(i, text)
  \/ \E tool \in Tools : Offers(tool)
  \/ \E native \in BOOLEAN, tools \in SetToSeqs(offered), p \in Spellings :
       \/ SendWhole(native, tools, p)
       \/ SendReference(native, tools, p)
       \/ SendDelta(native, tools, p)

BodySpec == BodyInit /\ [][BodyNext]_bodyVars

-----------------------------------------------------------------------------
(* PROPERTIES *)

Rest(items) == SelectSeq(items, LAMBDA item : item.type # "call")

(* The items of the conversation a turn has sent.                          *)
SentItems(turn) ==
  IF turn.kind = "whole" THEN turn.talk ELSE Rest(SubSeq(turn.talk, turn.from + 1, Len(turn.talk)))

(* Two turns whose difference is one the proxy means to hide.  In a native *)
(* stream it hides none: the client writes what it wrote, and may change   *)
(* the effort.  Otherwise only an assistant's message is to be written as  *)
(* a text, or as blocks, in both.                                          *)
Alike(t, u) ==
  /\ t.native = u.native /\ t.offered = u.offered /\ t.rules = u.rules
  /\ IF t.native THEN t.tools = u.tools /\ [t.spelling EXCEPT !.effort = u.spelling.effort] = u.spelling
     ELSE \/ t.spelling.content = u.spelling.content
          \/ \A i \in DOMAIN t.talk : t.talk[i].type = "message" => t.talk[i].role # "assistant"

(* A turn begins on the wire as the one before it did: the key, the        *)
(* instructions, the tools and every item it had, in whatever order,       *)
(* spelling, numbering and effort the client sends them this time (Alike). *)
(* That is what the provider's cache is read by.  Instructions and tools   *)
(* that came in between change the beginning and are excepted.             *)
TurnBeginsAsTheLast ==
  [][outbound # None /\ outbound.kind = "whole" /\ outbound'.kind = "whole"
     /\ Alike(outbound, outbound')
     => IsPrefix(Cached(outbound.body), Wire(outbound'.body))]_bodyVars

(* New ids for the calls join the same calls and outputs as the old ones,  *)
(* equal calls included, and an output whose call is not in the request    *)
(* keeps the id the provider knows ("tool output for an upstream-managed   *)
(* prior call", test at mod.rs:16599).  Deltas: see DeltaNamesTheCall.     *)
OutputsKeepTheirCalls ==
  outbound # None /\ outbound.kind # "delta" =>
    LET said == SentItems(outbound)
        input == outbound.body.input
        Joint == {i \in DOMAIN said : said[i].type # "message"}
    IN /\ Len(said) = Len(input)
       /\ \A i, j \in Joint : said[i].call = said[j].call <=> input[i].call = input[j].call
       /\ \A i \in Joint :
            (\A j \in Joint : said[j].type = "output" \/ said[j].call # said[i].call)
            => input[i].call = <<outbound.spelling.ids, said[i].call>>

(* A delta is read after the response it continues, whose calls have the   *)
(* ids the provider gave them and the client repeats: an output in it must *)
(* name its call by the id the client wrote.  It does not, unless the turn *)
(* is a native stream: the ids are replaced in the whole body before the   *)
(* delta is cut out of it.                                                 *)
DeltaNamesTheCall ==
  outbound # None /\ outbound.kind = "delta" =>
    \A i \in DOMAIN outbound.body.input :
      LET item == outbound.body.input[i]
      IN item.type = "function_call_output" =>
           item.call[1] = outbound.spelling.ids
=============================================================================

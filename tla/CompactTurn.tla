----------------------------- MODULE CompactTurn -----------------------------
(***************************************************************************)
(* The compaction of a conversation                                        *)
(* (src/src-tauri/src/proxy/mod.rs 476-1132): a ladder of its own beside   *)
(* that of a generation turn, over three wires, each call of which the     *)
(* transport repeats by itself (mod.rs 8547-8694).  One compaction is      *)
(* followed; what others do to the cooldowns it reads may happen at any    *)
(* time.                                                                   *)
(***************************************************************************)
EXTENDS Naturals, FiniteSets

CONSTANTS
  Statuses,   \* the statuses an upstream answers with
  Undecided

VARIABLES
  ask,          \* what is to be compacted, for which provider
  pc,           \* "new", "encode", "sending", "judge", "read", "done"
  rung,         \* the fallbacks that lie behind
  wire,         \* "compact" (the official endpoint), "responses", "chat", "anthropic"
  key,          \* the key in use, 1 or 2; 0 is a provider without a pool
  call,         \* [packed, attempt]: the call of the transport
  status,       \* of the last answer
  cooledAtStart,  \* the Chat cooldown as it was read at the start
  chatCooled,   \* compact_chat_compat_cooldowns
  gzipCooled,   \* request_body_gzip_cooldowns, by what the wire speaks
  offKeys,      \* the keys that are marked
  stored,       \* the wire whose answer the session was given
  refused,      \* requests that were refused for good (history)
  sends         \* attempts made (history)

turnVars == <<ask, pc, rung, wire, key, call, status, cooledAtStart, stored, refused, sends>>
sharedVars == <<chatCooled, gzipCooled, offKeys>>
compactVars == <<turnVars, sharedVars>>

Wires == {"compact", "responses", "chat", "anthropic"}
Channels == {"responses", "chat", "anthropic"}

(* official: the client names the response; size: 2 is long enough for a   *)
(* Chat request, 1 for one after the official endpoint has failed; packs:  *)
(* compression is on and the body long enough for it.                      *)
CompactAsks == [official : BOOLEAN, upstream : Channels, size : 0 .. 2, packs : BOOLEAN, pool : BOOLEAN]

Failed == 0   \* no answer at all
NoCall == [packed |-> FALSE, attempt |-> 0]

-----------------------------------------------------------------------------
(* Statuses.                                                               *)

Success(s) == s \in 200 .. 299
Retries(s) == s = 408 \/ s >= 500
MaxAttempts == 3
(* max_attempts_for_status                                                 *)
AttemptsFor(s) == IF s = 429 THEN 1 ELSE IF s \in {503, 504} THEN 2 ELSE 3
(* should_retry_without_gzip                                               *)
Unpacks(s) == s \in {400, 415, 501}
(* is_provider_key_failure_status                                          *)
KeyFailure(s) == s \in {401, 402, 403, 429}
(* should_fallback_compact_to_responses                                    *)
LacksEndpoint(s) == s \in {400, 404, 405, 501}

(* What a wire speaks; compression is remembered by it.                    *)
Speaks(w) == IF w = "compact" THEN ask.upstream ELSE w

(* Mutant of ChatGaveUp: whatever the wire was.                          *)
ChatGaveUpAnywhere(s, w) == s \in {429, 500, 502, 503, 504, 520, 524}

(* should_fallback_chat_compat_compact_to_responses                        *)
ChatGaveUp(s, w) == Speaks(w) = "chat" /\ s \in {429, 500, 502, 503, 504, 520, 524}

-----------------------------------------------------------------------------
(* The choice of the wire.                                                 *)

(* should_route_responses_compact_via_chat_compat                          *)
LongForChat == ask.upstream = "responses" /\ ask.size = 2
(* should_fallback_official_responses_compact_via_chat_compat              *)
LongForFallback == ask.upstream = "responses" /\ ask.size >= 1

ChatCompat == ~cooledAtStart /\ LongForChat

CompactInit ==
  /\ ask \in CompactAsks
  /\ pc = "new" /\ rung = 0 /\ wire = Undecided /\ key = 0 /\ call = NoCall /\ status = Undecided
  /\ cooledAtStart = FALSE /\ stored = Undecided /\ refused = {} /\ sends = 0
  /\ chatCooled \in BOOLEAN
  /\ gzipCooled = {}
  /\ offKeys = {}

(* Up to the first call: the cooldown is read once, here.                  *)
Begin ==
  /\ pc = "new"
  /\ cooledAtStart' = chatCooled
  /\ wire' = IF ask.official THEN "compact"
             ELSE IF ~chatCooled /\ LongForChat THEN "chat" ELSE ask.upstream
  /\ key' = IF ask.pool THEN 1 ELSE 0
  /\ pc' = "encode"
  /\ UNCHANGED <<ask, rung, call, status, stored, refused, sends, sharedVars>>

-----------------------------------------------------------------------------
(* send_upstream_request_to_url_with_diagnostics                           *)

Request == <<wire, key, call.packed>>

Encode ==
  /\ pc = "encode"
  /\ call' = [packed |-> ask.packs /\ Speaks(wire) \notin gzipCooled, attempt |-> 0]
  /\ pc' = "sending" /\ sends' = sends + 1
  /\ UNCHANGED <<ask, rung, wire, key, status, cooledAtStart, stored, refused, sharedVars>>

Refuses(s) == ~Success(s) /\ ~Retries(s)
RememberRefused(s) == refused' = IF Refuses(s) THEN refused \cup {Request} ELSE refused

Again(packed) ==
  /\ call' = [packed |-> packed, attempt |-> call.attempt + 1]
  /\ sends' = sends + 1
  /\ UNCHANGED <<ask, pc, rung, wire, key, status, cooledAtStart, stored, chatCooled, offKeys>>

(* A refusal of a compressed body: once more without compression, which    *)
(* the provider is then spared for some hours.                             *)
AnswerUnpack(s) ==
  /\ pc = "sending"
  /\ call.packed /\ Unpacks(s) /\ call.attempt + 1 < MaxAttempts
  /\ gzipCooled' = gzipCooled \cup {Speaks(wire)}
  /\ RememberRefused(s)
  /\ Again(FALSE)

Unpackable(s) == call.packed /\ Unpacks(s) /\ call.attempt + 1 < MaxAttempts

AnswerRetry(s) ==
  /\ pc = "sending"
  /\ ~Unpackable(s)
  /\ Retries(s) /\ call.attempt + 1 < AttemptsFor(s)
  /\ UNCHANGED <<refused, gzipCooled>>
  /\ Again(call.packed)

AnswerTaken(s) ==
  /\ pc = "sending"
  /\ ~Unpackable(s)
  /\ ~(Retries(s) /\ call.attempt + 1 < AttemptsFor(s))
  /\ status' = s
  /\ RememberRefused(s)
  /\ pc' = "judge"
  /\ UNCHANGED <<ask, rung, wire, key, call, cooledAtStart, stored, sends, sharedVars>>

NoAnswerRetry ==
  /\ pc = "sending" /\ call.attempt + 1 < MaxAttempts
  /\ UNCHANGED <<refused, gzipCooled>>
  /\ Again(call.packed)

(* The client is told that the upstream failed; no key is marked.          *)
NoAnswerEnd ==
  /\ pc = "sending" /\ call.attempt + 1 = MaxAttempts
  /\ status' = Failed /\ pc' = "done"
  /\ UNCHANGED <<ask, rung, wire, key, call, cooledAtStart, stored, refused, sends, sharedVars>>

-----------------------------------------------------------------------------
(* The fallbacks, each behind the one before it.                           *)

Resend(k, r, w) ==
  /\ key' = k /\ rung' = r /\ wire' = w /\ pc' = "encode"
  /\ UNCHANGED <<ask, call, status, cooledAtStart, stored, refused, sends>>

KeyFails == rung = 0 /\ key # 0 /\ KeyFailure(status)

(* try_retry_with_next_provider_key; agents are not excepted here.         *)
NextKey ==
  /\ pc = "judge" /\ KeyFails
  /\ offKeys' = offKeys \cup {key}
  /\ \/ 2 \notin offKeys /\ Resend(2, 1, wire)
     \/ /\ 2 \in offKeys /\ rung' = 1
        /\ UNCHANGED <<ask, pc, wire, key, call, status, cooledAtStart, stored, refused, sends>>
  /\ UNCHANGED <<chatCooled, gzipCooled>>

OverOther == ~KeyFails /\ rung < 2 /\ wire = "compact" /\ LacksEndpoint(status)

(* The official endpoint is not there: an ordinary turn asks instead.      *)
LeaveOfficial ==
  /\ pc = "judge" /\ OverOther
  /\ Resend(key, 2, IF ~cooledAtStart /\ (ChatCompat \/ LongForFallback) THEN "chat" ELSE ask.upstream)
  /\ UNCHANGED sharedVars

OverResponses == ~KeyFails /\ ~OverOther /\ rung < 3 /\ ChatGaveUp(status, wire)

LeaveChat ==
  /\ pc = "judge" /\ OverResponses
  /\ chatCooled' = TRUE
  /\ Resend(key, 3, ask.upstream)
  /\ UNCHANGED <<gzipCooled, offKeys>>

(* The answer is read; the body of a success may still report an error,    *)
(* and any failure may blame the key.                                      *)
Conclude(error, blames) ==
  /\ pc = "judge" /\ ~KeyFails /\ ~OverOther /\ ~OverResponses
  /\ blames => error
  /\ offKeys' = IF key = 0 THEN offKeys
                ELSE IF Success(status) THEN offKeys \ {key}
                ELSE IF KeyFailure(status) \/ blames THEN offKeys \cup {key} ELSE offKeys
  /\ stored' = IF Success(status) /\ ~error /\ Speaks(wire) = "responses" THEN wire ELSE stored
  /\ pc' = "done"
  /\ UNCHANGED <<ask, rung, wire, key, call, status, cooledAtStart, refused, sends, chatCooled, gzipCooled>>

BodyLost ==
  /\ pc = "judge" /\ ~KeyFails /\ ~OverOther /\ ~OverResponses
  /\ pc' = "done"
  /\ UNCHANGED <<ask, rung, wire, key, call, status, cooledAtStart, stored, refused, sends, sharedVars>>

(* Other turns note cooldowns and marks, and time passes: at any time, but *)
(* what this turn can see of it is what happens before it reads.           *)
Others ==
  /\ \/ /\ pc = "encode" /\ ask.packs
        /\ \E c \in {Speaks(wire)} : gzipCooled' \in {gzipCooled \cup {c}, gzipCooled \ {c}}
        /\ UNCHANGED offKeys
     \/ /\ pc = "judge" /\ rung = 0 /\ key # 0
        /\ \E k \in {1, 2} : offKeys' \in {offKeys \cup {k}, offKeys \ {k}}
        /\ UNCHANGED gzipCooled
  /\ UNCHANGED <<turnVars, chatCooled>>

CompactNext ==
  \/ Begin \/ Encode
  \/ \E s \in Statuses : AnswerUnpack(s) \/ AnswerRetry(s) \/ AnswerTaken(s)
  \/ NoAnswerRetry \/ NoAnswerEnd
  \/ NextKey \/ LeaveOfficial \/ LeaveChat
  \/ \E error, blames \in BOOLEAN : Conclude(error, blames)
  \/ BodyLost \/ Others

CompactSpec == CompactInit /\ [][CompactNext]_compactVars

-----------------------------------------------------------------------------
(* PROPERTIES *)

(* Four fallbacks, each with three attempts of the transport under it,     *)
(* take turns: a request the provider has refused for good is not sent to  *)
(* it again on the same wire, with the same key and the same encoding, and *)
(* twelve attempts are the end.  (A provider that itself speaks Chat is    *)
(* excepted: its 429 leads "back" to the very same request.)               *)
RefusedIsNotRepeated ==
  /\ sends <= 12
  /\ pc = "sending" /\ ask.upstream # "chat" => Request \notin refused
=============================================================================

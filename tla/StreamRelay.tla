----------------------------- MODULE StreamRelay -----------------------------
(***************************************************************************)
(* The relay of one upstream stream (stream_upstream, src/src-tauri/src/   *)
(* proxy/mod.rs 8880-9321): a spawned task reads the body, hands each      *)
(* chunk to the client through a bounded channel, reads the server-sent    *)
(* events in passing (responses_stream.rs, sse.rs), and settles what the   *)
(* turn has taught once the body is over.  The client may read slowly, not *)
(* at all, or leave; the body may end or break off anywhere.               *)
(*                                                                         *)
(* An event takes three pieces of text: its head, with the type, its tail, *)
(* and the line's end.  A chunk is any run of pieces.                      *)
(***************************************************************************)
EXTENDS Naturals, Sequences, SequencesExt

CONSTANTS
  Streams,    \* the answers an upstream may give, sequences of events
  Capacity,   \* STREAM_RELAY_CHANNEL_CAPACITY
  None

Events == {"created", "delta", "completed", "failed", "done"}
ASSUME StreamAssumption == Streams \subseteq Seq(Events)
ASSUME CapacityAssumption == Capacity \in Nat \ {0}
ASSUME NoneAssumption == None \notin {"eof", "broken"}

VARIABLES
  body,      \* the answer the upstream is giving
  written,   \* the pieces it has written
  ending,    \* None, "eof" or "broken"
  relay,     \* the relay task
  channel,   \* downstream_sender to downstream_receiver
  got,       \* what the client has read
  reader,    \* the client: "reading", "stalled" or "gone"
  taught     \* what the turn has left behind

relayVars == <<body, written, ending, relay, channel, got, reader, taught>>

-----------------------------------------------------------------------------
(* ResponsesStreamState                                                    *)

Facts == {"error", "completed", "done", "id", "usage"}   \* StreamSummary

Parts == <<"head", "tail", "end">>
Pieces(b) == [k \in 1 .. 3 * Len(b) |-> <<b[(k + 2) \div 3], Parts[((k + 2) % 3) + 1]>>]

(* What process_line adds to the summary, which never takes anything back. *)
(* What is not whole is not JSON, but the type of an event is found in its *)
(* head.                                                                   *)
Says(line) ==
  LET event == line[1][1]
      whole == Len(line) = 2
  IN {f \in Facts :
        \/ f = "done" /\ event = "done" /\ whole
        \/ f = "completed" /\ event = "completed"
        \/ f = "error" /\ event = "failed" /\ whole
        \/ f = "id" /\ event \in {"created", "completed", "failed"} /\ whole
        \/ f = "usage" /\ event = "completed" /\ whole}

AllSay(lines) == UNION {Says(line) : line \in lines}

(* The lines of a text, and what stands behind the last of them.           *)
Ends(text) == {i \in DOMAIN text : text[i][2] = "end"}
Gaps(text) ==
  {g \in ({0} \cup Ends(text)) \X Ends(text) :
     g[1] < g[2] /\ \A k \in Ends(text) : k <= g[1] \/ g[2] <= k}
Lines(text) == {SubSeq(text, g[1] + 1, g[2] - 1) : g \in Gaps(text)}
LastEnd(text) == CHOOSE i \in {0} \cup Ends(text) : \A k \in Ends(text) : k <= i
Rest(text) == SubSeq(text, LastEnd(text) + 1, Len(text))

(* ingest: the lines that are complete are processed, the rest waits.      *)
Ingest(state, chunk) ==
  LET text == state.pending \o chunk
  IN [pending |-> Rest(text), summary |-> state.summary \cup AllSay(Lines(text))]

(* Mutation of Finish: the last line needs its end.                        *)
FinishDropping(state) == state.summary

(* finish                                                                  *)
Finish(state) == state.summary \cup (IF state.pending = <<>> THEN {} ELSE Says(state.pending))

-----------------------------------------------------------------------------
RelayInit ==
  /\ body \in Streams /\ written = <<>> /\ ending = None
  /\ relay = [pc |-> "reading", taken |-> 0, chunk |-> <<>>, gone |-> FALSE, end |-> None,
              state |-> [pending |-> <<>>, summary |-> {}]]
  /\ channel = <<>> /\ got = <<>> /\ reader = "reading"
  /\ taught = {}

(* The upstream (external).                                                *)
UpstreamWrites ==
  /\ ending = None
  /\ \E n \in Len(written) + 1 .. Len(Pieces(body)) :
       written' = SubSeq(Pieces(body), 1, n)
  /\ UNCHANGED <<body, ending, relay, channel, got, reader, taught>>

UpstreamEnds ==
  /\ ending = None
  /\ ending' \in {"eof", "broken"}
  /\ UNCHANGED <<body, written, relay, channel, got, reader, taught>>

(* stream.next(): what has arrived, as one chunk.                          *)
Take ==
  /\ relay.pc = "reading" /\ relay.taken < Len(written)
  /\ relay' = [relay EXCEPT !.pc = IF relay.gone THEN "observing" ELSE "sending",
                            !.chunk = SubSeq(written, relay.taken + 1, Len(written)),
                            !.taken = Len(written)]
  /\ UNCHANGED <<body, written, ending, channel, got, reader, taught>>

(* Mutation of Send: a chunk that finds the channel full is dropped.       *)
SendOrDrop ==
  /\ relay.pc = "sending" /\ reader # "gone"
  /\ channel' = IF Len(channel) < Capacity THEN Append(channel, relay.chunk) ELSE channel
  /\ relay' = [relay EXCEPT !.pc = "observing"]
  /\ UNCHANGED <<body, written, ending, got, reader, taught>>

(* downstream_sender.send, which waits for room                            *)
Send ==
  /\ relay.pc = "sending" /\ reader # "gone" /\ Len(channel) < Capacity
  /\ channel' = Append(channel, relay.chunk)
  /\ relay' = [relay EXCEPT !.pc = "observing"]
  /\ UNCHANGED <<body, written, ending, got, reader, taught>>

(* Mutation of SendFails: the relay waits for the client to come back.     *)
SendFailsNever == FALSE /\ UNCHANGED relayVars

(* downstream_disconnected: the relay goes on without the client.          *)
SendFails ==
  /\ relay.pc = "sending" /\ reader = "gone"
  /\ relay' = [relay EXCEPT !.pc = "observing", !.gone = TRUE]
  /\ UNCHANGED <<body, written, ending, channel, got, reader, taught>>

Observe ==
  /\ relay.pc = "observing"
  /\ relay' = [relay EXCEPT !.pc = "reading", !.state = Ingest(@, relay.chunk), !.chunk = <<>>]
  /\ UNCHANGED <<body, written, ending, channel, got, reader, taught>>

(* The body is over: sse_end_reason.                                       *)
Conclude ==
  LET summary == Finish(relay.state)
  IN /\ relay.pc = "reading" /\ ending # None /\ relay.taken = Len(written)
     /\ relay' = [relay EXCEPT !.pc = "rejecting", !.state = [pending |-> <<>>, summary |-> summary],
                    !.end = IF ending = "broken" THEN "upstream_stream_error"
                            ELSE IF "error" \in summary THEN "upstream_sse_error" ELSE "upstream_eof"]
     /\ UNCHANGED <<body, written, ending, channel, got, reader, taught>>

Succeeded == relay.end = "upstream_eof"   \* stream_success_for_cache

Settles(from, to, what) ==
  /\ relay.pc = from
  /\ relay' = [relay EXCEPT !.pc = to]
  /\ taught' = taught \cup what
  /\ UNCHANGED <<body, written, ending, channel, got, reader>>

(* An error event in the answer to the delta of a verified third party     *)
(* drops the session or cools the target down.                             *)
RejectDelta ==
  \E delta \in BOOLEAN :
    Settles("rejecting", "storing",
            IF delta /\ "error" \in relay.state.summary THEN {"rejection"} ELSE {})

(* Usage and session: update_response_session_with_id needs an id.         *)
StoreSession ==
  Settles("storing", "prefix",
          (IF Succeeded /\ "id" \in relay.state.summary THEN {"session"} ELSE {})
          \cup (IF Succeeded /\ "usage" \in relay.state.summary THEN {"usage"} ELSE {}))

(* observe_provider_prefix_usage, affinity, clear_prefix_error_cooldown.   *)
LearnPrefix ==
  Settles("prefix", "recording",
          IF ~Succeeded THEN {}
          ELSE {"affinity"} \cup (IF "usage" \in relay.state.summary THEN {"prefix"} ELSE {}))

Record == Settles("recording", "caching", {"log"})

(* insert_cache_entries                                                    *)
Cache == Settles("caching", "done", IF Succeeded THEN {"cache"} ELSE {})

(* hyper polls the body's stream as long as the connection takes it.       *)
ClientReads ==
  /\ reader = "reading" /\ channel # <<>>
  /\ got' = got \o Head(channel)
  /\ channel' = Tail(channel)
  /\ UNCHANGED <<body, written, ending, relay, reader, taught>>

(* The client stops reading, goes on, or leaves; with it the receiver and  *)
(* what is in the channel.                                                 *)
ClientTurns ==
  /\ reader # "gone"
  /\ reader' \in {"reading", "stalled", "gone"} \ {reader}
  /\ channel' = IF reader' = "gone" THEN <<>> ELSE channel
  /\ UNCHANGED <<body, written, ending, relay, got, taught>>

RelayStep ==
  \/ Take \/ Send \/ SendFails \/ Observe \/ Conclude
  \/ RejectDelta \/ StoreSession \/ LearnPrefix \/ Record \/ Cache

RelayNext == UpstreamWrites \/ UpstreamEnds \/ RelayStep \/ ClientReads \/ ClientTurns

(* The runtime polls a task that can go on, and the server polls the body  *)
(* of a client that reads.  Nothing makes the upstream write or end, or a  *)
(* client read.                                                            *)
RelayFairness == WF_relayVars(RelayStep) /\ WF_relayVars(ClientReads)

RelaySpec == RelayInit /\ [][RelayNext]_relayVars /\ RelayFairness

-----------------------------------------------------------------------------
(* PROPERTIES *)

Whole(event) == \E i \in DOMAIN written : written[i] = <<event, "tail">>

(* However the body was cut into chunks and whatever the client did, the   *)
(* turn teaches sessions, prefix, affinity and cache only what a body that *)
(* came to its end without an error event says, and it then keeps the id   *)
(* and the usage the body gave, also when they stood in a last line        *)
(* without its end.                                                        *)
LearnsFromTheWholeBody ==
  /\ taught \cap {"session", "usage", "affinity", "prefix", "cache"} # {}
       => ending = "eof" /\ ~Whole("failed")
  /\ relay.pc = "done" /\ ending = "eof" /\ ~Whole("failed")
       => /\ Whole("completed") => {"session", "usage"} \subseteq taught
          /\ Whole("created") => "session" \in taught

(* The relay ends once the upstream has, whether the client reads or has   *)
(* gone; only a client that is connected and does not read can hold it.    *)
RelayEnds == (ending # None) ~> (relay.pc = "done" \/ reader = "stalled")

(* The relay implements the pipe: order, no loss, and delivery to a client *)
(* that stays and reads.                                                   *)
Pipe == INSTANCE StreamPipe WITH over <- ending # None
RelayIsAPipe == Pipe!PipeSpec
=============================================================================

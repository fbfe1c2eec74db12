# Atoapi: specifications and proofs

Atoapi is a desktop proxy (Tauri, Rust/axum) between local AI agents and upstream
model providers. This directory holds TLA+ modules for the parts of it where
concurrent turns, retries, restarts and the user's settings meet, the TLC
configurations that check them, and TLAPS proofs about them. All paths below are
relative to `src/`; `proxy/mod.rs` and the like are in `src-tauri/src/`.

## 1. The system

| Component | State it keeps | Operations | What makes it correct |
|---|---|---|---|
| **Generation handler** (`proxy/mod.rs`, `handle_generation_for_agent`) | the local variables of each turn | accept, look up the cache, select a key, compose, send, walk eight recovery rungs, relay or reply | bounded upstream calls; agents and one-shot deltas are not retried; what is learned fits what was sent |
| **Responses sessions** (`proxy/mod.rs`, `proxy/session_identity.rs`) | `response_sessions`: last response id and input per anchor; error cooldowns per target | match a history, continue it as a delta, store, clear | no dead id is continued; scopes do not mix; session and delta make up the request |
| **Provider key pool** (`config/mod.rs`, `proxy/mod.rs`) | keys with `enabled`, `disabled_until`, counters; `next_index`; in-memory affinity | select, mark, fail over, edit, test | refused keys stay off; the rotation is fair; a failover reaches another key |
| **Runtime state** (`state.rs`) | `runtime-state.json` | save after each change, load at start | nothing is prolonged by a restart; a save is whole |
| **Stream relay** (`proxy/mod.rs`, `responses_stream.rs`) | a bounded channel, a parser state per stream | read, forward, observe, conclude | the upstream is read to its end; only a whole stream is learned from |
| **Protocol transforms** (`transform_codex_chat.rs`, `streaming_codex_chat.rs`) | the state of one stream | request to Chat, Chat stream to Responses events | a conversation only grows; calls and outputs pair up; cuts do not matter |
| **Session reuse capability** (`config/mod.rs`, `admin/mod.rs`) | per provider and model: verdict, switch, connection | probe, switch, withdraw | a delta is only sent where this connection was seen to keep state |
| **Response cache** (`cache.rs`) | entries in memory, an encrypted file | exact and semantic lookup, insert, evict, persist, clear, load | a hit is the answer to the same request; a cleared entry does not come back |
| **Prefix control** (`proxy/prefix_control.rs`, `proxy/mod.rs`) | prefix states, guards | normalise the body, mark it, observe usage, classify gaps, wait | a turn begins as the last one did; a waterline was really sent |
| **Reasoning effort** (`proxy/mod.rs` 9781-10133) | rejected efforts, the configured override | apply, cap, lower, reject, persist | a rejected effort is not asked for again; a user's edit wins |
| **Routing** (`proxy/mod.rs` 9323-9773) | route affinity of conversations | authorise, decide, stick, let go | a turn goes where it can be served; a bound agent stays bound |
| **Compaction endpoint** (`proxy/mod.rs` 476-1132) | none of its own | the compact ladder | as for the generation handler |
| **Configuration and commands** (`config/mod.rs`, `admin/mod.rs`) | `config.toml`, the `RwLock` around it | select, edit, copy, bind, hide, delete, save, reload | every reference names something that is there |
| **Agent injection** (`agent_injection.rs`) | files of the agents, backups, records | apply, switch off, restore | files and record say the same; they lead to the proxy by the last route |
| **Lifecycle** (`lib.rs`, `state.rs`) | two servers, auto-start | start, stop, status | at most one listener each, status tells the truth |
| **Transport, metrics, encryption, interface patch, UI, scripts** | little or none | conversion and display | see section 6 |

How they meet: a turn is one run of the handler's future. It clones the
configuration once and then reads and writes the shared tables, each behind a
lock of its own that is held for a single access, so between any two `await`s of
one turn every other turn may run. A streaming turn hands its upstream response
to a spawned relay task, which goes on when the client has gone. The client's
disconnection drops the handler's future wherever it stands. Every change of a
session, a prefix state or a lasting cooldown is followed by a save of all three
maps, and saves overlap. The user's commands and the capability probe write the
configuration that the turns have cloned; a command holds its write lock from the
first read to the save, the probe and `reload_config` do not.

The behaviours that are hard to test, each with its line, are the `hazards` of
`PROJECT.json`. Every module starts with a comment that says what it
models and what its values stand for.

## 2. The modules

| Module | What it is | Run |
|---|---|---|
| `GenerationTurn` | The handler with its ladder, the relay's outcome, the tables the turns share. | `one_turn`, `two_turns` |
| `InboundTurn` | The contract of one inbound request, which `GenerationTurn` implements: one call at a time, none after a success, at most five (two for an agent), closed once. Abstract; no code of its own. | `one_turn` |
| `ProviderKeys` | The key pool, one action per lock. | `key_pool` |
| `StreamRelay` | The relay task, its channel, its parser, its client. | `exchange` |
| `StreamPipe` | What the relay promises its client, which `StreamRelay` implements. Abstract. | `exchange` |
| `ChatStream` | A Chat stream turned into Responses events. | `exchange` |
| `ChatRequest` | A Responses conversation turned into a Chat request, and the tools back. | `exchange` |
| `PrefixBody` | The normal form of an outbound Responses body, its call ids, its identity, its order on the wire. | `exchange` |
| `CacheBreakpoints` | The cache marks of an Anthropic body. | `exchange` |
| `ResponseSessions` | Histories, matching, deltas, replacement, expiry, the expansion of a refused reference. | `turns` |
| `Efforts` | Reasoning efforts: applied, capped, rejected, lowered, stored. | `turns` |
| `Routing` | Authorisation, provider and model of a turn, affinity. | `turns` |
| `PrefixControl` | Waterlines, gaps, guards and waits. | `turns` |
| `CompactTurn` | The ladder of the compaction endpoint with the repeats of each send. | `turns` |
| `RuntimeState` | Saves, program ends and restarts. | `desktop` |
| `ResponseCache` | Lookup, insert, persist, clear, load. | `desktop` |
| `AgentInjection` | Commands, backups, failures and records of the injection. | `desktop` |
| `AgentFiles` | What is merged into one agent's file by a sequence of routes. | `desktop` |
| `ProviderRecords` | Providers, an agent's copies, what is kept beside them, the probe, save and reload. | `desktop` |
| `GenerationTurnProofs`, `ProviderKeysProofs`, `ProviderRecordsProofs`, `StreamRelayProofs`, `ChatStreamProofs` | The theorems about the module of that name. | |
| `StoreProofs` | The theorems about `RuntimeState` and `ResponseCache`. | |
| `AgentProofs` | The theorems about `AgentInjection` and `AgentFiles`. | |
| `TurnsProofs` | The theorems about `ResponseSessions`, `Efforts`, `Routing`, `PrefixControl` and `CompactTurn`. | |
| `...MC` | Instances for TLC. `TurnsMC`, `DesktopMC` and `ExchangeMC` extend the components that have theorems, so that the runs and the proofs use the same definitions; components that are extended together name their states and actions apart (`SessionTurns`, `PrefixTurns`, `effortTurn`, `routeAffinity`, `cacheFile`). | |

The modules meet in the values they abstract: an id stored by `StreamRelay` or
`GenerationTurn` is the one whose history `ResponseSessions` keeps; the body
`GenerationTurn` sends is the one `PrefixBody`, `ChatRequest` and `CacheBreakpoints`
make; the fallback rung of its ladder is where a turn of `Efforts` lowers; the
verdict `ProviderRecords` keeps is the `verified` of a target there.

### GenerationTurn

`turn[t]` is the record of one handler's locals: `rung` is how far down the ladder
it is, `prev` the `previous_response_id` the proxy itself put into the active body,
`wire` the `active_request_channel`, `learn` the `prefix_state_update_key`, `oneShot`
the `verified_third_party_delta_in_flight`, and so on; `verified` and `cooled` are
the values read once and used later, which is where the code can act on stale ones.
The variables `session`, `deltaCooldown`, `chatCooled`, `prefixCooled` and `verified`
are the shared tables. `origin` and `dead` are history: which scope an id was first
stored for, and which ids `clear_response_session_reference` was given.

The ladder in code order, and the action of each rung:

| Rung | Code (`proxy/mod.rs`) | Guard | Action |
|---|---|---|---|
| 1 | 1755-1857 | `KeyFailover` | `TryAnotherKey` |
| 2 | 1859-2012 | `FullRetry` | `RetryFull` |
| 3 | 2013-2113 | `OverChat` | `SendOverChat` |
| 4 | 2114-2233 | `BackToResponses` | `ReturnToResponses` |
| 5 | 2234-2355 | `Rescue` | `RescueTooLarge` |
| 6 | 2356-2480 | `FullAfterRescue` | `RetryFullAfterRescue` |
| 7 | 2481-2773 | `LowerEffort` | `LowerTheEffort` |
| 8 | 2865-3061 | `WithoutReference` | `RejectVerifiedDelta`, `StripReference` |

`Due(u, k)` says that the handler stands at rung `k`: it has passed the earlier ones.
Where a rung also asks for something outside the model (another key, a matching
history, a lower effort, the wording of an error), `Decline` lets it pass by. The
tables' updates of a rung and its resend are one action, although the code takes one
lock after the other: the rung reads none of the tables again in between, and it notes
the cooldown first, so that another turn that looks in between finds the target cooling
down and composes a full body, as it would afterwards. `Accept`, `Gate`, `EndLocally` and
`Compose` are what comes before the first answer, `StartRelay`, `Complete`, `Fail` and
`BodyLost` what comes after the last, `Relay*` the relay task. `ClientGone` drops the
handler; it is not possible once the relay has started.

Requests are the shapes the ladder can tell apart (`RequestAssumption`); an anchor has
a fixed scope, because identities are hashed with agent, provider and model.

### ProviderKeys

One action per lock the code takes. `Start`, `Select`, `Remember` are
`select_provider_api_key`: read the affinity, select, write the affinity. `Blame`,
`Forget`, `Reselect` are `try_retry_with_next_provider_key`. `Settle` is
`note_selected_provider_key_status`. `Abandon` is a turn that ends without a mark.
The strategies other than round-robin may take any candidate: which one they take
depends on counters that only matter for load. `due` remembers keys refused to turns
that have ended and that the user has not touched since, `passed` how often a
candidate was passed over by the cursor. The pool keeps its length: the form is taken
to change only switches and the strategy.

### The exchange: StreamRelay, ChatStream, ChatRequest, PrefixBody, CacheBreakpoints

`StreamRelay`: an event is three pieces of text, a chunk any run of pieces, so a line
may be cut anywhere that matters and the last one may lack its end. The task takes a
chunk, sends it through a channel of `Capacity` (or finds the client gone and goes on
reading), lets `ResponsesStreamState` see it, and when the body has ended concludes:
reject the delta, or store the session, learn the prefix, record, cache. `taught` is
what it left behind. The summary of the parser is the set of things it has found
(`Facts`): `process_line` only ever adds to it, so `ingest` adds what the complete lines of
the text say (`Lines`) and keeps what stands behind the last of them (`Rest`).

`ChatStream` is `ChatToResponsesState` function by function: the new state and the
events it emits. `WholeOutput` is the separate code that converts an answer received in
one piece, the reference for `CutsDoNotMatter`. `ChatRequest` folds the items of a
conversation into messages as `append_responses_item_as_chat_message` does, with its
pending calls and pending reasoning, after a system message of the instructions
(`Instructions`) and those found among the items, and keeps the context by which a Chat tool name
finds back to a function, a namespace, a custom tool or the search. Both keep nothing
from turn to turn, which is why what one turn sends has to agree with the last.

`PrefixBody` composes `optimize_provider_prefix`: promoted instructions, canonical
texts, sorted tools, stable call ids, stripped noise, the identity of the conversation,
the order of the wire (`Wire`), and the delta cut from it. The Responses streams that
come in by Codex's own route and go to a Responses provider take another way (`Native`,
1213-1281): they are neither normalised nor stabilised, and only get the cache key. A content that is a text becomes an
`input_text` block whatever the role (`NormalContent`), so that an assistant's message
written as a text and the same one written as an `output_text` block stay two bodies. `CacheBreakpoints` is
`add_anthropic_cache_control`; the code counts messages where the provider counts
blocks, and near the beginning it selects index 0 more than once, which marks it once.

### The turns: ResponseSessions, Efforts, Routing, PrefixControl, CompactTurn

`ResponseSessions` holds real histories (user, assistant, call and output items);
`context` is what the provider has for each answer id. `Efforts` follows a turn of each
agent from its copy of the settings to its last fallback, with an action per lock;
`Routing` likewise with its copy of the configuration, `Lookup` and `ForgetAffinity`
under two locks. `PrefixControl` keeps the real numbers (tokens, thresholds, milliseconds), since
its properties are about sums and roundings. `CompactTurn` has the five ways down the
compact ladder, and under each the up to three attempts of `send_upstream_request`;
what other turns do to the cooldowns is the action `Others`.

### The desktop: RuntimeState, ResponseCache, AgentInjection, AgentFiles, ProviderRecords

`RuntimeState` has one entry of each map with two ages, the one the program computes
and the true one. `Change` is any operation that ends in `persist_runtime_state`; the
save then clones the maps one by one (`Clone*`), truncates the file (`Open`) and fills it
(`Write`). Two overlapping writes may leave the tail of the longer text, which does not
parse (`Torn`). `Stop` may come at any time. `Tick` ages everything, and the file while
the program is down. `Start` may find a machine that was itself just started, where an
`Instant` that far back cannot be had (`reborn`).

`ResponseCache`: a key is a target and a normal form of the request; a request is what
the forms tell apart, among them whether a marker of risk was found in its text, which
the code looks for in another form of the text than the keys are made of. `AgentInjection`: a command holds the write lock, so only the end of
the program comes between two steps, and any read, backup or write may fail; `damaged`
are the agents with files no step could put right. Besides the commands of `agent_injection.rs` it
has those of `admin/mod.rs` that touch a record: `UpdateRoute` copies a provider that is
not the agent's own first, which binds the agent to the copy before `update_route` notes
what it would put back; `RefreshBound` injects those bound to an edited provider;
`BindCopy`, `Reconfigure` and `ReloadInjection` change a record, or what it stands for, and
inject nobody. `unapplied` is history: the agents that were last changed in such a way. `AgentFiles`: the files of eight kinds of agents after
any sequence of routes, on top of what was there: another type where the container is
expected (`otherType`), or where the proxy's own entry in it is (`otherEntry`). Codex's
writer replaces neither: the first it leaves without address and key, the second is an
error after the catalogue was written (`RefusedFile`). `ProviderRecords`: a command changes
the memory first and then saves; the probe and `reload_config` let others in between. What
is read from the file, at the start or by a reload, is first completed
(`AppConfig::ensure_defaults`, here `Ensured`) and saved, and so is the outcome of the
commands that refresh a provider. A save that fails leaves the file as it was: the checks
of `AppConfig::save` come before the write, and a write that breaks off is not modelled
(section 6).

## 3. What the runs check

| Run | Instance | Shows |
|---|---|---|
| `one_turn` | one turn, a third-party target, three anchors in two scopes, every request shape, twelve statuses (one for each way the ladder can treat an answer), every restored state; 3.6e5 states | `TypeOK`, `RecoveryBudget`, `AgentRetriesOnlyEffort`, `OneShotDelta`, `DeltaStaysOnResponses`, `LearnsFromItsOwnBody`, and that the handler implements `InboundTurn` (`KeepsContract`) |
| `two_turns` | two turns that meet in the tables, the official target, three ids, four request shapes, statuses 200, 404 and 413; 1.2e6 states | `NoDeadReference`, `DeltaStaysInScope` |
| `key_pool` | two keys, two turns, sticky users and non-sticky agents; 1.6e6 states | `RefusedStaysOff`, `RoundRobinFair`, `FailoverTriesTheRest` |
| `exchange` | the five modules above; 4.1e5 states | `LearnsFromTheWholeBody`, `RelayEnds`, `RelayIsAPipe`; `ItemsInOrder`, `CompletedSaysTheSame`, `CutsDoNotMatter`; `ToolsPairUp`, `ConversationOnlyGrows`; `OutputsKeepTheirCalls`, `TurnBeginsAsTheLast`; `MarksAreFoundAgain` |
| `turns` | the five modules above; 3.0e6 states | `DeltaContinues`, `LongestIsKept`, `ReferenceIsReplaced`; `KnownRejectionsAreAvoided`, `OverrideFollowsItsOwnRejection`; `RoutedWhereItCanBeServed`; `PrefixEvidenceIsSound`; `RefusedIsNotRepeated` |
| `desktop` | the five modules above; 3.1e6 states | `RestartsProlongNothing`, `SavedWhole`; `ServesTheSameRequest`, `ClearedStaysCleared`; `NeverHalfInjected`, `EnabledIsInjected`; `FileFollowsTheRoute`; `ReferencesResolve`, `VerifiedForThisConnection` |
| `stale_reference`, `key_recovery`, `prefix_expiry`, `restore_after_end`, `delta_call_ids`, `route_rollback` | the same instances, most of them smaller | the statements of section 5, which the code does not keep |

`exchange`, `turns` and `desktop` each hold five modules that share no state. `part` says
which of them moves in a behaviour; the others rest at an initial state, so the states
of the run are the sum of the parts' and not their product. Nothing is lost by it: the
parts have no variable in common.

Bounds, and why they are enough.
 - The properties of the ladder speak of one turn, and the tables it can find are all
   initial states of `one_turn`. The session properties need two turns: one that drops
   an id while the other holds it; the theorems extend them to any number. Two keys are
   enough for a key to be excluded, refused, starved and to wrap the cursor; the
   theorems say the rest for every length.
 - `exchange`: a channel of one chunk, which fills as one of eight does; streams of two
   or three events (whole, ended by `[DONE]`, failed), any cut of their pieces. Four
   chunks (`MaxChunks`) of twelve kinds: a think tag cut in two, calls whose id, name and
   arguments come apart, two calls at once (`MaxCalls`), a custom tool, a name that changes. Conversations of four items (`MaxItems`,
   `MaxTalk`): a call, its output, and something before and after. A lookback of one
   message where the code has twenty blocks, conversations of five (`MaxMessages`), so
   that marks fall out of reach and are found again.
 - `turns`: three turns over nine histories that begin alike, continue each other, are
   continued by the client or repeat it without the answers; a session that expires after one tick. Two turns on one
   model with three efforts and one edit or failed save (`MaxEdits`). Two providers that
   offer models under each other's names. Two turns on prefixes of 131,072 tokens with
   usages on both sides of each threshold, one of a provider that counts what it read
   beside the input. One compaction, a status of each kind.
 - `desktop`: two overlapping saves; states live one tick, cooldowns two. Two turns at a
   cache of one entry, one clear, two starts. Two agents, one whose files are put back
   and one whose are not, two commands (of the ten there are), three failures, two starts. Two injections of
   eight kinds of file under four configurations. Three commands (`MaxEdits`) after
   three starting configurations, one failed save.

Fairness. `RelayFairness` is weak fairness of `RelayStep` and of `ClientReads`: the runtime
polls a task that can go on, and the server polls the body for a client that reads.
Nothing makes the upstream write or end (its client has no read timeout,
`proxy/transport.rs` 32-55), nor a client read, so `RelayEnds` starts from an upstream
that has ended and excepts a client that is connected and does not read. `StreamPipe`
asks the same of its reader. For the same reason no liveness of a whole turn is
stated: a silent upstream holds it for ever. In the behaviours of `exchange` where another
part moves, the relay's fair actions are disabled. All other properties are safety
properties. `CHECK_DEADLOCK FALSE` is used where a bounded conversation, turn, command
sequence or number of starts comes to its end.

Every property of a passing run has a mutant: a plausible bug in one mapped definition
(defined just before it and named as a mutation) under which the same run fails.

## 4. What is proved

For every value of the constants, under the assumptions the modules name:
`ScopeAssumption`, `SentinelAssumption`, `RequestAssumption`, `StatusAssumption`
(`GenerationTurn`), `PoolAssumption`, `KindAssumption` (`ProviderKeys`), `SpanAssumption`,
`SentinelAssumption`, `TornAssumption` (`RuntimeState`), `StreamAssumption`, `CapacityAssumption`,
`NoneAssumption` (`StreamRelay`), `SoundChunks` (`ChatStream`). Modules that share a run state
theirs as definitions, and their theorems have them as hypothesis: `SoundSessions`,
`SoundLevels`, `SoundRoutes`, `SoundUsages`, `SoundAgents`, `SoundStarts`. They say what the
code's types and the program's own files guarantee: requests have keys there are, models
list efforts there are, usages count tokens, each agent has files of its own, a start
finds whole configurations and prefix states, stamped earlier. None limits how often or
in which order anything happens. TLC evaluates all of them in the runs
(`ConstantsAreSound` in `TurnsMC` and `DesktopMC`).

All modules follow one line: a lemma per action, or per shape that several actions
have, says that an inductive invariant is kept; the theorem adds the initial states; the
property of the run is a consequence of the invariant.

`GenerationTurnProofs`
 - `TypeCorrect`: `Spec => []TypeOK`. The lemmas `...Shape` say once what an action makes
   of a turn (`TurnShape`) and of the tables (`SharedShape`); everything else follows
   from the shapes.
 - `DeadReferencesStayAway`: `Spec => []NoDeadReference`, and `DeltasStayInScope`:
   `Spec => []DeltaStaysInScope`. Neither is inductive. `RefInv` adds that every id in a
   session was stored for the session's own scope (`StoredInScope`), and that a dead id
   had been stored (`DeadWereStored`), so that a new answer, whose id nobody had before,
   cannot be one of the dead; and clearing drops the id from every anchor.
 - `CallsAreBounded` (`RecoveryBudget`), `AgentsRetryOnlyEffort`, `VerifiedDeltasAreOneShot`,
   `DeltasStayOnResponses` and `LearningIsFromTheTurnsBody`, from `LadderInv`. The last
   speaks of the wire and the effort; rungs 5 and 8, which put a delta into the body and
   take the reference off, keep the key in the code and are not in it. What each of
   them says of the number of calls is not inductive, because a turn does not remember
   the rungs that called. `OnTheLadder` ties `rung` to the calls made: each rung that
   calls moves the handler past itself, and some rungs exclude each other: a delta is a
   stream and a sync request is none (2 against 3 and 4), who fell to Chat at 3 does not
   come back at 4, who sent the full body at 6 has no reference left to strip at 8. `LowersOnce`, `OnItsWire` and `SingleShot` say what a turn knows of itself
   at each rung.
 - `LadderKeepsContract`: `Spec => KeepsContract`. Every step of the handler and of the
   relay is, under `LadderInv`, a step of `InboundTurn` or leaves it unchanged.

`ProviderKeysProofs`
 - `PoolTypeCorrect`: `Spec => []TypeOK` (of `ProviderKeys`), with `KeyInv`: a turn that
   fails over holds a key of the pool (the provider's own key is never failed over from).
 - `RotationIsFair`: `Spec => []RoundRobinFair`. `FairInv` says that the times a key was
   passed over and its distance from the cursor add up to less than the length of the
   pool: each selection that prefers another candidate brings the cursor nearer
   (`GapShrinks`).
 - `RefusedKeysStayOff`: `Spec => []RefusedStaysOff`. `OffInv` adds that a key a turn failed
   over from is off until that turn ends (`GuiltyOff`); without it a turn could end and
   report a key that the others had switched on.
 - `FailoverIsComplete`: the action property `FailoverTriesTheRest`.

`StoreProofs`
 - `NothingIsProlonged`: `Spec => []RestartsProlongNothing`, from `ImagesAreSound`:
   `Spec => []SoundInv`. The property speaks of the memory, and only of ages within the
   limit. `SoundInv` says of every image there is (the memory, the file, each copy being
   saved) that no computed age is less than the true one, unless the conversion of the
   age failed (`reborn`), and that no cooldown has more left than it really has; a copy
   taken before a save is written would otherwise bring back what the property forbids.
 - `ImagesAreTyped`: `Spec => []TypeOK`.
 - `AloneSavesAreWhole`: `Spec => []SavedWhole`. `WholeInv` follows a save that no other
   overlaps through its steps: map by map, what it has cloned is what the memory still
   holds, because whoever changes the memory begins a save of its own. Of saves that
   overlap it says nothing, so it does not reach a mix of two or an older one that comes
   last.
 - `HitsAreOfTheSameRequest`: `CacheSpec => []ServesTheSameRequest`, and `ClearsAreFinal`:
   `CacheSpec => []ClearedStaysCleared`. `CacheInv` says that an entry under a key was
   stored for a request that has the key among its own, whoever holds it (the memory,
   the file, the load, a turn that is persisting), and that none of them holds an entry
   from before the last clear, but the file while it is being cleared. The first proof did
   not go through as the property stood at first; section 5 says why (*Cache*).

`ProviderRecordsProofs`
 - `ReferencesAlwaysResolve`: `[]ReferencesResolve`, and `VerificationsHold`:
   `[]VerifiedForThisConnection`, under `SoundStarts`. Both follow from a relation between
   the configuration before and after a command, `Edits`: the outcome is whole, and each
   provider whose connection changed bears the time of the change. It is transitive
   (`EditsCompose`), so a command that copies, rebinds and removes is proved piece by
   piece. `ProbeInv`: a provider that still has the stamp it had when the probe began
   still has the connection that is probed.

`AgentProofs`
 - `InjectionsAreWhole`: `[]NeverHalfInjected`, and `RecordsAreInjected`:
   `[]EnabledIsInjected`, under `SoundAgents` (an agent has at least one file, and no file is
   of two agents). An agent no command is at work on is `Settled`: its files say the route
   of its record, or the record says that it is off, or the agent is `damaged` or
   `unapplied`. The property excepts the last two: an agent a file of which could not be
   put back, and one whose record, or what it stands for, was changed by a command that
   injects nobody or that failed after it had bound the agent to a copy
   (`route_rollback`). Either lasts until the agent is injected again.
   `JobInv` says of a command under way that the files it has come to say the new route and
   the others are what the backups hold, which are settled for the record there was.
 - `FilesFollowTheRoutes`: `[]FileFollowsTheRoute`, for any models, configurations and
   records. `SoundFiles` says of the bundled catalogue what is true of
   `resources/codex-models.json` (each name once, a default effort where there are any), and
   that the proxy has an address and a key. Each kind of file is a case of
   `WrittenFollowsTheRoute`. A file of Codex whose `model_providers` is no table names the
   proxy and has neither its address nor its key; the property says so. The catalogue of Codex is made of one model after the other, and
   `UpTo` carries through the list what one model keeps (`ListedIsCatalogue`): no name
   twice, none lost, and a default effort also where neither the bundle nor the model
   names one that is offered.

`StreamRelayProofs`
 - `OnlyWholeBodiesTeach`: `RelaySpec => []LearnsFromTheWholeBody`, from `RelayIsConsistent`:
   `RelaySpec => []RelayInv`, for any answers, cuts, capacity and client. The invariant needs a
   fact about the parser: that it makes no difference where a text is cut
   (`CutsAddUp`: to ingest two chunks one after the other is to ingest both at once). What the relay
   knows is then a function of how much it has read, and at the end of the body
   it is what its whole lines say (`SummaryOfTheBody`), the last one also without
   its end. That is a statement about texts of any length, proved without induction: `ingest`
   is defined by the places of the line ends in the text and not line by line.
 - `RelayKeepsThePipe`: `RelaySpec => Pipe!PipeSteps`, the safety half of `RelayIsAPipe`. A
   client that has not gone has read a beginning of the body, and the chunks in the
   channel and the one in hand are adjacent cuts from there to what was taken (`OnTheWay`).

`ChatStreamProofs`
 - `StreamItemsInOrder`: `StreamSpec => []ItemsInOrder`, and `StreamSaysTheSame`:
   `StreamSpec => []CompletedSaysTheSame`, for any chunks, any number of chunks and of
   calls, both from `StreamKeepsItsBooks`: `StreamSpec => []StreamInv`. Under `SoundChunks`:
   texts and lists of calls are lists, and a call's index is below `MaxCalls`.
 - Neither is inductive, since what a step adds depends on the state and not on the
   events. `Good` are the books that tie one to the other: the events name the items
   the state has added, under its indexes, and are done with those it has done (`Trail`);
   the text of an open item is what was shown of it (`Shows`); the names and ids of the
   calls are those that came (`Named`); each entry of the output has what was shown of its
   item, and each item that is done has one (`Books`).
 - `Kept` says of one function that it keeps the books and takes certain deltas.
   Functions that are run one after the other keep them together (`KeptThen`), so that
   `HandleChunk` is proved function by function, as it is written. Those of `Finalize`
   close the items until all are done; then `CompletedOutput` is the output sorted by
   its indexes. Afterwards what was said stands (`Over`): more events may
   follow, none of them a second `completed`.
 - The recursion of the model (`Shown`, `PushTools`, `CloseTools`, `CompletedOutput`) is in recursive
   functions. That each of them exists, and what it returns, is proved up to a number
   with `UpTo`, which needs only the set of the numbers reached so far.

`TurnsProofs`
 - `KnownRejectionsStayAvoided` (`KnownRejectionsAreAvoided`) and `EditsOfTheUserWin`
   (`OverrideFollowsItsOwnRejection`), both action properties, under `SoundLevels`, from
   `TurnsKnowTheirRejections`: what a turn knew when it chose is part of what is rejected,
   and the effort it is about to ask for instead is none of that.
 - `TurnsAreServed`: `[]RoutedWhereItCanBeServed` under `SoundRoutes`, from `DecisionsAreSound`:
   the first decision and what an affinity makes of it are both `Served` by the
   configuration the turn copied.
 - `TheLongestStays`: `[]LongestIsKept` under `SoundSessions`, from `KeysKeepTheirLongest`:
   a key no reference of which was dropped holds the history of one of its turns, and if
   they continue one another that of the longest.
 - `DeltasContinueTheirSession`: `[]DeltaContinues`, and `ReferencesAreReplaced`:
   `[]ReferenceIsReplaced`, from `ProviderHoldsTheHistories`. `ContextInv` says what the
   provider holds under an id and how the body on its way continues it: together they end
   with the history the turn stands for, and a session in the table has the history of
   the answer whose id it has. The rest is about histories: what is needed of two that are
   joined is what is needed of each, joined (`EssentialOfBoth`), and the delta appends
   exactly what the longer history adds (`DeltaAppends`). The needed items are numbered by
   how many stand before them (`Kept`), so these lemmas speak of lengths of any size
   without a recursive definition.
 - Where a proof needs the first place or the least number with a property, it comes from
   the library's theorem about well-founded relations (`WFMin`), which has no operator as
   parameter.
 - `EvidenceIsSound`: `[]PrefixEvidenceIsSound` under `SoundUsages`, from `WaterlinesAreKept`:
   the strongest waterline of a stored state is at most what the usages of the prefix
   reported, as input or as read; a usage on its way to be stored as well; and a turn has
   waited no longer than it took. That a usage reads no more than its input is not
   assumed, because the code does not see to it.
 - `RefusalsAreFinal`: `CompactSpec => []RefusedIsNotRepeated`, from `CompactionsMoveOn`:
   `CallsSoFar` bounds the attempts by rung, `BehindTheRung` says which requests can have been
   refused on the way to each, and `NotYetRefused` that the one at hand is none of them.
   There is no hypothesis.

What failed on the way and changed the model: the near-exact keys of the cache; a `CASE` of `ResponseSessions` whose guards overlapped, and which
TLC therefore read in a fixed order; `ReferenceIsReplaced`, which as it stood at first is
false of histories the run did not have (a client that repeats what was said without the
answers, and with other call ids, is sent it twice: `proxy/mod.rs` 6236-6258; the run has
such a client now and the property excepts it), and with it the body of a refused
reference, which the code strips of the reference when it has no history to add
(2949-2956); `CompletedSaysTheSame`, which is false of a call that is renamed between a custom tool
and a function, and which now excepts it (the run has such a call); the parser of `StreamRelay`, at first a fold over
pieces, of which nothing can be proved, and now stated by what is in a text; and the completion of a configuration that is read
from a file, without which a reload could leave a reference to nothing that the code
repairs.

Only model-checked, and why.
 - `RelayEnds` and the second half of `RelayIsAPipe` (`Delivers`) are liveness.
 - `CutsDoNotMatter`, `ToolsPairUp`, `OutputsKeepTheirCalls`, `ConversationOnlyGrows`,
   `TurnBeginsAsTheLast`, `MarksAreFoundAgain`: they compare what two folds over a sequence
   of any length compute (the stream cut in pieces with the answer in one piece, the
   items of a conversation with those of a longer one), and the provers have no
   induction over data.

## 5. Where documents and code disagree

 - **A stale response id clears its session** (`proxy/mod.rs` 22534, the design document
   43-45). At the official target an agent's delta refused with 404 clears nothing, and
   the next turn continues the same dead id (`stale_reference`).
 - **Refused keys recover after the recovery minutes** (the form, `App.tsx` 2433). The mark
   also clears `enabled`, which only the form sets again (`key_recovery`).
 - **Runtime state older than 30 minutes is dropped** (`CHANGELOG.md` 70). Prefix states
   get a new time at each save (`prefix_expiry`).
 - **The runtime state can be restored** (`CHANGELOG.md` 63). A program that ends between
   truncating and filling the file leaves one that fails the next start
   (`restore_after_end`).
 - **A tool output for a call of an earlier response keeps its call id** (the test at
   `proxy/mod.rs` 16599). The ids of calls that are in the body are rewritten before the
   delta is cut from it, so the delta's output names its call by an id the continued
   response never gave (`delta_call_ids`). This holds of every Responses turn but the
   native streams of Codex, whose ids nobody rewrites. `OutputsKeepTheirCalls` is what holds of
   bodies that are sent whole.
 - **An enabled route update rolls back when apply fails** (the test of that name,
   `agent_injection.rs` 1790). The test calls `update_route`. The command
   (`admin/mod.rs` 1446-1458) first runs `clone_provider_for_agent_config`, which binds the
   agent to its copy of a provider not its own (350-355), and `update_route` notes the record
   it puts back only then: after a failure the agent is enabled, the record says the new
   route and the files the old one (`route_rollback`).

Seen while modelling, and not run. What a property excepts for one of these is said at
the property.

 - *Runtime state.* A slow older save overwrites a newer one, so that a session that was
   cleared returns after a restart. An age the machine's clock has no time for is taken
   to be zero (`state.rs` 665).
 - *Turns.* The design document of the verified session reuse (6-8) promises an agent one
   upstream call; the reasoning effort fallback makes a second, and `AgentsRetryOnlyEffort`
   is what is proved. A turn whose connection fails or whose client goes marks neither key nor
   prefix (`proxy/mod.rs` 1702). The rescue reads a cooldown flag taken before the first
   send (2239). An error event in the stream of a delta clears only the turn's own anchor.
   `failure_threshold` of a key pool has no effect because every caller forces the
   disabling, and the pool form saves over marks made since it was opened
   (`config/mod.rs` 1388).
 - *Relay.* `docs/architecture.md` 32 has the SSE body in one foreground task; the relay is
   spawned (`proxy/mod.rs` 8938). A native stream that ends without `response.completed`
   counts as a success.
 - *Chat stream.* Reasoning that is resumed after other output is sent as a delta of a
   finished item and is not listed; chunks after `[DONE]` emit deltas after `completed`,
   and a transport error there emits `response.failed` after it; an empty id in a later
   tool delta overwrites the call's id; a call that is renamed between a custom tool and a
   function after its item was added gets deltas of both kinds (404-523).
 - *Chat request.* A developer message in the middle of a conversation is lifted to the
   head and changes the prefix; a message between a call and its output parts them;
   reasoning still pending at the end is dropped.
 - *Bodies.* `strip_responses_provider_noise` removes keys such as `id` and `status` from
   tool parameter schemas too; repeated client call ids make outputs point to the last
   call; ids of custom tool calls are not stabilised. A native stream of Codex is sent as it
   was written, so another order or spelling by the client changes its beginning; in the
   other turns an assistant's message that comes once as a text and once as `output_text`
   blocks does (`normalize_content_blocks`, 10739-10757). `TurnBeginsAsTheLast` says of both
   what remains (`Alike`).
 - *Sessions.* Matching ignores assistant items, so a regenerated answer is continued on
   the response it replaced; an expired session with the same or a longer input is not
   replaced (6628).
 - *Prefix control.* "Keep the hard foreground wait ceiling at one second" (the TTFT design
   document) holds of Responses turns only; Chat turns and the conversation's lock wait
   without limit, and in this build `foreground_cache_wait_enabled` is constant `false`. A short request lowers a waterline more than 16,384 tokens above it.
   Entries of `prefix_locks` are never removed.
 - *Efforts.* The next lower effort ignores the list the model supports.
 - *Routing.* A stale affinity is read and removed under two locks and may be another
   turn's fresh one; bound turns move the affinity of unbound ones.
 - *Compaction.* A Chat provider's 429 leads "back" to the same request; a compaction may
   make twelve attempts, an agent's too.
 - *Cache.* Time-sensitive prompts are said not to be matched approximately (`README.md`
   124), but the markers are looked for in the text with its punctuation, and the
   near-exact key is made of the text without (`cache.rs` 307-350, 537-551): of "... right
   now!" the marker is missed, and its near-exact key is the exact key of "... right now",
   which shares the table, if every string of the body, the model's id included, is free of
   upper case and punctuation otherwise. `ServesTheSameRequest` is what holds. Persists share a read lock and may write over each other (`cache.rs` 80); the
   load at start drops what was inserted meanwhile (63) and brings back what a clear
   removed meanwhile; eviction may remove the sibling key just inserted (175).
 - *Injection.* A new local port or key is not injected again; a model name of an earlier
   route stays when the new one names none; a save that fails after an injection leaves
   the files of the new route beside the record of the old one until the next start.
   `clone_provider_for_agent` binds an enabled agent to the copy and injects nobody
   (`admin/mod.rs` 220-258), nor do `save_config`, `select_provider`, `delete_model` and
   `reload_config` (the `unapplied` of `AgentInjection`). A `config.toml` of Codex in which
   `model_providers` is a string or an inline table is reported as injected without address
   and key; one in which the entry `custom` is no table is an error after the catalogue was
   written (530-545).
 - *Configuration.* Commands change the memory first and do not take it back when the save
   fails; a copy is recognised by its name alone; `reload_config` loses what is done
   meanwhile; `start_proxy` stores the server before the save that may fail
   (`state.rs` 285).

## 6. What is not modelled

 - *Lifecycle of the local servers.* What may go wrong between stopping one listener and
   starting the next is decided by the operating system's sockets, of which the code says
   nothing but the two calls.
 - *Transport clients, encryption.* Two clients with fixed limits, and calls into AES-GCM
   and the system's key store: no control of their own. `ResponseCache` knows that a file
   may not decrypt.
 - *Metrics.* Counters and a log that no decision of the proxy reads.
 - *Codex interface patch, user interface, scripts.* They act on the modelled state as the
   user does, or on files of another program.
 - In the modelled parts: usage numbers and texts of errors, the conversions to and from
   Anthropic bodies, diagnostics and inspection headers, the decisions to prewarm (compiled
   for tests only), settings that are single values, the repair of defaults in
   older files, the migration of old prefix keys, the adding and removing of pool keys.
 - A torn configuration file: `AppConfig::save` truncates before it fills
   (`config/mod.rs` 832), and the next start cannot parse what a program that ends in
   between leaves. The modules take a failed save as one of the checks before the write;
   `restore_after_end` shows the same write for `runtime-state.json`.
 - The demo provider of an early version: `strip_builtin_demo_provider` (`config/mod.rs` 790,
   1564-1583) removes it at the start without the references the pools, modes and agents
   have to it. `ReferencesResolve` is of files that do not hold it.
 - In `AgentInjection` a reload is one step between commands; its steps among those of
   others are in `ProviderRecords`.

## 7. Plan

Modules that could follow: the lifecycle with an external model of sockets; the
composition of `GenerationTurn` with the histories of `ResponseSessions`.

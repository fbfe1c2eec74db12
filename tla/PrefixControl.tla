----------------------------- MODULE PrefixControl -----------------------------
(***************************************************************************)
(* What the proxy learns about a provider's prompt cache, and how long a   *)
(* turn waits for it (src/src-tauri/src/proxy/prefix_control.rs and the    *)
(* provider_prefix_* and responses_* helpers of proxy/mod.rs).             *)
(*                                                                         *)
(* A turn belongs to a prefix.  It takes the prefix's lock, waits a moment *)
(* if the turn before it left tokens that should have been cached and were *)
(* not, takes the lock of its conversation, is sent, and reports the usage *)
(* the provider charged: input tokens, and how many of them were read from *)
(* the cache.  From the reports the proxy keeps a waterline per prefix     *)
(* (PrefixWarmState): how much of it the provider is known to have cached. *)
(*                                                                         *)
(* Times are in milliseconds.  A tail says what the turn added to its      *)
(* conversation, in characters (TailInputDiagnostics).                     *)
(***************************************************************************)
EXTENDS Integers, FiniteSets

CONSTANTS
  PrefixTurns,
  PrefixKeys,   \* provider_prefix_control_key: a prefix of one channel
  PrefixAsks,         \* what a turn may be, see below
  Records,      \* the usages a provider may report: [input, read]
  Tails,        \* what a turn may have added
  Waits,        \* how long a lock may take
  Ages,         \* how old a state may be
  Restored,     \* what the prefixes may be restored with: [warm, most] of each
  Empty

(* [prefix, channel, session, guarded, stream, sent, learns]: session is   *)
(* the conversation; guarded, that foreground waits are on and nothing     *)
(* exempts the turn; sent, that it was sent as a continuation ("delta"), in *)
(* full ("full"), or in full after a continuation was refused ("again");   *)
(* learns, that its usage is not for diagnosis only.                       *)

VARIABLES
  prefixTurn,     \* what each turn is doing
  states,   \* AppState.prefix_states
  guard,    \* who holds the lock of a prefix
  talk,     \* who holds the lock of a conversation
  most      \* the most tokens a usage of a prefix ever spoke of (history)

prefixVars == <<prefixTurn, states, guard, talk, most>>

Less(a, b) == IF a > b THEN a - b ELSE 0     \* saturating_sub
Least(a, b) == IF a < b THEN a ELSE b
Most(a, b) == IF a < b THEN b ELSE a

-----------------------------------------------------------------------------
(* Usage.                                                                  *)

(* Mutant of Bucket: the last block is rounded up.                         *)
BucketUp(n) == ((n + 511) \div 512) * 512

(* Providers cache in blocks of 512 tokens, or of 128 from 1024 on.        *)
Bucket(n) == (n \div 512) * 512
Bucket128(n) == IF n < 1024 THEN 0 ELSE 1024 + ((n - 1024) \div 128) * 128
Short(r) == Less(Bucket(r.input), r.read)
Short128(r) == Less(Bucket128(r.input), r.read)

(* provider_cache_ratio(record) >= permille / 1000                         *)
Ratio(r, permille) == r.input > 0 /\ 1000 * r.read >= permille * r.input

(* provider_prefix_raw_seen_bucket, and prefix_state_strength              *)
RawSeen(s) == Most(s.seen, s.read)
Strength(s) == Most(RawSeen(s), s.seen128)
SeenEither(s) == Most(s.seen, s.seen128)

Stronger(a, b) ==
  IF a = Empty THEN b ELSE IF b = Empty THEN a ELSE IF Strength(b) > Strength(a) THEN b ELSE a

ExactOf(p) == <<"exact", p>>
AliasOf(p) == <<"alias", p>>
Family == <<"family">>
StateFor(p) == Stronger(states[ExactOf(p)], states[AliasOf(p)])

(* provider_prefix_calibrated_previous_seen_buckets: a waterline far above *)
(* what is sent now says nothing.                                          *)
Calibrated(s, r) ==
  IF RawSeen(s) > Bucket(r.input) + 16384 \/ Most(s.seen128, s.read) > Bucket128(r.input) + 16384
  THEN [seen |-> r.read, seen128 |-> r.read]
  ELSE [seen |-> RawSeen(s), seen128 |-> Most(s.seen128, s.read)]

(* response_session_usage_looks_like_full_context                          *)
LooksFull(s, r) ==
  LET floor == Most(RawSeen(s), Bucket(s.input))
  IN Bucket(r.input) >= 1024 /\ r.read > 0 /\ floor >= 1024 /\ 4 * Bucket(r.input) >= 3 * floor

(* provider_prefix_break_after_warm_state                                  *)
Broken(s, r) ==
  /\ s # Empty
  /\ RawSeen(s) >= 32000 /\ Bucket(r.input) >= 32000
  /\ r.read = 0 \/ (~Ratio(r, 500) /\ 2 * r.read < RawSeen(s))

(* provider_prefix_weak_full_retry_after_session_delta                     *)
WeakRetry(s, r, retried) ==
  /\ retried /\ s # Empty
  /\ s.read >= 32000 /\ r.input >= 32000 /\ r.read # 0
  /\ r.read + 4096 < s.read /\ Bucket(r.input) + 16384 >= RawSeen(s)
  /\ ~Ratio(r, 960)

-----------------------------------------------------------------------------
(* Tails.                                                                  *)

NoTail == [source |-> Empty, items |-> 0, message |-> 0, call |-> 0, output |-> 0, largest |-> 0,
           noisy |-> FALSE]

ToolOrMixed(x) == x.source \in {"mixed", "tool_output"}

(* responses_tool_tail_burst                                               *)
Burst(x) ==
  /\ x.source \notin {"message", "tool_call"}
  /\ x.output >= 8000 \/ x.largest >= 8000 \/ (x.output >= 4096 /\ x.noisy)

(* responses_current_tail_makes_avoidable_unreliable                       *)
Unreliable(x) ==
  \/ ToolOrMixed(x) /\ (x.output >= 20000 \/ x.largest >= 20000)
  \/ x.items >= 32 /\ x.output >= 80000 /\ (ToolOrMixed(x) \/ x.noisy \/ x.message >= 8000)
  \/ x.items >= 128 /\ x.output >= 100000 /\ x.message >= 8000 /\ x.call >= 8000

(* responses_current_tail_blocks_sent_bucket_learning                      *)
BlocksLearning(x) ==
  /\ ToolOrMixed(x)
  /\ \/ x.output >= 80000 \/ x.largest >= 32000
     \/ x.items >= 32 /\ x.output >= 64000 /\ (x.noisy \/ x.message >= 8000)
     \/ x.items >= 128 /\ x.output >= 80000 /\ x.message >= 8000 /\ x.call >= 8000

(* responses_huge_dynamic_history_cold_read                                *)
HugeHistory(r, x) ==
  /\ r.input >= 32000 /\ Short(r) >= 8192 /\ ~Ratio(r, 500) /\ r.read < 32768
  /\ x.items >= 32 /\ (x.message >= 50000 \/ x.output >= 80000 \/ x.largest >= 32000)
  /\ x.source \in {"mixed", "tool_output", Empty}

-----------------------------------------------------------------------------
(* Whether the tokens just sent count as cached from now on                *)
(* (should_learn_sent_provider_bucket).                                    *)

(* responses_tail_gap_is_cache_granular, .._128_is_close_to_512_floor      *)
Granular(r) ==
  (Short(r) >= 512 /\ Short(r) % 512 = 0) \/ (Short128(r) >= 128 /\ Short128(r) % 128 = 0)
Close(r) == Short128(r) <= Short(r) + 512
AboutAsWarm(s, r, floor) == SeenEither(s) >= floor /\ r.read + 512 >= SeenEither(s)

(* responses_high_hit_fine_tail_can_learn_sent_bucket                      *)
HighHit(s, r, x) ==
  /\ Short128(r) \in 1 .. 2048 /\ Granular(r) /\ Close(r)
  /\ r.input >= 32000 /\ r.read # 0 /\ AboutAsWarm(s, r, 32000) /\ ~BlocksLearning(x)
  /\ x.message > 0 \/ x.output > 0 \/ x.largest > 0 \/ x.call > 0 \/ x.noisy \/ s.small > 0
  /\ Ratio(r, IF Short128(r) <= 512 THEN 995 ELSE IF Short128(r) <= 1024 THEN 992 ELSE 988)

(* responses_precise_tool_tail_can_learn_sent_bucket                       *)
PreciseRatio(r, x) ==
  LET compact == x.source = "tool_output" /\ x.output <= 16384 /\ x.largest <= 14336
      n == Short(r)
  IN CASE n < 2048 /\ n % 128 = 0 /\ compact -> 990
       [] ~(n < 2048 /\ n % 128 = 0) /\ n >= 512 /\ n % 512 = 0 /\ compact ->
            IF n <= 2048 THEN 965 ELSE IF n <= 4096 THEN 955 ELSE IF n <= 8192 THEN 920 ELSE 900
       [] OTHER -> IF n <= 2048 THEN 970 ELSE IF n <= 4096 THEN 950 ELSE 920
PreciseTool(s, r, x) ==
  /\ x.source \notin {"message", "tool_call"} /\ (x.output >= 512 \/ x.largest >= 512)
  /\ Short(r) \in 128 .. 12288 /\ Granular(r) /\ Close(r)
  /\ r.input >= 32000 /\ s.seen128 >= 32000 /\ ~BlocksLearning(x)
  /\ x.output < 40000 /\ x.largest < 20000
  /\ Ratio(r, PreciseRatio(r, x))

(* responses_small_residual_after_tool_burst_can_learn_sent_bucket         *)
AfterBurst(s, r, x) ==
  /\ s.output >= 8000 \/ s.largest >= 8000 \/ (s.output >= 4096 /\ s.noisy)
  /\ Short(r) \in 128 .. 4096 /\ Granular(r) /\ Close(r)
  /\ r.input >= 16000 /\ r.read # 0 /\ AboutAsWarm(s, r, 8000)
  /\ ~BlocksLearning(x) /\ ~Burst(x)
  /\ x.source \in {"message", "mixed", "tool_output", Empty}
  /\ x.output < 4096 /\ x.largest < 4096 /\ x.call < 4096
  /\ Ratio(r, IF Short(r) <= 1024 THEN 985 ELSE IF Short(r) <= 2048 THEN 965 ELSE 955)

(* responses_medium_message_tail_can_learn_sent_bucket                     *)
MediumMessage(s, r, x) ==
  /\ Short(r) \in 128 .. 8192 /\ Granular(r) /\ Close(r)
  /\ r.input >= 16000 /\ r.read # 0 /\ AboutAsWarm(s, r, 8000)
  /\ x.source \in {"message", "mixed"} /\ x.message >= 512
  /\ Ratio(r, IF Short(r) <= 1024 THEN 975 ELSE IF Short(r) <= 2048 THEN 955
              ELSE IF Short(r) <= 4096 THEN 930 ELSE 900)

(* responses_all_stage_tail_can_learn_sent_bucket                          *)
AllStage(s, r, x) ==
  /\ Short(r) >= 128 /\ Granular(r) /\ Close(r)
  /\ r.input >= 16000 /\ r.read # 0 /\ AboutAsWarm(s, r, 8000)
  /\ x.message >= 8192 \/ x.output >= 8192 \/ x.largest >= 8192 \/ x.call >= 8192
  /\ Ratio(r, IF Short(r) > 131072 THEN 900 ELSE IF Short(r) > 65536 THEN 860
              ELSE IF Short(r) > 32768 THEN 800
              ELSE IF x.source = "message" \/ Burst(x) THEN 720 ELSE 900)

LearnsSent(s, r, x, session) ==
  /\ ~session /\ r.read # 0 /\ s # Empty
  /\ s.read # 0 /\ s.seen128 # 0
  /\ \/ HighHit(s, r, x) \/ PreciseTool(s, r, x) \/ AfterBurst(s, r, x)
     \/ MediumMessage(s, r, x) \/ AllStage(s, r, x)
     \/ /\ Short128(r) > 2048 /\ Short(r) \in 2560 .. 4096 /\ Granular(r) /\ Close(r)
        /\ r.input >= 32000 /\ Ratio(r, 980) /\ ~BlocksLearning(x) /\ x.output < 40000

(* should_learn_provider_prefix_family_state                               *)
LearnsFamily(r, x) ==
  /\ r.input >= 1024 /\ r.read # 0
  /\ \/ /\ x.source = "tool_output" /\ x.output \in 1 .. 12288 /\ x.largest <= 12288
        /\ Short(r) \in 1 .. 4096 /\ Short(r) % 512 = 0 /\ Ratio(r, 975)
     \/ ~Burst(x) /\ Ratio(r, 900)

-----------------------------------------------------------------------------
(* PrefixController                                                        *)

(* responses_small_avoidable_tail_granularity                              *)
TailGranularity(s, r, direct, x) ==
  /\ s # Empty /\ direct \in 1 .. 512 /\ Short128(r) <= 1024
  /\ r.input >= 32000 /\ r.read >= 32000 /\ Ratio(r, 990)
  /\ ~Burst(x) /\ x.output < 1024 /\ x.call < 1024
  /\ s.streak >= 2 \/ s.small >= 3 \/ s.unstable >= 3

(* responses_cap_exhausted_provider_waterline_rollback                     *)
Rollback(s, r, direct, x, exhausted) ==
  LET seen == Strength(s)
  IN /\ s # Empty /\ exhausted
     /\ direct \in 1 .. 4096 /\ direct % 128 = 0
     /\ Short128(r) \in 1 .. 4096 /\ Short128(r) % 128 = 0
     /\ r.input >= 32000 /\ r.read >= 32000 /\ Ratio(r, 960)
     /\ seen >= 32000 /\ r.read < seen /\ r.read + 4096 >= seen /\ Less(r.input, s.input) <= 8192
     /\ ~Burst(x) /\ x.output < 4096 /\ x.call < 4096

(* gap_evidence                                                            *)
Evidence(s, r, x, exhausted) ==
  LET was == IF s = Empty THEN [seen |-> 0, seen128 |-> 0] ELSE Calibrated(s, r)
      direct == Less(Least(was.seen, Bucket(r.input)), r.read)
      direct128 == Less(Least(was.seen128, Bucket128(r.input)), r.read)
      granular == TailGranularity(s, r, direct128, x)
      rollback == Rollback(s, r, direct128, x, exhausted)
      counts == ~(rollback \/ granular \/ Unreliable(x))
  IN [seen |-> was.seen, seen128 |-> was.seen128, direct |-> direct,
      avoidable |-> IF counts THEN direct ELSE 0, avoidable128 |-> IF counts THEN direct128 ELSE 0,
      granular |-> granular, rollback |-> rollback]

(* observe: what to remember instead of s, Empty if nothing.  A read that  *)
(* broke off a warm prefix keeps its waterline.                            *)
HardBreak(s, r, x) == (Broken(s, r) /\ (r.input >= 32000 \/ Burst(x))) \/ HugeHistory(r, x)
IsBreak(s, r, x, retried) == HardBreak(s, r, x) \/ WeakRetry(s, r, retried)

Preserved(s, r, x) ==
  [fresh |-> TRUE, input |-> s.input, read |-> s.read, short |-> Short(r), short128 |-> Short128(r),
   seen |-> s.seen, seen128 |-> s.seen128, avoidable |-> 0, avoidable128 |-> 0, streak |-> 0,
   small |-> 0, unstable |-> Least(8, s.unstable + IF HardBreak(s, r, x) THEN 2 ELSE 1),
   output |-> x.output, largest |-> x.largest, noisy |-> x.noisy]

Instability(was, r, e) ==
  LET large == Most(e.avoidable, e.avoidable128)
  IN CASE r.read = 0 /\ Bucket(r.input) >= 32000 -> Least(8, was + 3)
       [] ~(r.read = 0 /\ Bucket(r.input) >= 32000) /\ (e.rollback \/ large \in 1 .. 4095) -> Least(8, was + 1)
       [] ~(r.read = 0 /\ Bucket(r.input) >= 32000) /\ ~e.rollback /\ large >= 4096 -> Least(8, was + 2)
       [] ~e.rollback /\ large = 0 /\ Short128(r) <= 512 /\ r.read >= 1024 -> Less(was, 1)
       [] OTHER -> was

Learned(s, r, x, session, exhausted) ==
  LET e == Evidence(s, r, x, exhausted)
      Was(field) == IF s = Empty THEN 0 ELSE s[field]
      small == Short128(r) \in 1 .. 2048
      sent == ~e.rollback /\ ~e.granular /\ LearnsSent(s, r, x, session)
      mark == IF sent THEN Bucket(r.input) ELSE r.read
      mark128 == IF sent THEN Bucket128(r.input) ELSE r.read
      dropped == e.rollback \/ e.granular
  IN [fresh |-> TRUE, input |-> r.input, read |-> r.read,
      short |-> Short(r), short128 |-> Short128(r),
      seen |-> IF dropped THEN Most(r.read, mark) ELSE Most(Most(e.seen, r.read), mark),
      seen128 |-> IF dropped THEN Most(r.read, mark128) ELSE Most(Most(e.seen128, r.read), mark128),
      avoidable |-> e.avoidable, avoidable128 |-> e.avoidable128,
      streak |-> IF e.avoidable > 0 \/ e.avoidable128 > 0 THEN Was("streak") + 1 ELSE 0,
      small |-> IF small THEN Was("small") + 1
                ELSE IF Was("small") > 0 /\ Short128(r) = 0 THEN 1 ELSE 0,
      unstable |-> Instability(Was("unstable"), r, e),
      output |-> x.output, largest |-> x.largest, noisy |-> x.noisy]

(* provider_prefix_usage_is_safe_to_learn                                  *)
SafeToLearn(s, r, session, retried) == ~session \/ retried \/ (s # Empty /\ LooksFull(s, r))

Observation(s, r, x, session, retried, exhausted) ==
  IF r.input = 0 THEN Empty
  ELSE IF IsBreak(s, r, x, retried) THEN (IF s = Empty THEN Empty ELSE Preserved(s, r, x))
  ELSE IF SafeToLearn(s, r, session, retried) THEN Learned(s, r, x, session, exhausted)
  ELSE Empty

FamilyLearns(s, r, x, session, retried, exhausted) ==
  /\ r.input # 0 /\ ~IsBreak(s, r, x, retried) /\ SafeToLearn(s, r, session, retried)
  /\ ~Evidence(s, r, x, exhausted).rollback /\ LearnsFamily(r, x)

(* classify_gap                                                            *)
Gap(exact, best, family, r, x, exhausted) ==
  LET total == IF r.input < 1024 THEN 0 ELSE Short(r)
      dynamic == Unreliable(x) \/ Burst(x) \/ x.output >= 80000 \/ x.message >= 80000
      cold == \/ Broken(exact, r)
              \/ Broken(best, r) /\ dynamic
              \/ exact = Empty /\ best = Empty /\ ((Broken(family, r) /\ dynamic) \/ HugeHistory(r, x))
      e == Evidence(best, r, x, exhausted)
      unstable == IF r.input < 1024 THEN 0 ELSE IF cold THEN total ELSE IF e.rollback THEN e.direct ELSE 0
      avoidable == IF r.input < 1024 \/ cold \/ unstable > 0 \/ e.granular THEN 0 ELSE e.avoidable
  IN [total |-> total, avoidable |-> avoidable, unstable |-> unstable,
      tail |-> Less(Less(total, avoidable), unstable)]

-----------------------------------------------------------------------------
(* How long a turn waits.                                                  *)

WaitCap == 1000        \* responses_foreground_wait_cap
TooOld == 30000    \* MAX_EXACT_EVIDENCE_AGE

(* prefix_guard_wait_budget_for_channel                                    *)
Budget(elapsed) == Less(WaitCap, elapsed)

RequestedWait(avoidable) == Least(1000, 500 + (avoidable * 500) \div 2048)

(* before_request                                                          *)
BeforeRequest(isExact, avoidable, age, budget) ==
  IF ~isExact \/ avoidable = 0 \/ age >= TooOld THEN [wait |-> 0, exhausted |-> FALSE]
  ELSE [wait |-> Least(RequestedWait(avoidable), Least(budget, WaitCap)),
        exhausted |-> Least(budget, WaitCap) < RequestedWait(avoidable)]

(* provider_prefix_settle_delay                                            *)
SettleDelay(s) ==
  LET n == Most(s.avoidable128, s.avoidable)
      short == Most(s.short128, s.short)
  IN CASE s.input = 0 \/ Strength(s) = 0 -> 0
       [] s.input # 0 /\ Strength(s) # 0 /\ s.read = 0 ->
            IF s.input >= 128000 THEN 22000 ELSE IF s.input >= 32000 THEN 12000 ELSE 4000
       [] s.read # 0 /\ n > 512 ->
            IF n > 65536 THEN 45000 ELSE IF n > 32768 THEN 32000 ELSE IF n > 16384 THEN 24000
            ELSE IF n > 4096 THEN 18000 ELSE IF n > 1024 THEN 12000 ELSE 3000
       [] s.read # 0 /\ n \in 1 .. 512 ->
            IF s.streak >= 4 THEN 2400 ELSE IF s.streak = 3 THEN 1800
            ELSE IF s.streak = 2 \/ n > 256 THEN 1500 ELSE IF n > 128 THEN 700 ELSE 350
       [] OTHER ->
            IF s.input >= 128000 /\ short > 512 THEN 1500
            ELSE IF short > 1024 \/ (s.input >= 128000 /\ short > 0) THEN 900
            ELSE IF short > 512 THEN 450 ELSE IF short > 256 THEN 300
            ELSE IF short > 128 THEN 200 ELSE IF short > 0 THEN 100 ELSE 150

(* chat_provider_prefix_settle_delay                                       *)
ChatSettleDelay(s) ==
  IF s.input < 32000 \/ s.read = 0 THEN SettleDelay(s)
  ELSE LET n == Most(s.avoidable128, s.avoidable)
           floor == IF n > 16384 \/ Most(s.short128, s.short) > 0 THEN WaitCap ELSE 250
       IN Least(WaitCap, Most(SettleDelay(s), floor))

(* wait_for_provider_prefix_settle: the state that speaks for the turn is  *)
(* its own unless the family's is stronger.                                *)
SettleWait(a, age, elapsed) ==
  LET family == IF a.channel = "Responses" THEN states[Family] ELSE Empty
      s == Stronger(StateFor(a.prefix), family)
      own == StateFor(a.prefix) # Empty /\ s = StateFor(a.prefix)
  IN IF s = Empty THEN [wait |-> 0, exhausted |-> FALSE]
     ELSE IF a.channel = "Responses"
     THEN BeforeRequest(own, Most(s.avoidable128, s.avoidable), age, Budget(elapsed))
     ELSE [wait |-> Less(ChatSettleDelay(s), age), exhausted |-> FALSE]

-----------------------------------------------------------------------------
(* Turns.                                                                  *)

NoTurnYet == [phase |-> "new", ask |-> Empty, elapsed |-> 0, waited |-> 0, exhausted |-> FALSE,
            record |-> Empty, tail |-> Empty, effective |-> Empty]

PrefixInit ==
  /\ prefixTurn = [t \in PrefixTurns |-> NoTurnYet]
  /\ \E z \in Restored :
       /\ states = [k \in {Family} \cup {ExactOf(p) : p \in PrefixKeys} \cup {AliasOf(p) : p \in PrefixKeys} |->
                     IF k = Family THEN Empty ELSE z[k[2]].warm]
       /\ most = [p \in PrefixKeys |-> z[p].most]
  /\ guard = [p \in PrefixKeys |-> Empty]
  /\ talk = [c \in {a.session : a \in PrefixAsks} |-> Empty]

At(t, phase) == prefixTurn[t].phase = phase
To(t, z) == prefixTurn' = [prefixTurn EXCEPT ![t] = z]

(* What the proxy did before it came to the lock took a while.             *)
Enter(t, a, took) ==
  /\ At(t, "new")
  /\ To(t, [NoTurnYet EXCEPT !.phase = IF a.guarded THEN "queued" ELSE "ready", !.ask = a, !.elapsed = took])
  /\ UNCHANGED <<states, guard, talk, most>>

(* acquire_provider_prefix_guard: for a Responses turn the lock comes      *)
(* within the cap or not at all.                                           *)
Lock(t, w) ==
  LET z == prefixTurn[t]
  IN /\ At(t, "queued") /\ guard[z.ask.prefix] = Empty
     /\ z.ask.channel = "Responses" => w < WaitCap
     /\ To(t, [z EXCEPT !.phase = "locked", !.elapsed = @ + w, !.waited = w])
     /\ guard' = [guard EXCEPT ![z.ask.prefix] = t]
     /\ UNCHANGED <<states, talk, most>>

LockTimesOut(t) ==
  LET z == prefixTurn[t]
  IN /\ At(t, "queued") /\ guard[z.ask.prefix] # Empty /\ z.ask.channel = "Responses"
     /\ To(t, [z EXCEPT !.phase = "ready", !.elapsed = @ + WaitCap, !.waited = WaitCap])
     /\ UNCHANGED <<states, guard, talk, most>>

WaitToSettle(t, age) ==
  LET z == prefixTurn[t]
      w == SettleWait(z.ask, age, z.elapsed)
      speaks == Stronger(StateFor(z.ask.prefix), states[Family])
  IN /\ At(t, "locked")
     /\ speaks # Empty => (age < TooOld) = speaks.fresh
     /\ To(t, [z EXCEPT !.phase = "ready", !.elapsed = @ + w.wait, !.waited = @ + w.wait,
                        !.exhausted = w.exhausted])
     /\ UNCHANGED <<states, guard, talk, most>>

(* acquire_response_session_guard                                          *)
LockTalk(t) ==
  LET z == prefixTurn[t]
      locks == z.ask.guarded /\ z.ask.channel = "Responses"
  IN /\ At(t, "ready")
     /\ locks => talk[z.ask.session] = Empty
     /\ To(t, [z EXCEPT !.phase = "sent", !.elapsed = 0, !.waited = 0])
     /\ talk' = IF locks THEN [talk EXCEPT ![z.ask.session] = t] ELSE talk
     /\ UNCHANGED <<states, guard, most>>

LetGo(t) ==
  /\ guard' = [p \in PrefixKeys |-> IF guard[p] = t THEN Empty ELSE guard[p]]
  /\ talk' = [c \in DOMAIN talk |-> IF talk[c] = t THEN Empty ELSE talk[c]]

(* The answer of a stream is read without the locks (stream_upstream), any *)
(* other one with them.  A provider may count what it read as part of the  *)
(* input or beside it.                                                     *)
UsageArrives(t, r, x) ==
  LET z == prefixTurn[t]
      p == z.ask.prefix
  IN /\ At(t, "sent")
     /\ To(t, [z EXCEPT !.phase = "answered", !.record = r,
                        !.tail = IF z.ask.channel = "Responses" THEN x ELSE NoTail])
     /\ most' = [most EXCEPT ![p] = Most(@, Most(r.input, r.read))]
     /\ IF z.ask.stream THEN LetGo(t) ELSE UNCHANGED <<guard, talk>>
     /\ UNCHANGED states

Fails(t) ==
  /\ At(t, "sent")
  /\ To(t, [NoTurnYet EXCEPT !.phase = "done"])
  /\ LetGo(t)
  /\ UNCHANGED <<states, most>>

(* collect_provider_usage: the usage of a continuation stands for its own  *)
(* tokens only, unless it looks like that of the whole conversation.       *)
Collect(t) ==
  LET z == prefixTurn[t]
      s == StateFor(z.ask.prefix)
      isDelta == z.ask.sent = "delta" /\ (s = Empty \/ ~LooksFull(s, z.record))
  IN /\ At(t, "answered")
     /\ To(t, [z EXCEPT !.phase = "collected",
                        !.effective = IF isDelta /\ z.ask.learns
                                      THEN [z.record EXCEPT !.read = Most(@, Bucket(z.record.input))]
                                      ELSE z.record])
     /\ UNCHANGED <<states, guard, talk, most>>

(* observe_provider_prefix_usage                                           *)
Observe(t) ==
  LET z == prefixTurn[t]
      p == z.ask.prefix
      session == z.ask.sent = "delta"
      retried == z.ask.sent = "again"
      s == StateFor(p)
      next == IF z.ask.learns THEN Observation(s, z.effective, z.tail, session, retried, z.exhausted)
              ELSE Empty
      family == z.ask.channel = "Responses"
                /\ FamilyLearns(s, z.effective, z.tail, session, retried, z.exhausted)
      keys == {ExactOf(p), AliasOf(p)} \cup IF family THEN {Family} ELSE {}
  IN /\ At(t, "collected")
     /\ states' = IF next = Empty THEN states
                  ELSE [k \in DOMAIN states |-> IF k \in keys THEN next ELSE states[k]]
     /\ To(t, [NoTurnYet EXCEPT !.phase = "done"])
     /\ LetGo(t)
     /\ UNCHANGED most

(* Half a minute passes.                                                   *)
GrowOld ==
  /\ \E k \in DOMAIN states : states[k] # Empty /\ states[k].fresh
  /\ states' = [k \in DOMAIN states |-> IF states[k] = Empty THEN Empty ELSE [states[k] EXCEPT !.fresh = FALSE]]
  /\ UNCHANGED <<prefixTurn, guard, talk, most>>

PrefixNext ==
  \/ \E t \in PrefixTurns :
       \/ \E a \in PrefixAsks, took \in Waits : Enter(t, a, took)
       \/ \E w \in Waits : Lock(t, w)
       \/ LockTimesOut(t)
       \/ \E age \in Ages : WaitToSettle(t, age)
       \/ LockTalk(t)
       \/ \E r \in Records, x \in Tails : UsageArrives(t, r, x)
       \/ Fails(t)
       \/ Collect(t)
       \/ Observe(t)
  \/ GrowOld

PrefixSpec == PrefixInit /\ [][PrefixNext]_prefixVars

-----------------------------------------------------------------------------
(* PROPERTIES *)

(* "Keep the hard foreground wait ceiling at one second": waiting for the  *)
(* prefix's lock and waiting for the provider to settle share one second.  *)
(* That is said of Responses turns; a Chat turn waits for the lock as long *)
(* as it takes, and the lock of the conversation has no ceiling either.    *)
ForegroundWaitIsBounded ==
  \A t \in PrefixTurns :
    prefixTurn[t].ask # Empty /\ prefixTurn[t].ask.channel = "Responses" => prefixTurn[t].waited <= WaitCap

(* A waterline speaks of tokens that were sent: no state says that more of *)
(* a prefix was seen than a turn of it was reported to have, as input or   *)
(* as read.  If one did, every later turn would seem to have missed the    *)
(* cache and be made to wait.                                              *)
WaterlineWasSent ==
  \A p \in PrefixKeys : \A k \in {ExactOf(p), AliasOf(p)} :
    states[k] # Empty => Strength(states[k]) <= most[p]

(* The gap a turn is reported with falls into three parts that add up to   *)
(* it, and what is called avoidable was sent before: it is charged to the  *)
(* proxy's own account.                                                    *)
GapsAddUp ==
  \A t \in PrefixTurns : prefixTurn[t].phase = "collected" =>
    LET z == prefixTurn[t]
        g == Gap(states[ExactOf(z.ask.prefix)], StateFor(z.ask.prefix),
                 IF z.ask.channel = "Responses" THEN states[Family] ELSE Empty,
                 z.record, z.tail, z.exhausted)
    IN g.total = g.tail + g.avoidable + g.unstable

(* The three together: however the reports of concurrent turns interleave, *)
(* the evidence a turn waits on, the account it is charged to and the wait *)
(* it makes of them stay within what was sent and what was promised.       *)
PrefixEvidenceIsSound ==
  WaterlineWasSent /\ GapsAddUp /\ ForegroundWaitIsBounded

(* What is asked of the constants: a usage counts tokens, times are        *)
(* naturals, and what a prefix is restored with is a state whose waterline *)
(* was sent.                                                               *)
PrefixStates ==
  [fresh : BOOLEAN, input : Nat, read : Nat, short : Nat, short128 : Nat, seen : Nat, seen128 : Nat,
   avoidable : Nat, avoidable128 : Nat, streak : Nat, small : Nat, unstable : Nat,
   output : Nat, largest : Nat, noisy : BOOLEAN]

SoundUsages ==
  /\ \A r \in Records : r \in [input : Nat, read : Nat]
  /\ \A x \in Tails : x.output \in Nat /\ x.largest \in Nat /\ x.noisy \in BOOLEAN
  /\ Waits \subseteq Nat /\ Ages \subseteq Nat
  /\ \A a \in PrefixAsks : a.prefix \in PrefixKeys
  /\ \A z \in Restored, p \in PrefixKeys :
       /\ z[p].most \in Nat
       /\ z[p].warm # Empty => z[p].warm \in PrefixStates /\ Strength(z[p].warm) <= z[p].most
=============================================================================

----------------------------- MODULE RuntimeState -----------------------------
(***************************************************************************)
(* The runtime state that survives a restart: persist_runtime_state and    *)
(* load_runtime_state (src/src-tauri/src/state.rs) with the callers that   *)
(* change a map and then save all three (src/src-tauri/src/proxy/mod.rs).  *)
(*                                                                         *)
(* A save clones the three maps one lock after the other and writes the    *)
(* file outside any lock, first truncating it.  Saves of concurrent turns  *)
(* overlap, and the program can stop at any point of one.                  *)
(*                                                                         *)
(* One entry of each map is modelled.  An entry carries the age the        *)
(* program computes for it and, as history, the age it really has; ages    *)
(* stop counting once they are past every limit.                           *)
(***************************************************************************)
EXTENDS Naturals

CONSTANTS
  Savers,      \* turns that may be saving at a time
  PrefixTTL,   \* PREFIX_RUNTIME_STATE_TTL, in ticks
  SessionTTL,  \* RUNTIME_STATE_TTL
  CoolSpan,    \* RESPONSE_SESSION_ERROR_COOLDOWN_LONG_SECS
  None,        \* no entry
  Torn         \* a file that does not parse

ASSUME SpanAssumption ==
  /\ PrefixTTL \in Nat /\ SessionTTL \in Nat /\ CoolSpan \in Nat
  /\ PrefixTTL <= SessionTTL

Oldest == SessionTTL + 1
Ages == 0 .. Oldest

(* reborn: the age was lost because the machine had just been started.     *)
Entries == [age : Ages, real : Ages, reborn : BOOLEAN]
ASSUME SentinelAssumption == None \notin Entries

(* left: what the program takes to be left of the cooldown.                *)
Cooldowns == [left : 0 .. CoolSpan, real : 0 .. CoolSpan]

Images == [prefix : Entries \cup {None}, session : Entries \cup {None}, cool : Cooldowns]
ASSUME TornAssumption == Torn \notin Images

VARIABLES
  running,   \* the program is up
  memory,    \* prefix_states, response_sessions, unsupported cooldowns
  file,      \* runtime-state.json
  saver,     \* [Savers -> record], saves in progress
  whole      \* the last save ran alone and nothing has changed since (history)

vars == <<running, memory, file, saver, whole>>

Phases == {"idle", "prefix", "sessions", "cooldowns", "open", "write"}

TypeOK ==
  /\ running \in BOOLEAN
  /\ memory \in Images
  /\ file \in Images \cup {Torn}
  /\ saver \in [Savers -> [pc : Phases, copy : Images,
                                crossed : BOOLEAN,  \* another save has filled the file
                                alone : BOOLEAN]]   \* no save has overlapped it (history)
  /\ whole \in BOOLEAN

-----------------------------------------------------------------------------
Empty == [prefix |-> None, session |-> None, cool |-> [left |-> 0, real |-> 0]]
Fresh == [age |-> 0, real |-> 0, reborn |-> FALSE]
NoSave == [pc |-> "idle", copy |-> Empty, crossed |-> FALSE, alone |-> FALSE]
Idle == {s \in Savers : saver[s].pc = "idle"}

(* The program has started once without a file.                            *)
Init ==
  /\ running = TRUE
  /\ memory = Empty
  /\ file = Empty
  /\ saver = [s \in Savers |-> NoSave]
  /\ whole = TRUE

-----------------------------------------------------------------------------
(* What goes to the file and comes back.                                   *)

Kept(e, ttl) == IF e = None \/ e.age > ttl THEN None ELSE e

(* Mutation of SavedSession: the time of the save replaces the session's.  *)
SavedNow(e) == IF e = None \/ e.age > SessionTTL THEN None ELSE [e EXCEPT !.age = 0]

(* saved_at of a session is when it finished, that of a prefix state is    *)
(* the time of the save.                                                   *)
SavedSession(e) == Kept(e, SessionTTL)
SavedPrefix(e) == IF Kept(e, PrefixTTL) = None THEN None ELSE [e EXCEPT !.age = 0]

(* Mutation of Saved: the cooldowns are left out.                          *)
SavedHalf(m) == [prefix |-> SavedPrefix(m.prefix), session |-> SavedSession(m.session),
                 cool |-> Empty.cool]

(* PersistedRuntimeState::from_runtime                                     *)
Saved(m) == [prefix |-> SavedPrefix(m.prefix), session |-> SavedSession(m.session),
             cool |-> m.cool]

(* An Instant before the machine was started cannot be had everywhere: the *)
(* age is then taken to be none.                                           *)
Aged(e, uptime) ==
  IF e # None /\ uptime < e.age THEN [e EXCEPT !.age = 0, !.reborn = TRUE] ELSE e

(* Mutation of Cooled: the cooldown starts again.                          *)
CooledAgain(c) == IF c.left = 0 THEN c ELSE [c EXCEPT !.left = CoolSpan]

(* until_at is absolute; what is left is capped.                           *)
Cooled(c) == [c EXCEPT !.left = IF @ > CoolSpan THEN CoolSpan ELSE @]

(* into_runtime                                                            *)
Restored(f, uptime) ==
  [prefix |-> Aged(Kept(f.prefix, PrefixTTL), uptime),
   session |-> Aged(Kept(f.session, SessionTTL), uptime),
   cool |-> Cooled(f.cool)]

-----------------------------------------------------------------------------
(* The changes: each is made under the lock of its map, by a turn that     *)
(* then saves.                                                             *)

Change(s, m) ==
  /\ running /\ saver[s].pc = "idle"
  /\ memory' = m
  /\ saver' = [z \in Savers |->
       IF z = s THEN [NoSave EXCEPT !.pc = "prefix", !.alone = Idle = Savers]
       ELSE [saver[z] EXCEPT !.alone = FALSE]]
  /\ whole' = FALSE
  /\ UNCHANGED <<running, file>>

LearnPrefix(s) == Change(s, [memory EXCEPT !.prefix = Fresh])
StoreSession(s) == Change(s, [memory EXCEPT !.session = Fresh])
ClearSession(s) == Change(s, [memory EXCEPT !.session = None])
NoteUnsupported(s) ==
  Change(s, [memory EXCEPT !.cool = [left |-> CoolSpan, real |-> CoolSpan]])

(* A transient cooldown replaces the entry, and is not saved.              *)
NoteTransient(s) == Change(s, [memory EXCEPT !.cool = Empty.cool])

(* persist_runtime_state: three clones, one lock each, ...                 *)
Clone(s, pc, map, then) ==
  /\ saver[s].pc = pc
  /\ saver' = [saver EXCEPT ![s].pc = then, ![s].copy[map] = memory[map]]
  /\ UNCHANGED <<running, memory, file, whole>>

ClonePrefix(s) == Clone(s, "prefix", "prefix", "sessions")
CloneSessions(s) == Clone(s, "sessions", "session", "cooldowns")
CloneCooldowns(s) == Clone(s, "cooldowns", "cool", "open")

(* ... then fs::write truncates the file ...                               *)
Open(s) ==
  /\ saver[s].pc = "open"
  /\ file' = Torn
  /\ saver' = [saver EXCEPT ![s].pc = "write", ![s].copy = Saved(@)]
  /\ UNCHANGED <<running, memory, whole>>

(* ... and fills it.  If another save has filled it in between, the end of *)
(* a longer text may be left behind this one.                              *)
Write(s) ==
  /\ saver[s].pc = "write"
  /\ file' \in {saver[s].copy} \cup (IF saver[s].crossed THEN {Torn} ELSE {})
  /\ saver' = [z \in Savers |->
       IF z = s THEN NoSave
       ELSE [saver[z] EXCEPT !.crossed = saver[z].pc = "write"]]
  /\ whole' = saver[s].alone
  /\ UNCHANGED <<running, memory>>

-----------------------------------------------------------------------------
(* The program ends, whatever is in progress; nothing is saved on the way. *)
Stop ==
  /\ running
  /\ running' = FALSE
  /\ memory' = Empty
  /\ saver' = [s \in Savers |-> NoSave]
  /\ whole' = FALSE
  /\ UNCHANGED file

(* AppState::load; a file that does not parse keeps it from starting.      *)
Start ==
  /\ ~running /\ file # Torn
  /\ running' = TRUE
  /\ \E uptime \in {0, Oldest} : memory' = Restored(file, uptime)
  /\ UNCHANGED <<file, saver, whole>>

Older(e) ==
  IF e = None THEN None
  ELSE [e EXCEPT !.age = IF @ < Oldest THEN @ + 1 ELSE @,
                 !.real = IF @ < Oldest THEN @ + 1 ELSE @]
Cooler(c) == [left |-> IF c.left > 0 THEN c.left - 1 ELSE 0,
              real |-> IF c.real > 0 THEN c.real - 1 ELSE 0]
Later(m) == [prefix |-> Older(m.prefix), session |-> Older(m.session), cool |-> Cooler(m.cool)]

(* Time passes.                                                            *)
Tick ==
  /\ memory' = Later(memory)
  /\ file' = IF file = Torn THEN Torn ELSE Later(file)
  /\ saver' = [s \in Savers |-> [saver[s] EXCEPT !.copy = Later(@)]]
  /\ UNCHANGED <<running, whole>>

Next ==
  \/ \E s \in Savers :
       \/ LearnPrefix(s) \/ StoreSession(s) \/ ClearSession(s)
       \/ NoteUnsupported(s) \/ NoteTransient(s)
       \/ ClonePrefix(s) \/ CloneSessions(s) \/ CloneCooldowns(s) \/ Open(s) \/ Write(s)
  \/ Stop
  \/ Start
  \/ Tick

Spec == Init /\ [][Next]_vars

-----------------------------------------------------------------------------
(* PROPERTIES *)

(* The entries a start may bring back, and those already in memory.        *)
Sessions == {e \in {memory.session} \cup (IF file = Torn THEN {} ELSE {file.session}) : e # None}

(* A session is continued for at most its time to live, across any number  *)
(* of saves and restarts of the program: none of them makes it younger,    *)
(* unless the machine was restarted too and its clock has no time that far *)
(* back.                                                                   *)
SessionsExpire ==
  \A e \in Sessions : e.age <= SessionTTL => e.real <= SessionTTL \/ e.reborn

(* A cooldown brought back by a restart is not longer than the one that    *)
(* was noted.                                                              *)
CooldownNotProlonged == memory.cool.left <= memory.cool.real

(* Both: no number of saves and restarts gives anything more time.         *)
RestartsProlongNothing == SessionsExpire /\ CooldownNotProlonged

(* A save that no other save overlapped leaves all of the state in the     *)
(* file: as long as nothing changes, a restart brings back the session and *)
(* the cooldown, not one of the two.                                       *)
SavedWhole ==
  running /\ whole =>
    /\ file # Torn
    /\ file.cool = memory.cool
    /\ SavedSession(file.session) = SavedSession(memory.session)

-----------------------------------------------------------------------------
(* What the documents say and the code does not do.                        *)

(* "The runtime state only keeps data of the last 30 minutes": the file    *)
(* holds no prefix state that a start would take and that is older.  Each  *)
(* save stamps every prefix state with the time of the save.               *)
PrefixStatesExpire ==
  file # Torn /\ file.prefix # None =>
    (file.prefix.age <= PrefixTTL => file.prefix.real <= SessionTTL)

(* "The state is saved to runtime-state.json and can be restored after a   *)
(* restart": a program that has ended leaves a file that can be read.      *)
CanBeRestored == ~running => file # Torn
=============================================================================

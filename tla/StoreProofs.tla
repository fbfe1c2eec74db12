----------------------------- MODULE StoreProofs -----------------------------
(***************************************************************************)
(* Proofs about the two stores that outlive the program: RuntimeState, for *)
(* any savers and limits, and ResponseCache, for any requests and targets, *)
(* any similarity of words, any number of turns and any limits.            *)
(*                                                                         *)
(* Of the state: no number of saves, program ends and restarts prolongs a  *)
(* session or a cooldown, and a save that was alone leaves all of it in    *)
(* the file.  What makes the first hold is said of every image there is,   *)
(* those that are being saved included: the age computed for a session is  *)
(* never less than its true one, unless it was reborn, and a cooldown      *)
(* never has more left than it really has.                                 *)
(*                                                                         *)
(* Of the cache: entries are in four places, the memory, the file, what a  *)
(* persist is writing and what the start-up task has read.  Both           *)
(* properties are about the first two, and hold because of what is said of *)
(* all four.                                                               *)
(***************************************************************************)
EXTENDS RuntimeState, ResponseCache, TLAPS

Honest == {e \in Entries : e.reborn \/ e.real <= e.age} \cup {None}
Short == {c \in Cooldowns : c.left <= c.real}
Sound == [prefix : Entries \cup {None}, session : Honest, cool : Short]
Saves == [pc : Phases, copy : Sound, crossed : BOOLEAN, alone : BOOLEAN]

SoundInv ==
  /\ running \in BOOLEAN
  /\ memory \in Sound
  /\ file \in Sound \cup {Torn}
  /\ saver \in [Savers -> Saves]
  /\ whole \in BOOLEAN

-----------------------------------------------------------------------------
(* What the operators make of a sound image.                               *)

(* An image with nothing in it is sound, and so is a save not begun.       *)
LEMMA EmptyIsSound == Empty \in Sound /\ NoSave \in Saves
<1>1. [left |-> 0, real |-> 0] \in Short
  BY SpanAssumption DEF Short, Cooldowns
<1>2. Empty \in Sound
  BY <1>1 DEF Empty, Sound, Honest
<1>3. QED
  BY <1>2 DEF NoSave, Saves, Phases

(* What was just stored has no age.                                        *)
LEMMA FreshIsHonest == Fresh \in Honest /\ Fresh \in Entries
BY SpanAssumption DEF Fresh, Honest, Entries, Ages, Oldest

(* A cooldown that was just noted has all of its time left.                *)
LEMMA FullIsShort == [left |-> CoolSpan, real |-> CoolSpan] \in Short
BY SpanAssumption DEF Short, Cooldowns

(* A save keeps a session as it is or drops it; only prefix states are     *)
(* given a new time.                                                       *)
LEMMA SavedIsSound ==
  ASSUME NEW m \in Sound
  PROVE  Saved(m) \in Sound
<1>1. m.prefix \in Entries \cup {None} /\ m.session \in Honest /\ m.cool \in Short
  BY DEF Sound
<1>2. SavedSession(m.session) \in Honest
  BY <1>1 DEF SavedSession, Kept, Honest
<1>3. SavedPrefix(m.prefix) \in Entries \cup {None}
  BY <1>1, SpanAssumption DEF SavedPrefix, Kept, Entries, Ages, Oldest
<1>4. QED
  BY <1>1, <1>2, <1>3 DEF Saved, Sound

(* An age is only ever lost together with the mark that says so.           *)
LEMMA AgedIsHonest ==
  ASSUME NEW e \in Entries \cup {None}, NEW uptime
  PROVE  /\ Aged(e, uptime) \in Entries \cup {None}
         /\ e \in Honest => Aged(e, uptime) \in Honest
<1>1. CASE e # None /\ uptime < e.age
  <2>1. Aged(e, uptime) = [e EXCEPT !.age = 0, !.reborn = TRUE]
    BY <1>1 DEF Aged
  <2>2. e \in Entries /\ 0 \in Ages
    BY <1>1, SpanAssumption DEF Ages, Oldest
  <2>3. Aged(e, uptime) \in Entries /\ Aged(e, uptime).reborn
    BY <2>1, <2>2 DEF Entries
  <2>4. QED
    BY <2>3 DEF Honest
<1>2. CASE ~(e # None /\ uptime < e.age)
  BY <1>2 DEF Aged
<1>3. QED
  BY <1>1, <1>2

(* A start brings back a sound image: what is left of a cooldown is at     *)
(* most what the file says.                                                *)
LEMMA RestoredIsSound ==
  ASSUME NEW f \in Sound, NEW uptime
  PROVE  Restored(f, uptime) \in Sound
<1>1. f.prefix \in Entries \cup {None} /\ f.session \in Honest /\ f.cool \in Short
  BY DEF Sound
<1>2. Kept(f.prefix, PrefixTTL) \in Entries \cup {None}
  BY <1>1 DEF Kept
<1>3. Kept(f.session, SessionTTL) \in Honest
  BY <1>1 DEF Kept, Honest
<1>4. Kept(f.session, SessionTTL) \in Entries \cup {None}
  BY <1>3 DEF Honest
<1>5. Aged(Kept(f.prefix, PrefixTTL), uptime) \in Entries \cup {None}
  BY <1>2, AgedIsHonest
<1>6. Aged(Kept(f.session, SessionTTL), uptime) \in Honest
  BY <1>3, <1>4, AgedIsHonest
<1>7. Cooled(f.cool) \in Short
  BY <1>1, SpanAssumption DEF Cooled, Short, Cooldowns
<1>8. QED
  BY <1>5, <1>6, <1>7 DEF Restored, Sound

(* A tick more, up to the limit.                                           *)
LEMMA TickOfAnAge ==
  ASSUME NEW a \in Ages
  PROVE  (IF a < Oldest THEN a + 1 ELSE a) \in Ages
BY SpanAssumption DEF Ages, Oldest

(* Both ages of an entry grow together and stop at the same limit.         *)
LEMMA OlderIsHonest ==
  ASSUME NEW e \in Entries \cup {None}
  PROVE  /\ Older(e) \in Entries \cup {None}
         /\ e \in Honest => Older(e) \in Honest
<1>1. CASE e = None
  BY <1>1 DEF Older, Honest
<1>2. CASE e # None
  <2>1. e \in Entries
    BY <1>2
  <2>2. Older(e) \in Entries
    <3>1. e.age \in Ages /\ e.real \in Ages
      BY <2>1 DEF Entries
    <3>2. /\ (IF e.age < Oldest THEN e.age + 1 ELSE e.age) \in Ages
          /\ (IF e.real < Oldest THEN e.real + 1 ELSE e.real) \in Ages
      BY <3>1, TickOfAnAge
    <3>3. QED
      BY <1>2, <2>1, <3>2 DEF Older, Entries
  <2>3. e.reborn => Older(e).reborn
    BY <1>2, <2>1 DEF Older, Entries
  <2>4. e.real <= e.age => Older(e).real <= Older(e).age
    BY <1>2, <2>1, SpanAssumption DEF Older, Entries, Ages, Oldest
  <2>5. e \in Honest => e.reborn \/ e.real <= e.age
    BY <1>2 DEF Honest
  <2>6. QED
    BY <2>2, <2>3, <2>4, <2>5 DEF Honest
<1>3. QED
  BY <1>1, <1>2

(* Time makes nothing unsound.                                             *)
LEMMA LaterIsSound ==
  ASSUME NEW m \in Sound
  PROVE  Later(m) \in Sound
<1>1. m.prefix \in Entries \cup {None} /\ m.session \in Honest /\ m.cool \in Short
  BY DEF Sound
<1>2. m.session \in Entries \cup {None}
  BY <1>1 DEF Honest
<1>3. Older(m.prefix) \in Entries \cup {None} /\ Older(m.session) \in Honest
  BY <1>1, <1>2, OlderIsHonest
<1>4. Cooler(m.cool) \in Short
  BY <1>1, SpanAssumption DEF Cooler, Short, Cooldowns
<1>5. QED
  BY <1>3, <1>4 DEF Later, Sound

-----------------------------------------------------------------------------
(* What the actions make of the images.                                    *)

(* A change of the memory to a sound image begins a save.                  *)
LEMMA ChangeIsSound ==
  ASSUME SoundInv, NEW s \in Savers, NEW m \in Sound, Change(s, m)
  PROVE  SoundInv'
<1>1. saver' \in [Savers -> Saves]
  <2>1. [NoSave EXCEPT !.pc = "prefix", !.alone = Idle = Savers] \in Saves
    BY EmptyIsSound DEF Saves, Phases
  <2>2. \A z \in Savers : [saver[z] EXCEPT !.alone = FALSE] \in Saves
    BY DEF SoundInv, Saves
  <2>3. QED
    BY <2>1, <2>2 DEF Change
<1>2. QED
  BY <1>1 DEF Change, SoundInv

(* The images a turn makes are sound.                                      *)
LEMMA NewImagesAreSound ==
  ASSUME SoundInv
  PROVE  /\ [memory EXCEPT !.prefix = Fresh] \in Sound
         /\ [memory EXCEPT !.session = Fresh] \in Sound
         /\ [memory EXCEPT !.session = None] \in Sound
         /\ [memory EXCEPT !.cool = [left |-> CoolSpan, real |-> CoolSpan]] \in Sound
         /\ [memory EXCEPT !.cool = Empty.cool] \in Sound
<1>1. memory \in Sound /\ None \in Honest
  BY DEF SoundInv, Honest
<1>2. Empty.cool \in Short
  BY EmptyIsSound DEF Sound
<1>3. QED
  BY <1>1, <1>2, FreshIsHonest, FullIsShort DEF Sound

(* Each of the three clones takes one sound map into the copy.             *)
LEMMA ClonesAreSound ==
  ASSUME SoundInv, NEW s \in Savers,
         ClonePrefix(s) \/ CloneSessions(s) \/ CloneCooldowns(s)
  PROVE  SoundInv'
<1>1. memory \in Sound /\ saver[s] \in Saves /\ saver[s].copy \in Sound
  BY DEF SoundInv, Saves
<1>2. CASE ClonePrefix(s)
  <2>1. [saver[s].copy EXCEPT !.prefix = memory.prefix] \in Sound
    BY <1>1 DEF Sound
  <2>2. [saver[s] EXCEPT !.pc = "sessions", !.copy["prefix"] = memory.prefix] \in Saves
    BY <1>1, <2>1 DEF Saves, Phases
  <2>3. QED
    BY <1>2, <2>2 DEF ClonePrefix, Clone, SoundInv
<1>3. CASE CloneSessions(s)
  <2>1. [saver[s].copy EXCEPT !.session = memory.session] \in Sound
    BY <1>1 DEF Sound
  <2>2. [saver[s] EXCEPT !.pc = "cooldowns", !.copy["session"] = memory.session] \in Saves
    BY <1>1, <2>1 DEF Saves, Phases
  <2>3. QED
    BY <1>3, <2>2 DEF CloneSessions, Clone, SoundInv
<1>4. CASE CloneCooldowns(s)
  <2>1. [saver[s].copy EXCEPT !.cool = memory.cool] \in Sound
    BY <1>1 DEF Sound
  <2>2. [saver[s] EXCEPT !.pc = "open", !.copy["cool"] = memory.cool] \in Saves
    BY <1>1, <2>1 DEF Saves, Phases
  <2>3. QED
    BY <1>4, <2>2 DEF CloneCooldowns, Clone, SoundInv
<1>5. QED
  BY <1>2, <1>3, <1>4

(* The file is torn, and then holds what was saved or is torn again.       *)
LEMMA FileIsSound ==
  ASSUME SoundInv, NEW s \in Savers, Open(s) \/ Write(s)
  PROVE  SoundInv'
<1>1. saver[s] \in Saves /\ saver[s].copy \in Sound
  BY DEF SoundInv, Saves
<1>2. CASE Open(s)
  <2>1. [saver[s] EXCEPT !.pc = "write", !.copy = Saved(@)] \in Saves
    BY <1>1, SavedIsSound DEF Saves, Phases
  <2>2. QED
    BY <1>2, <2>1 DEF Open, SoundInv
<1>3. CASE Write(s)
  <2>1. \A z \in Savers : [saver[z] EXCEPT !.crossed = saver[z].pc = "write"] \in Saves
    BY DEF SoundInv, Saves
  <2>2. saver' \in [Savers -> Saves]
    BY <1>3, <2>1, EmptyIsSound DEF Write
  <2>3. file' \in Sound \cup {Torn}
    BY <1>1, <1>3 DEF Write
  <2>4. whole' \in BOOLEAN
    BY <1>1, <1>3 DEF Write, Saves
  <2>5. QED
    BY <1>3, <2>2, <2>3, <2>4 DEF Write, SoundInv
<1>4. QED
  BY <1>2, <1>3

(* An end empties the memory; a start restores what the file holds.        *)
LEMMA RestartIsSound ==
  ASSUME SoundInv, Stop \/ Start
  PROVE  SoundInv'
<1>1. CASE Stop
  BY <1>1, EmptyIsSound DEF Stop, SoundInv
<1>2. CASE Start
  BY <1>2, RestoredIsSound DEF Start, SoundInv
<1>3. QED
  BY <1>1, <1>2

(* Time passes for the memory, the file and the copies.                    *)
LEMMA TickIsSound ==
  ASSUME SoundInv, Tick
  PROVE  SoundInv'
<1>1. \A z \in Savers : [saver[z] EXCEPT !.copy = Later(@)] \in Saves
  BY LaterIsSound DEF SoundInv, Saves
<1>2. saver' \in [Savers -> Saves]
  BY <1>1 DEF Tick
<1>3. memory' \in Sound /\ file' \in Sound \cup {Torn}
  BY LaterIsSound DEF Tick, SoundInv
<1>4. QED
  BY <1>2, <1>3 DEF Tick, SoundInv

-----------------------------------------------------------------------------
(* Every image stays sound, for any number of savers and any limits.       *)
THEOREM ImagesAreSound == Spec => []SoundInv
<1>1. Init => SoundInv
  BY EmptyIsSound DEF Init, SoundInv
<1>2. SoundInv /\ [Next]_vars => SoundInv'
  <2> SUFFICES ASSUME SoundInv, [Next]_vars PROVE SoundInv'
    OBVIOUS
  <2>1. ASSUME NEW s \in Savers,
               \/ LearnPrefix(s) \/ StoreSession(s) \/ ClearSession(s)
               \/ NoteUnsupported(s) \/ NoteTransient(s)
        PROVE  SoundInv'
    BY <2>1, NewImagesAreSound, ChangeIsSound
       DEF LearnPrefix, StoreSession, ClearSession, NoteUnsupported, NoteTransient
  <2>2. ASSUME NEW s \in Savers, ClonePrefix(s) \/ CloneSessions(s) \/ CloneCooldowns(s)
        PROVE  SoundInv'
    BY <2>2, ClonesAreSound
  <2>3. ASSUME NEW s \in Savers, Open(s) \/ Write(s)
        PROVE  SoundInv'
    BY <2>3, FileIsSound
  <2>4. CASE Stop \/ Start
    BY <2>4, RestartIsSound
  <2>5. CASE Tick
    BY <2>5, TickIsSound
  <2>6. CASE UNCHANGED vars
    BY <2>6 DEF vars, SoundInv
  <2>7. QED
    BY <2>1, <2>2, <2>3, <2>4, <2>5, <2>6 DEF Next
<1>3. QED
  BY <1>1, <1>2, PTL DEF Spec

(* No number of saves, ends and restarts prolongs a session or a cooldown  *)
(* (from_runtime, into_runtime, save_runtime_state, load_runtime_state).   *)
THEOREM NothingIsProlonged == Spec => []RestartsProlongNothing
<1>1. SoundInv => SessionsExpire
  <2> SUFFICES ASSUME SoundInv, NEW e \in Sessions, e.age <= SessionTTL
               PROVE  e.real <= SessionTTL \/ e.reborn
    BY DEF SessionsExpire
  <2>1. e \in Honest /\ e # None
    BY DEF SoundInv, Sound, Sessions
  <2>2. e \in Entries /\ (e.reborn \/ e.real <= e.age)
    BY <2>1 DEF Honest
  <2>3. QED
    BY <2>2, SpanAssumption DEF Entries, Ages, Oldest
<1>2. SoundInv => CooldownNotProlonged
  BY DEF SoundInv, Sound, Short, CooldownNotProlonged
<1>3. QED
  BY <1>1, <1>2, ImagesAreSound, PTL DEF RestartsProlongNothing

(* A sound image is one of the images, so it is no torn file.              *)
LEMMA SoundImages == Sound \subseteq Images
BY DEF Sound, Honest, Short, Images

(* The memory, the file and the copies are images throughout.              *)
THEOREM ImagesAreTyped == Spec => []TypeOK
<1>1. SoundInv => TypeOK
  <2>1. Saves \subseteq [pc : Phases, copy : Images, crossed : BOOLEAN, alone : BOOLEAN]
    BY SoundImages DEF Saves
  <2> QED
    BY <2>1, SoundImages DEF SoundInv, TypeOK
<1> QED
  BY <1>1, ImagesAreSound, PTL

-----------------------------------------------------------------------------
(* What a save leaves in the file.  A save that was alone from its start   *)
(* has cloned, map by map, what the memory still holds: whoever changes    *)
(* the memory begins a save of its own, which is the end of being alone.   *)

(* An image with the session and the cooldown of the memory.               *)
SameSession(image) == SavedSession(image.session) = SavedSession(memory.session)
Holds(image) == SameSession(image) /\ image.cool = memory.cool

(* The copy of a save, up to the map it has come to.                       *)
Follows(save) ==
  /\ save.pc \in {"cooldowns", "open", "write"} => SameSession(save.copy)
  /\ save.pc \in {"open", "write"} => save.copy.cool = memory.cool

IsAlone(s) ==
  /\ \A z \in Savers \ {s} : saver[z].pc = "idle"
  /\ ~saver[s].crossed
  /\ Follows(saver[s])

WholeInv ==
  /\ SoundInv
  /\ \A s \in Savers : saver[s].pc # "idle" => running
  /\ \A s \in Savers : saver[s].alone => IsAlone(s)
  /\ whole => /\ running /\ file # Torn
              /\ \A s \in Savers : saver[s].pc = "idle"
              /\ Holds(file)

(* Saving a saved image changes neither its session nor its cooldown.      *)
LEMMA SavedTwice ==
  ASSUME NEW m \in Sound
  PROVE  SavedSession(Saved(m).session) = SavedSession(m.session) /\ Saved(m).cool = m.cool
BY DEF Saved, SavedSession, Kept, Sound

(* Two sessions a save cannot tell apart, it cannot later: what is dropped *)
(* stays dropped.                                                          *)
LEMMA OlderAlike ==
  ASSUME NEW d \in Entries \cup {None}, NEW e \in Entries \cup {None},
         SavedSession(d) = SavedSession(e)
  PROVE  SavedSession(Older(d)) = SavedSession(Older(e))
<1>1. ASSUME NEW f \in Entries \cup {None}, SavedSession(f) = None
      PROVE  SavedSession(Older(f)) = None
  <2>1. CASE f = None
    BY <2>1 DEF Older, SavedSession, Kept
  <2>2. CASE f # None
    <3>1. f \in Entries /\ f.age \in Ages /\ f.age > SessionTTL
      BY <1>1, <2>2 DEF SavedSession, Kept, Entries
    <3>2. f.age = Oldest /\ ~(f.age < Oldest) /\ Oldest > SessionTTL
      BY <3>1, SpanAssumption DEF Ages, Oldest
    <3>3. Older(f).age = f.age
      BY <2>2, <3>1, <3>2 DEF Older, Entries
    <3> QED
      BY <3>1, <3>3 DEF SavedSession, Kept
  <2> QED
    BY <2>1, <2>2
<1>2. CASE SavedSession(d) = None
  BY <1>1, <1>2
<1>3. CASE SavedSession(d) # None
  <2>1. d = e
    BY <1>3 DEF SavedSession, Kept
  <2> QED
    BY <2>1
<1> QED
  BY <1>2, <1>3

(* The images and the savers of a state of the invariant.                  *)
LEMMA WholeTyping ==
  ASSUME SoundInv
  PROVE  /\ memory \in Sound /\ memory.session \in Entries \cup {None}
         /\ file # Torn => file \in Sound /\ file.session \in Entries \cup {None}
         /\ \A s \in Savers : /\ saver[s] \in Saves /\ saver[s].copy \in Sound
                              /\ saver[s].copy.session \in Entries \cup {None}
BY DEF SoundInv, Saves, Sound, Honest

(* A save that begins ends the being alone of all others, and the file is  *)
(* no longer what the memory holds.                                        *)
LEMMA ChangeIsWhole ==
  ASSUME WholeInv, SoundInv', NEW s \in Savers, NEW m \in Sound, Change(s, m)
  PROVE  WholeInv'
<1>1. /\ saver'[s] = [NoSave EXCEPT !.pc = "prefix", !.alone = Idle = Savers]
      /\ \A z \in Savers \ {s} : saver'[z] = [saver[z] EXCEPT !.alone = FALSE]
  BY DEF Change
<1>2. \A z \in Savers : saver[z] \in Saves
  BY DEF WholeInv, SoundInv
<1>3. /\ saver'[s].pc = "prefix" /\ ~saver'[s].crossed /\ (saver'[s].alone => Idle = Savers)
      /\ \A z \in Savers \ {s} : saver'[z].pc = saver[z].pc /\ ~saver'[z].alone
  BY <1>1, <1>2 DEF NoSave, Saves
<1>4. ASSUME saver'[s].alone PROVE IsAlone(s)'
  <2>1. \A z \in Savers \ {s} : saver'[z].pc = "idle"
    BY <1>3, <1>4 DEF Idle
  <2> QED
    BY <1>3, <2>1 DEF IsAlone, Follows
<1> QED
  BY <1>3, <1>4 DEF WholeInv, Change

(* A clone brings the copy of a save one map nearer to the memory.         *)
LEMMA CloneIsWhole ==
  ASSUME WholeInv, SoundInv', NEW s \in Savers,
         ClonePrefix(s) \/ CloneSessions(s) \/ CloneCooldowns(s)
  PROVE  WholeInv'
<1>0. saver[s] \in Saves /\ saver[s].copy \in Sound /\ saver \in [Savers -> Saves]
  BY WholeTyping DEF WholeInv, SoundInv
<1>1. /\ saver[s].pc # "idle" /\ running /\ ~whole
      /\ \A z \in Savers \ {s} : saver'[z] = saver[z]
      /\ UNCHANGED <<running, memory, file, whole>>
  BY <1>0 DEF WholeInv, ClonePrefix, CloneSessions, CloneCooldowns, Clone
<1>2. saver'[s].crossed = saver[s].crossed /\ saver'[s].alone = saver[s].alone
  BY <1>0 DEF ClonePrefix, CloneSessions, CloneCooldowns, Clone, Saves
<1>3. Follows(saver[s]) => Follows(saver[s])'
  <2>1. CASE ClonePrefix(s)
    <3>1. saver'[s].pc = "sessions"
      BY <1>0, <2>1 DEF ClonePrefix, Clone, Saves
    <3> QED
      BY <3>1 DEF Follows
  <2>2. CASE CloneSessions(s)
    <3>1. saver'[s].pc = "cooldowns" /\ saver'[s].copy.session = memory.session
      BY <1>0, <2>2 DEF CloneSessions, Clone, Saves, Sound
    <3> QED
      BY <1>1, <3>1 DEF Follows, SameSession
  <2>3. CASE CloneCooldowns(s)
    <3>1. /\ saver[s].pc = "cooldowns" /\ saver'[s].pc = "open"
          /\ saver'[s].copy.cool = memory.cool
          /\ saver'[s].copy.session = saver[s].copy.session
      BY <1>0, <2>3 DEF CloneCooldowns, Clone, Saves, Sound
    <3> QED
      BY <1>1, <3>1 DEF Follows, SameSession
  <2> QED
    BY <2>1, <2>2, <2>3
<1>4. ASSUME NEW z \in Savers, saver'[z].alone PROVE IsAlone(z)'
  <2>1. saver[z].alone /\ IsAlone(z) /\ z = s
    BY <1>1, <1>2, <1>4 DEF WholeInv, IsAlone
  <2> QED
    BY <1>1, <1>2, <1>3, <2>1 DEF IsAlone
<1> QED
  BY <1>1, <1>4 DEF WholeInv

(* Truncating the file: no save before this one counts any more, and what  *)
(* goes to the file is what the copy keeps of the memory.                  *)
LEMMA OpenIsWhole ==
  ASSUME WholeInv, SoundInv', NEW s \in Savers, Open(s)
  PROVE  WholeInv'
<1>0. saver[s] \in Saves /\ saver[s].copy \in Sound /\ saver \in [Savers -> Saves]
  BY WholeTyping DEF WholeInv, SoundInv
<1>1. /\ saver[s].pc = "open" /\ running /\ ~whole
      /\ \A z \in Savers \ {s} : saver'[z] = saver[z]
      /\ UNCHANGED <<running, memory, whole>>
  BY <1>0 DEF WholeInv, Open
<1>2. /\ saver'[s].pc = "write" /\ saver'[s].copy = Saved(saver[s].copy)
      /\ saver'[s].crossed = saver[s].crossed /\ saver'[s].alone = saver[s].alone
  BY <1>0 DEF Open, Saves
<1>3. Follows(saver[s]) => Follows(saver[s])'
  BY <1>0, <1>1, <1>2, SavedTwice DEF Follows, SameSession
<1>4. ASSUME NEW z \in Savers, saver'[z].alone PROVE IsAlone(z)'
  <2>1. saver[z].alone /\ IsAlone(z) /\ z = s
    BY <1>1, <1>2, <1>4 DEF WholeInv, IsAlone
  <2> QED
    BY <1>1, <1>2, <1>3, <2>1 DEF IsAlone
<1> QED
  BY <1>1, <1>4 DEF WholeInv

(* Filling it: a save that was alone finds the file as it left it, and no  *)
(* other save under way.                                                   *)
LEMMA WriteIsWhole ==
  ASSUME WholeInv, SoundInv', NEW s \in Savers, Write(s)
  PROVE  WholeInv'
<1>0. saver[s] \in Saves /\ saver[s].copy \in Sound /\ saver \in [Savers -> Saves]
  BY WholeTyping DEF WholeInv, SoundInv
<1>1. /\ saver[s].pc = "write" /\ running
      /\ saver'[s] = NoSave
      /\ \A z \in Savers \ {s} : saver'[z].pc = saver[z].pc /\ saver'[z].alone = saver[z].alone
      /\ whole' = saver[s].alone
      /\ UNCHANGED <<running, memory>>
  BY <1>0 DEF WholeInv, Write, SoundInv, Saves
<1>2. ~NoSave.alone /\ NoSave.pc = "idle"
  BY DEF NoSave
<1>3. \A z \in Savers : ~saver'[z].alone \/ (z # s /\ IsAlone(z))
  BY <1>1, <1>2 DEF WholeInv
<1>4. \A z \in Savers : ~saver'[z].alone
  BY <1>1, <1>3 DEF IsAlone
<1>5. ASSUME saver[s].alone
      PROVE  /\ file' # Torn /\ Holds(file)'
             /\ \A z \in Savers : saver'[z].pc = "idle"
  <2>1. IsAlone(s)
    BY <1>5 DEF WholeInv
  <2>2. file' = saver[s].copy
    BY <2>1 DEF IsAlone, Write
  <2>3. saver[s].copy # Torn
    BY <1>0, SoundImages, TornAssumption
  <2>4. Holds(saver[s].copy)
    BY <1>1, <2>1 DEF IsAlone, Follows, Holds
  <2> QED
    BY <1>1, <1>2, <2>1, <2>2, <2>3, <2>4 DEF IsAlone, Holds, SameSession
<1> QED
  BY <1>1, <1>2, <1>4, <1>5 DEF WholeInv

(* An end drops the saves under way; a start finds none.                   *)
LEMMA RestartIsWhole ==
  ASSUME WholeInv, SoundInv', Stop \/ Start
  PROVE  WholeInv'
<1>1. CASE Stop
  <2>1. \A z \in Savers : saver'[z].pc = "idle" /\ ~saver'[z].alone
    BY <1>1 DEF Stop, NoSave
  <2> QED
    BY <1>1, <2>1 DEF Stop, WholeInv
<1>2. CASE Start
  <2>1. ~whole /\ \A z \in Savers : saver[z].pc = "idle"
    BY <1>2 DEF WholeInv, Start
  <2>2. ASSUME NEW z \in Savers, saver[z].alone PROVE IsAlone(z)'
    BY <1>2, <2>1, <2>2 DEF WholeInv, Start, IsAlone, Follows
  <2> QED
    BY <1>2, <2>1, <2>2 DEF WholeInv, Start
<1> QED
  BY <1>1, <1>2

(* Time passes for the memory, the file and the copies alike.              *)
LEMMA TickIsWhole ==
  ASSUME WholeInv, SoundInv', Tick
  PROVE  WholeInv'
<1>0. SoundInv /\ saver \in [Savers -> Saves]
  BY DEF WholeInv, SoundInv
<1>1. ASSUME NEW image \in Sound
      PROVE  /\ SameSession(image) => SavedSession(Later(image).session) = SavedSession(memory'.session)
             /\ image.cool = memory.cool => Later(image).cool = memory'.cool
  <2>1. image.session \in Entries \cup {None}
    BY DEF Sound, Honest
  <2>2. memory'.session = Older(memory.session) /\ memory'.cool = Cooler(memory.cool)
    BY DEF Tick, Later
  <2>3. Later(image).session = Older(image.session) /\ Later(image).cool = Cooler(image.cool)
    BY DEF Later
  <2> QED
    BY <1>0, <2>1, <2>2, <2>3, WholeTyping, OlderAlike DEF SameSession
<1>2. ASSUME NEW z \in Savers
      PROVE  /\ saver'[z].pc = saver[z].pc /\ saver'[z].copy = Later(saver[z].copy)
             /\ saver'[z].crossed = saver[z].crossed /\ saver'[z].alone = saver[z].alone
  BY <1>0, WholeTyping DEF Tick, Saves
<1>3. ASSUME NEW z \in Savers, saver'[z].alone PROVE IsAlone(z)'
  <2>1. IsAlone(z)
    BY <1>2, <1>3 DEF WholeInv
  <2>2. Follows(saver[z]) => Follows(saver[z])'
    BY <1>0, <1>1, <1>2, WholeTyping DEF Follows, SameSession
  <2> QED
    BY <1>2, <2>1, <2>2 DEF IsAlone
<1>4. ASSUME whole PROVE file' # Torn /\ Holds(file)'
  <2>1. file \in Sound /\ file # Torn /\ Holds(file) /\ file' = Later(file)
    BY <1>0, <1>4, WholeTyping DEF WholeInv, Tick
  <2>2. file' # Torn
    BY <2>1, LaterIsSound, SoundImages, TornAssumption
  <2> QED
    BY <1>1, <2>1, <2>2 DEF Holds, SameSession
<1> QED
  BY <1>2, <1>3, <1>4 DEF WholeInv, Tick

(* A save that no other save overlapped leaves all of the state in the     *)
(* file (persist_runtime_state and the callers that change a map first).   *)
THEOREM AloneSavesAreWhole == Spec => []SavedWhole
<1>1. Init => WholeInv
  <2> SUFFICES ASSUME Init PROVE WholeInv
    OBVIOUS
  <2>1. SoundInv
    BY EmptyIsSound DEF Init, SoundInv
  <2>2. Empty # Torn
    BY EmptyIsSound, SoundImages, TornAssumption
  <2>3. \A s \in Savers : saver[s].pc = "idle" /\ ~saver[s].alone
    BY DEF Init, NoSave
  <2> QED
    BY <2>1, <2>2, <2>3 DEF Init, WholeInv, Holds, SameSession
<1>2. WholeInv /\ SoundInv' /\ [Next]_vars => WholeInv'
  <2> SUFFICES ASSUME WholeInv, SoundInv', [Next]_vars PROVE WholeInv'
    OBVIOUS
  <2>1. ASSUME NEW s \in Savers,
               \/ LearnPrefix(s) \/ StoreSession(s) \/ ClearSession(s)
               \/ NoteUnsupported(s) \/ NoteTransient(s)
        PROVE  WholeInv'
    BY <2>1, NewImagesAreSound, ChangeIsWhole
       DEF WholeInv, LearnPrefix, StoreSession, ClearSession, NoteUnsupported, NoteTransient
  <2>2. ASSUME NEW s \in Savers, ClonePrefix(s) \/ CloneSessions(s) \/ CloneCooldowns(s)
        PROVE  WholeInv'
    BY <2>2, CloneIsWhole
  <2>3. ASSUME NEW s \in Savers, Open(s) \/ Write(s) PROVE WholeInv'
    BY <2>3, OpenIsWhole, WriteIsWhole
  <2>4. CASE Stop \/ Start
    BY <2>4, RestartIsWhole
  <2>5. CASE Tick
    BY <2>5, TickIsWhole
  <2>6. CASE UNCHANGED vars
    BY <2>6 DEF vars, WholeInv, SoundInv, IsAlone, Follows, Holds, SameSession
  <2> QED
    BY <2>1, <2>2, <2>3, <2>4, <2>5, <2>6 DEF Next
<1>3. WholeInv => SavedWhole
  BY DEF WholeInv, SavedWhole, Holds, SameSession
<1>4. QED
  BY <1>1, <1>2, <1>3, ImagesAreSound, PTL DEF Spec

-----------------------------------------------------------------------------
(***************************************************************************)
(* ResponseCache.                                                          *)
(***************************************************************************)

(***************************************************************************)
(* The state.                                                              *)
(***************************************************************************)

(* A turn that has looked up inserts under the keys of its own request.    *)
IsInserter(x) ==
  /\ x = [at |-> x.at, of |-> x.of, target |-> x.target, keys |-> x.keys]
  /\ x.at \in {"insert", "persist"}
IsPersister(x) ==
  x = [at |-> "persisting", of |-> x.of, target |-> x.target, keys |-> x.keys, writes |-> x.writes]
IsOwn(x) == x.of \in Requests /\ x.target \in Targets /\ x.keys \subseteq KeysOf(x.of, x.target)

TurnShape ==
  /\ worker = [w \in Workers |-> worker[w]]
  /\ \A w \in Workers :
       worker[w] = NoWork \/ ((IsInserter(worker[w]) \/ IsPersister(worker[w])) /\ IsOwn(worker[w]))

PastShape ==
  /\ past = [clears |-> past.clears, starts |-> past.starts, excused |-> past.excused]
  /\ past.excused \in BOOLEAN

(* An entry is what some request was inserted as.                          *)
Stored(e) ==
  /\ e.of \in Requests
  /\ \E t \in Targets : e.key \in KeysOf(e.of, t)
  /\ e.text => Safe(e.of)

(* Nothing of it was there when the cache was cleared for the last time.   *)
Current(s) == \A e \in s : e.epoch = past.clears

StoredInv ==
  /\ \A e \in entries \cup cacheFile.holds \cup loader.holds : Stored(e)
  /\ \A w \in Workers : worker[w].at = "persisting" => \A e \in worker[w].writes : Stored(e)

(* While the cache is being cleared, the file may be what it was.          *)
CurrentInv ==
  ~past.excused =>
    /\ Current(entries)
    /\ \A w \in Workers : worker[w].at = "persisting" => Current(worker[w].writes)
    /\ loader.at = "loading" => Current(loader.holds)
    /\ ~clearing => Current(cacheFile.holds)

CacheInv == TurnShape /\ PastShape /\ StoredInv /\ CurrentInv

-----------------------------------------------------------------------------
(* The keys.                                                               *)

(* The ids are left out of a session form, the marks of a near-exact one,  *)
(* and nothing else is.                                                    *)
LEMMA Forms ==
  ASSUME NEW r
  PROVE  /\ SessionForm(SessionForm(Form(r))) = SessionForm(Form(r))
         /\ NearForm(SessionForm(SessionForm(Form(r)))) = NearForm(SessionForm(Form(r)))
         /\ NearForm(SessionForm(NearForm(Form(r)))) = NearForm(SessionForm(Form(r)))
         /\ NearForm(SessionForm(NearForm(SessionForm(Form(r))))) = NearForm(SessionForm(Form(r)))
BY DEF Form, SessionForm, NearForm

(* Two requests that share a key are of one target; they are the same but  *)
(* for their ids, or the one whose near-exact key it is is safe.           *)
LEMMA SharedKey ==
  ASSUME NEW r, NEW s, NEW t, NEW v, NEW k, k \in KeysOf(r, t), k \in KeysOf(s, v)
  PROVE  /\ t = v
         /\ \/ SessionForm(Form(r)) = SessionForm(Form(s))
            \/ /\ NearForm(SessionForm(Form(r))) = NearForm(SessionForm(Form(s)))
               /\ Safe(r) \/ Safe(s)
<1> DEFINE plain(q) == {Form(q), SessionForm(Form(q))}
           near(q) == {NearForm(Form(q)), NearForm(SessionForm(Form(q)))}
<1>1. ASSUME NEW q, NEW u, k \in KeysOf(q, u)
      PROVE  \E f \in plain(q) \cup near(q) : k = <<u, f>> /\ (f \in plain(q) \/ Safe(q))
  BY <1>1 DEF KeysOf, Key
<1>2. PICK f \in plain(r) \cup near(r) : k = <<t, f>> /\ (f \in plain(r) \/ Safe(r))
  BY <1>1
<1>3. PICK g \in plain(s) \cup near(s) : k = <<v, g>> /\ (g \in plain(s) \/ Safe(s))
  BY <1>1
<1>4. t = v /\ f = g
  BY <1>2, <1>3
<1>5. CASE f \in plain(r) /\ g \in plain(s)
  BY <1>4, <1>5, Forms
<1>6. ASSUME NEW q, NEW h \in plain(q) \cup near(q)
      PROVE  NearForm(SessionForm(h)) = NearForm(SessionForm(Form(q)))
  BY <1>6, Forms
<1>7. CASE Safe(r) \/ Safe(s)
  BY <1>2, <1>3, <1>4, <1>6, <1>7
<1> QED
  BY <1>2, <1>3, <1>4, <1>5, <1>7

-----------------------------------------------------------------------------
(* The steps.                                                              *)

(* The state of a turn, taken apart.                                       *)
LEMMA Turns ==
  ASSUME TurnShape, NEW w \in Workers
  PROVE  /\ worker[w].at # "idle" => IsOwn(worker[w])
         /\ worker[w].at \in {"insert", "persist"} => IsInserter(worker[w])
         /\ worker[w].at = "persisting" => IsPersister(worker[w])
BY DEF TurnShape, NoWork, IsInserter, IsPersister

(* A turn's state replaced by one that is idle, or is about its own keys.  *)
LEMMA Replaced ==
  ASSUME TurnShape, NEW w \in Workers, NEW x, worker' = [worker EXCEPT ![w] = x],
         x = NoWork \/ ((IsInserter(x) \/ IsPersister(x)) /\ IsOwn(x))
  PROVE  TurnShape'
<1>1. worker'[w] = x /\ \A v \in Workers \ {w} : worker'[v] = worker[v]
  BY DEF TurnShape
<1>2. worker' = [v \in Workers |-> worker'[v]]
  BY DEF TurnShape
<1>3. ASSUME NEW v \in Workers
      PROVE  worker'[v] = NoWork \/ ((IsInserter(worker'[v]) \/ IsPersister(worker'[v])) /\ IsOwn(worker'[v]))
  BY <1>1 DEF TurnShape
<1> QED
  BY <1>2, <1>3 DEF TurnShape, IsInserter, IsPersister, IsOwn

(* A turn that a lookup did not answer.                                    *)
LEMMA LookUpStep ==
  ASSUME CacheInv, NEW w \in Workers, LookUp(w)
  PROVE  CacheInv'
<1>1. PICK r \in Requests, t \in Targets :
        worker' = [worker EXCEPT ![w] = [at |-> "insert", of |-> r, target |-> t, keys |-> KeysOf(r, t)]]
  BY DEF LookUp
<1> DEFINE x == [at |-> "insert", of |-> r, target |-> t, keys |-> KeysOf(r, t)]
<1>2. IsInserter(x) /\ IsOwn(x) /\ x.at = "insert"
  BY DEF IsInserter, IsOwn
<1>3. TurnShape'
  BY <1>1, <1>2, Replaced DEF CacheInv
<1>4. \A v \in Workers : worker'[v].at = "persisting" => worker'[v] = worker[v]
  BY <1>1, <1>2 DEF CacheInv, TurnShape
<1> QED
  BY <1>3, <1>4 DEF LookUp, CacheInv, PastShape, StoredInv, CurrentInv, Current

(* What is inserted is new, and has a key of its request.                  *)
LEMMA InsertStep ==
  ASSUME CacheInv, NEW w \in Workers, Insert(w)
  PROVE  CacheInv'
<1> DEFINE u == worker[w]
           e(k) == [key |-> k, of |-> u.of, text |-> Safe(u.of), made |-> clock,
                    expires |-> clock + MaxAge, epoch |-> past.clears]
<1>1. PICK k \in u.keys :
        /\ entries' \subseteq entries \cup {e(k)}
        /\ worker' = [worker EXCEPT ![w] = Inserted(u, k)]
  BY DEF Insert
<1>2. u.at = "insert" /\ IsInserter(u) /\ IsOwn(u)
  BY Turns DEF Insert, CacheInv
<1> DEFINE x == Inserted(u, k)
<1>3. worker' = [worker EXCEPT ![w] = x]
  BY <1>1
<1>4. IsInserter(x) /\ IsOwn(x) /\ x.at = "persist"
  BY <1>2 DEF Inserted, IsInserter, IsOwn
<1>5. TurnShape'
  BY <1>3, <1>4, Replaced DEF CacheInv
<1>6. \A v \in Workers : worker'[v].at = "persisting" => worker'[v] = worker[v]
  BY <1>3, <1>4 DEF CacheInv, TurnShape
<1>7. Stored(e(k)) /\ e(k).epoch = past.clears
  BY <1>2 DEF Stored, IsOwn
<1> QED
  BY <1>1, <1>5, <1>6, <1>7 DEF Insert, CacheInv, PastShape, StoredInv, CurrentInv, Current

(* What a persist holds, and what it writes, are entries of the memory.    *)
LEMMA PersistStep ==
  ASSUME CacheInv, NEW w \in Workers, BeginPersist(w) \/ EndPersist(w) \/ SkipPersist(w)
  PROVE  CacheInv'
<1> DEFINE u == worker[w]
           y == [at |-> "insert", of |-> u.of, target |-> u.target, keys |-> u.keys]
<1>1. u.at # "idle" /\ IsOwn(u)
  BY Turns DEF BeginPersist, EndPersist, SkipPersist, CacheInv
<1>2. IsInserter(y) /\ IsOwn(y) /\ y.at = "insert" /\ NoWork.at = "idle" /\ Inserting(u) = y
  BY <1>1 DEF IsInserter, IsOwn, NoWork, Inserting
<1>3. CASE BeginPersist(w)
  <2> DEFINE x == Persisting(u)
  <2>1. worker' = [worker EXCEPT ![w] = x] /\ cacheFile'.holds = {}
    BY <1>3 DEF BeginPersist, Unreadable
  <2>2. IsPersister(x) /\ IsOwn(x) /\ x.writes = entries
    BY <1>1 DEF Persisting, IsPersister, IsOwn
  <2>3. TurnShape'
    BY <2>1, <2>2, Replaced DEF CacheInv
  <2>4. /\ worker'[w].writes = entries
        /\ \A v \in Workers \ {w} : worker'[v] = worker[v]
    BY <2>1, <2>2 DEF CacheInv, TurnShape
  <2> QED
    BY <1>3, <2>1, <2>3, <2>4 DEF BeginPersist, CacheInv, PastShape, StoredInv, CurrentInv, Current
<1>4. CASE EndPersist(w) \/ SkipPersist(w)
  <2>1. PICK x \in {NoWork, y} : worker' = [worker EXCEPT ![w] = x]
    BY <1>2, <1>4 DEF EndPersist, SkipPersist
  <2>2. TurnShape'
    BY <1>2, <2>1, Replaced DEF CacheInv
  <2>3. \A v \in Workers : worker'[v].at = "persisting" => worker'[v] = worker[v]
    BY <1>2, <2>1 DEF CacheInv, TurnShape
  <2>4. \/ UNCHANGED cacheFile
        \/ u.at = "persisting" /\ cacheFile'.holds \in {u.writes, {}}
    BY <1>4 DEF EndPersist, SkipPersist, Written, Unreadable
  <2>5. UNCHANGED <<entries, loader, clearing, clock, past>>
    BY <1>4 DEF EndPersist, SkipPersist
  <2> QED
    BY <2>2, <2>3, <2>4, <2>5 DEF CacheInv, PastShape, StoredInv, CurrentInv, Current
<1> QED
  BY <1>3, <1>4

(* What the start-up task has read was in the file, and is stored as read. *)
LEMMA LoadStep ==
  ASSUME CacheInv, ReadFile \/ Load
  PROVE  CacheInv'
<1>1. CASE ReadFile
  <2>1. past' = [past EXCEPT !.excused = @ \/ clearing] /\ UNCHANGED <<entries, cacheFile, worker, clearing>>
    BY <1>1 DEF ReadFile
  <2>2. PastShape' /\ past'.clears = past.clears /\ (~past'.excused => ~past.excused /\ ~clearing)
    BY <2>1 DEF CacheInv, PastShape
  <2>3. loader'.holds \in {cacheFile.holds, {}}
    BY <1>1 DEF ReadFile, Loaded
  <2> QED
    BY <2>1, <2>2, <2>3 DEF CacheInv, TurnShape, IsInserter, IsPersister, IsOwn, StoredInv, CurrentInv, Current
<1>2. CASE Load
  <2>1. /\ loader.at = "loading" /\ entries' \subseteq loader.holds
        /\ loader'.holds = {} /\ UNCHANGED <<cacheFile, worker, clearing, past>>
    BY <1>2 DEF Load, Loaded
  <2> QED
    BY <2>1 DEF CacheInv, TurnShape, IsInserter, IsPersister, IsOwn, PastShape, StoredInv, CurrentInv, Current
<1> QED
  BY <1>1, <1>2

(* The memory is emptied when no persist holds its lock, so none has       *)
(* entries from before; then the file goes.                                *)
LEMMA ClearStep ==
  ASSUME CacheInv, ClearMemory \/ ClearFile
  PROVE  CacheInv'
<1>1. CASE ClearMemory
  <2>1. /\ entries' = {} /\ clearing' = TRUE
        /\ past' = [past EXCEPT !.clears = @ + 1, !.excused = @ \/ loader.at = "loading"]
        /\ \A w \in Workers : worker[w].at # "persisting"
        /\ UNCHANGED <<cacheFile, worker, loader>>
    BY <1>1 DEF ClearMemory, CanWrite
  <2>2. PastShape' /\ (~past'.excused => loader.at # "loading")
    BY <2>1 DEF CacheInv, PastShape
  <2> QED
    BY <2>1, <2>2 DEF CacheInv, TurnShape, IsInserter, IsPersister, IsOwn, StoredInv, CurrentInv, Current
<1>2. CASE ClearFile
  <2>1. /\ \/ cacheFile'.holds = {} /\ UNCHANGED past
           \/ UNCHANGED cacheFile /\ past' = [past EXCEPT !.excused = TRUE]
        /\ UNCHANGED <<entries, worker, loader>>
    BY <1>2 DEF ClearFile, NoFile
  <2>2. PastShape' /\ past'.clears = past.clears /\ (~past'.excused => ~past.excused /\ cacheFile'.holds = {})
    BY <2>1 DEF CacheInv, PastShape
  <2>3. cacheFile'.holds \subseteq cacheFile.holds
    BY <2>1
  <2> QED
    BY <2>1, <2>2, <2>3 DEF CacheInv, TurnShape, IsInserter, IsPersister, IsOwn, StoredInv, CurrentInv, Current
<1> QED
  BY <1>1, <1>2

(* A start finds the file; one in the middle of a clear is excused.        *)
LEMMA RestartStep ==
  ASSUME CacheInv, RestartCache
  PROVE  CacheInv'
<1>1. /\ entries' = {} /\ loader'.holds = {} /\ loader'.at = "reading"
      /\ worker' = [w \in Workers |-> NoWork]
      /\ past' = [past EXCEPT !.starts = @ + 1, !.excused = @ \/ clearing]
      /\ UNCHANGED cacheFile
  BY DEF RestartCache, Reading
<1>2. PastShape' /\ past'.clears = past.clears /\ (~past'.excused => ~past.excused /\ ~clearing)
  BY <1>1 DEF CacheInv, PastShape
<1>3. TurnShape' /\ \A w \in Workers : worker'[w].at = "idle"
  BY <1>1 DEF TurnShape, NoWork
<1> QED
  BY <1>1, <1>2, <1>3 DEF CacheInv, StoredInv, CurrentInv, Current

(* The invariant holds of every behaviour.                                 *)
LEMMA CacheInvariant == CacheSpec => []CacheInv
<1>1. CacheInit => CacheInv
  BY DEF CacheInit, CacheInv, TurnShape, PastShape, StoredInv, CurrentInv, Current, NoWork, NoFile, Reading
<1>2. CacheInv /\ [CacheNext]_cvars => CacheInv'
  <2> SUFFICES ASSUME CacheInv, [CacheNext]_cvars PROVE CacheInv'
    OBVIOUS
  <2>1. CASE CacheTick \/ UNCHANGED cvars
    BY <2>1 DEF CacheTick, cvars, CacheInv, TurnShape, IsInserter, IsPersister, IsOwn, PastShape,
                StoredInv, CurrentInv, Current
  <2> QED
    BY <2>1, LookUpStep, InsertStep, PersistStep, LoadStep, ClearStep, RestartStep DEF CacheNext
<1> QED
  BY <1>1, <1>2, PTL DEF CacheSpec

-----------------------------------------------------------------------------
(* The theorems.                                                           *)

(* A lookup is answered with what was stored for the same request, up to   *)
(* what its keys and the search may leave out (lookup_cache, CacheStore).  *)
THEOREM HitsAreOfTheSameRequest == CacheSpec => []ServesTheSameRequest
<1>1. CacheInv => ServesTheSameRequest
  <2> SUFFICES ASSUME CacheInv, NEW r \in Requests, NEW t \in Targets, NEW e \in Hits(r, t)
               PROVE  /\ e.key[1] = t
                      /\ \/ SessionForm(Form(r)) = SessionForm(Form(e.of))
                         \/ /\ NearForm(SessionForm(Form(r))) = NearForm(SessionForm(Form(e.of)))
                            /\ Safe(r) \/ Safe(e.of)
                         \/ Safe(r) /\ Safe(e.of) /\ SameShape(e.of, r) /\ Alike(e.of, r)
    BY DEF ServesTheSameRequest
  <2>1. Stored(e)
    BY DEF Hits, ExactHits, SemanticHits, CacheInv, StoredInv
  <2>2. CASE e \in ExactHits(r, t)
    <3>1. e.key \in KeysOf(r, t)
      BY <2>2 DEF ExactHits
    <3>2. e.key[1] = t
      BY <3>1 DEF KeysOf, Key
    <3> QED
      BY <2>1, <3>1, <3>2, SharedKey DEF Stored
  <2>3. CASE e \in SemanticHits(r, t)
    BY <2>1, <2>3 DEF SemanticHits, Stored
  <2> QED
    BY <2>2, <2>3 DEF Hits
<1> QED
  BY <1>1, CacheInvariant, PTL

(* What was cleared stays cleared, whatever turns were inserting and       *)
(* persisting (CacheStore::clear, persist, load_from_disk).                *)
THEOREM ClearsAreFinal == CacheSpec => []ClearedStaysCleared
<1>1. CacheInv => ClearedStaysCleared
  BY DEF CacheInv, CurrentInv, Current, ClearedStaysCleared
<1> QED
  BY <1>1, CacheInvariant, PTL
=============================================================================

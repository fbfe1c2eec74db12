---------------------------- MODULE ResponseCache ----------------------------
(***************************************************************************)
(* The local response cache (cache.rs): which stored answer a request is   *)
(* given, and what the memory and the encrypted file hold while turns look *)
(* up, insert and persist, the user clears the cache, and the start-up     *)
(* task loads the file.  Only requests of no agent use it.                 *)
(*                                                                         *)
(* A request is what the key and the comparisons see of it: its words,     *)
(* its marks (case, punctuation), its ids (of calls, traces, sessions),    *)
(* its shape, and the facts that decide whether it is cached and whether   *)
(* it may be answered approximately.  A key is the hash of a target        *)
(* (provider, model, workspace) and of a normal form of the request.       *)
(***************************************************************************)
EXTENDS Naturals, FiniteSets

CONSTANTS
  Requests,     \* [words, marks, ids, shape, tools, risky, long, low, no_store]
  Targets,
  Similar,      \* pairs of words whose vectors are at the semantic threshold
  Workers,      \* turns in progress at one time
  MaxEntries, MaxAge,
  MaxTime,      \* bound: how far the clock runs
  MaxClears, MaxCacheStarts   \* bounds: clears and starts of the program

VARIABLES
  entries,      \* CacheStore.entries
  cacheFile,         \* response-cache.bin: [is, holds]
  worker,       \* [Workers -> what the turn does with the cache]
  mixed,        \* two writes of the file have overlapped
  loader,       \* the start-up task: [at, holds]
  clearing,     \* clear has emptied the memory and not yet removed the file
  clock,
  past          \* for the property: [clears, starts, excused]

cvars == <<entries, cacheFile, worker, mixed, loader, clearing, clock, past>>

(* is_cache_eligible: a low temperature, and no "no-store". *)
Eligible(r) == r.low /\ ~r.no_store

(* is_fuzzy_cache_safe: no tools, a text that is long enough and holds     *)
(* neither code nor words that make details or the moment matter.          *)
Safe(r) == ~r.tools /\ r.long /\ ~r.risky

(* normalize_for_session leaves ids out, normalize_for_near_exact marks.   *)
Form(r) == [words |-> r.words, marks |-> r.marks, ids |-> r.ids, shape |-> r.shape]
SessionForm(form) == [form EXCEPT !.ids = "left out"]
NearForm(form) == [form EXCEPT !.marks = "left out"]

(* The semantic search compares words of requests of one shape. *)
Alike(r, s) == r.words = s.words \/ <<r.words, s.words>> \in Similar
SameShape(r, s) == r.shape = s.shape

Key(target, form) == <<target, form>>

(* The keys of a request, exact first.  Near-exact forms only of requests  *)
(* that are safe to answer approximately.                                  *)
KeysOf(r, target) ==
  LET session == SessionForm(Form(r))
      near == IF Safe(r) THEN {NearForm(Form(r)), NearForm(session)} ELSE {}
  IN  {Key(target, f) : f \in {Form(r), session} \cup near}

Unexpired(e) == e.expires > clock

(* CacheStore::lookup_exact with each key, then the semantic search. *)
ExactHits(r, target) ==
  {e \in entries : e.key \in KeysOf(r, target) /\ Unexpired(e)}

(* Mutant: what is looked for need not be safe, only what is found. *)
SemanticHitsOfAny(r, target) ==
  {e \in entries : /\ e.text /\ Unexpired(e)
                   /\ e.key[1] = target
                   /\ SameShape(e.of, r) /\ Alike(e.of, r)}

SemanticHits(r, target) ==
  {e \in entries : /\ Safe(r) /\ e.text /\ Unexpired(e)
                   /\ e.key[1] = target
                   /\ SameShape(e.of, r) /\ Alike(e.of, r)}

Hits(r, target) ==
  IF ExactHits(r, target) # {} THEN ExactHits(r, target) ELSE SemanticHits(r, target)

NoWork == [at |-> "idle"]
Inserting(w) == [at |-> "insert", of |-> w.of, target |-> w.target, keys |-> w.keys]
Inserted(w, k) == [at |-> "persist", of |-> w.of, target |-> w.target, keys |-> w.keys \ {k}]
Persisting(w) == [at |-> "persisting", of |-> w.of, target |-> w.target, keys |-> w.keys,
                  writes |-> entries]

NoFile == [is |-> "absent", holds |-> {}]
Unreadable == [is |-> "unreadable", holds |-> {}]
Written(s) == [is |-> "readable", holds |-> s]

Reading == [at |-> "reading", holds |-> {}]
Loaded == [at |-> "done", holds |-> {}]

(* RwLock: a writer excludes the persists, which hold the read lock. *)
CanWrite == \A w \in Workers : worker[w].at # "persisting"

CacheInit ==
  /\ entries = {} /\ cacheFile = NoFile
  /\ worker = [w \in Workers |-> NoWork]
  /\ mixed = FALSE /\ loader = Reading /\ clearing = FALSE /\ clock = 0
  /\ past = [clears |-> 0, starts |-> 1, excused |-> FALSE]

(* A request of no agent that no entry answers goes upstream, and its      *)
(* answer is inserted under each of its keys.                              *)
LookUp(w) ==
  /\ worker[w] = NoWork
  /\ \E r \in {q \in Requests : Eligible(q)}, t \in Targets :
       /\ Hits(r, t) = {}
       /\ worker' = [worker EXCEPT
            ![w] = [at |-> "insert", of |-> r, target |-> t, keys |-> KeysOf(r, t)]]
  /\ UNCHANGED <<entries, cacheFile, mixed, loader, clearing, clock, past>>

OldestOf(s) == {e \in s : \A f \in s : e.made <= f.made}

(* insert_cache_entries: one key after the other, each inserted under the  *)
(* write lock, the oldest evicted over the limit, then persisted.          *)
Insert(w) ==
  /\ worker[w].at = "insert" /\ CanWrite
  /\ \E k \in worker[w].keys :
       LET e == [key |-> k, of |-> worker[w].of, text |-> Safe(worker[w].of),
                 made |-> clock, expires |-> clock + MaxAge, epoch |-> past.clears]
           all == {f \in entries : f.key # k} \cup {e}
       IN  /\ IF Cardinality(all) > MaxEntries
              THEN \E old \in OldestOf(all) : entries' = all \ {old}
              ELSE entries' = all
           /\ worker' = [worker EXCEPT ![w] = Inserted(@, k)]
  /\ UNCHANGED <<cacheFile, mixed, loader, clearing, clock, past>>

(* CacheStore::persist holds the read lock while fs::write truncates and   *)
(* fills the file.  Two persists may hold it at once: they write the same  *)
(* entries under different nonces, and at first under different keys.      *)
BeginPersist(w) ==
  /\ worker[w].at = "persist"
  /\ worker' = [worker EXCEPT ![w] = Persisting(@)]
  /\ mixed' = (mixed \/ ~CanWrite)
  /\ cacheFile' = Unreadable
  /\ UNCHANGED <<entries, loader, clearing, clock, past>>

EndPersist(w) ==
  /\ worker[w].at = "persisting"
  /\ worker' = [worker EXCEPT
       ![w] = IF @.keys = {} THEN NoWork ELSE Inserting(@)]
  /\ cacheFile' \in {Written(worker[w].writes)} \cup (IF mixed THEN {Unreadable} ELSE {})
  /\ mixed' = (mixed /\ \E v \in Workers \ {w} : worker[v].at = "persisting")
  /\ UNCHANGED <<entries, loader, clearing, clock, past>>

(* persist_encrypted is off, or the file cannot be written. *)
SkipPersist(w) ==
  /\ worker[w].at = "persist"
  /\ worker' = [worker EXCEPT
       ![w] = IF @.keys = {} THEN NoWork ELSE Inserting(@)]
  /\ UNCHANGED <<entries, cacheFile, mixed, loader, clearing, clock, past>>

(* load_from_disk: the file is read and deciphered before the lock is      *)
(* taken; what is in memory by then is dropped.                            *)
ReadFile ==
  /\ loader = Reading
  /\ loader' = IF cacheFile.is = "readable" THEN [at |-> "loading", holds |-> cacheFile.holds]
               ELSE Loaded
  /\ past' = [past EXCEPT !.excused = @ \/ clearing]
  /\ UNCHANGED <<entries, cacheFile, worker, mixed, clearing, clock>>

Load ==
  /\ loader.at = "loading" /\ CanWrite
  /\ entries' = {e \in loader.holds : Unexpired(e)}
  /\ loader' = Loaded
  /\ UNCHANGED <<cacheFile, worker, mixed, clearing, clock, past>>

(* Mutant: the memory is cleared beside a persist that holds the lock. *)
ClearBesidePersist ==
  /\ ~clearing /\ past.clears < MaxClears
  /\ entries' = {}
  /\ clearing' = TRUE
  /\ past' = [past EXCEPT !.clears = @ + 1,
                          !.excused = @ \/ loader.at = "loading"]
  /\ UNCHANGED <<cacheFile, worker, mixed, loader, clock>>

(* CacheStore::clear: the memory under the lock, then the file.  A clear   *)
(* that overlaps the start-up task between its reading the file and its    *)
(* storing it, and one that could not remove the file and said so, are     *)
(* noted in past.excused.                                                  *)
ClearMemory ==
  /\ ~clearing /\ past.clears < MaxClears /\ CanWrite
  /\ entries' = {}
  /\ clearing' = TRUE
  /\ past' = [past EXCEPT !.clears = @ + 1,
                          !.excused = @ \/ loader.at = "loading"]
  /\ UNCHANGED <<cacheFile, worker, mixed, loader, clock>>

ClearFile ==
  /\ clearing
  /\ clearing' = FALSE
  /\ \/ /\ cacheFile' = NoFile
        /\ UNCHANGED past
     \/ /\ cacheFile # NoFile
        /\ past' = [past EXCEPT !.excused = TRUE]
        /\ UNCHANGED cacheFile
  /\ UNCHANGED <<entries, worker, mixed, loader, clock>>

CacheTick ==
  /\ clock < MaxTime /\ clock' = clock + 1
  /\ UNCHANGED <<entries, cacheFile, worker, mixed, loader, clearing, past>>

(* The program ends at any moment and is started again. *)
RestartCache ==
  /\ past.starts < MaxCacheStarts
  /\ past' = [past EXCEPT !.starts = @ + 1, !.excused = @ \/ clearing]
  /\ entries' = {} /\ worker' = [w \in Workers |-> NoWork]
  /\ mixed' = FALSE /\ loader' = Reading /\ clearing' = FALSE
  /\ UNCHANGED <<cacheFile, clock>>

CacheNext ==
  \/ \E w \in Workers :
       LookUp(w) \/ Insert(w) \/ BeginPersist(w) \/ EndPersist(w) \/ SkipPersist(w)
  \/ ReadFile \/ Load \/ ClearMemory \/ ClearFile \/ CacheTick \/ RestartCache

CacheSpec == CacheInit /\ [][CacheNext]_cvars

-----------------------------------------------------------------------------
(* What a request would be answered with was stored for the same provider, *)
(* model and workspace, and for a request that is the same but for what    *)
(* the session form leaves out.  It may differ in its marks when one of    *)
(* the two is safe to answer approximately, and in its words when both are *)
(* and they are of one shape.  Keys of all forms live in one table, and a  *)
(* marker of risk is looked for before the marks are taken away: so one of *)
(* the two can be a request in which it was found (cache.rs:307-350).      *)
ServesTheSameRequest ==
  \A r \in {q \in Requests : Eligible(q)}, t \in Targets : \A e \in Hits(r, t) :
    LET near == NearForm(SessionForm(Form(r))) = NearForm(SessionForm(Form(e.of)))
    IN  /\ e.key[1] = t
        /\ \/ SessionForm(Form(r)) = SessionForm(Form(e.of))
           \/ near /\ (Safe(r) \/ Safe(e.of))
           \/ Safe(r) /\ Safe(e.of) /\ SameShape(e.of, r) /\ Alike(e.of, r)

(* Once clear has returned success, nothing stored before it is in memory  *)
(* or in a readable file again, whatever turns were inserting and          *)
(* persisting, and however often the program is started afterwards.  A     *)
(* clear that overlaps the loading of the file does not promise it: what   *)
(* was read before is stored after.                                        *)
ClearedStaysCleared ==
  ~clearing /\ ~past.excused =>
    \A e \in entries \cup cacheFile.holds : e.epoch = past.clears

=============================================================================

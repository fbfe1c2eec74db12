------------------------------ MODULE DesktopMC ------------------------------
(***************************************************************************)
(* Instances for TLC of the modules about what the program keeps on disk:  *)
(* runtime state, response cache, the records of providers and agents, and *)
(* the files of the agents.  One of them moves in a behaviour, and the     *)
(* others stay where they began.                                           *)
(***************************************************************************)
EXTENDS RuntimeState, ResponseCache, AgentInjection, AgentFiles, ProviderRecords, TLC

CONSTANTS
  s1, s2, w1, w2

VARIABLE
  part       \* the module that moves

desktopVars == <<part, vars, cvars, ivars, fvars, pvars>>

(* The saves are interchangeable, and the turns at the cache.              *)
Turns == Permutations(Savers) \cup Permutations({w1, w2})

-----------------------------------------------------------------------------
(* Requests that differ in marks, words or ids; some are not to be         *)
(* answered approximately, one not at all.  A word like "now" is found     *)
(* with a space or another word after it, not with a mark.                 *)
Asking(words, marks, ids, risky) ==
  [words |-> words, marks |-> marks, ids |-> ids, shape |-> "s", tools |-> FALSE,
   risky |-> risky, long |-> TRUE, low |-> TRUE, no_store |-> FALSE]
CacheRequests == {
  Asking("now", "!", "left out", FALSE), Asking("soon", "left out", "left out", FALSE),
  Asking("now", "left out", "i1", TRUE),
  [Asking("now", "?", "left out", FALSE) EXCEPT !.low = FALSE]}

Synonyms == {<<"now", "soon">>, <<"soon", "now">>}

(* Claude Desktop has three files, which are put back when one fails;      *)
(* Codex has two, which are not.                                           *)
FilesOfAgents == [desktop |-> <<"mode", "profile", "meta">>, codex |-> <<"catalog", "config">>]

(* A bundled catalogue of two; models that are in it, under its own name   *)
(* or another, and one that takes the name of a bundled one.               *)
Bundled(slug, levels, effort) ==
  [slug |-> slug, of |-> slug, levels |-> levels, default |-> effort, window |-> 4]
Model(id, alias, short, on, levels, effort, override, window) ==
  [id |-> id, alias |-> alias, short |-> short, enabled |-> on, supported |-> levels,
   effort |-> effort, override |-> override, window |-> window]
M1 == Model("v/g1", NoValue, "g1", TRUE, <<>>, "high", TRUE, NoValue)
M2 == Model("g2", "fast", NoValue, TRUE, <<"low", "high">>, "high", TRUE, 9)
M3 == Model("x", "g1", NoValue, TRUE, <<>>, NoValue, FALSE, 8)
M4 == Model("y", NoValue, NoValue, FALSE, <<"high">>, "high", FALSE, NoValue)
ProvidedBy(id, on, models) == [id |-> id, enabled |-> on, models |-> models]
Configured(active, address, providers) ==
  [active |-> active, providers |-> providers, address |-> address, key |-> "k"]
Configurations == {
  Configured("p", "a1", <<ProvidedBy("p", TRUE, <<M1, M2>>), ProvidedBy("q", TRUE, <<M3, M4>>)>>),
  Configured("q", "a2", <<ProvidedBy("p", FALSE, <<M1, M2>>), ProvidedBy("q", TRUE, <<M3, M1>>)>>),
  Configured(NoValue, "a1", <<>>), Configured(NoValue, "a1", <<ProvidedBy("p", FALSE, <<M4>>)>>)}

Catalogued == <<Bundled("g1", <<"low", "medium">>, "low"), Bundled("g2", <<"medium">>, "medium")>>
Bound == [provider : {NoValue, "q"}, model : {NoValue, "g1", "fast"}]

(* One provider that is verified; two and an agent's copy of the first; a  *)
(* new installation.                                                       *)
Relay == Id(Shared, <<"relay">>)
AgentsCopy == [owner |-> "codex", name |-> <<"relay">>]
Provider(url) == [url |-> url, key |-> 0, pool |-> 0, models |-> {"m"}, stamp |-> 0]
Verified == [FreshConfig EXCEPT
  !.providers = (Relay :> Provider(1)), !.active = Relay,
  !.reuse = (<<Relay, "m">> :> [enabled |-> TRUE, status |-> "verified", stamp |-> 0,
                                connection |-> [url |-> 1, key |-> 0, pool |-> 0],
                                overtaken |-> FALSE])]
Copied == [Verified EXCEPT
  !.providers = (Relay :> Provider(1)) @@ (Id(Shared, <<"other">>) :> Provider(2)) @@ (AgentsCopy :> Provider(1)),
  !.active = Id(Shared, <<"other">>), !.pools = (AgentsCopy :> 0), !.modes = {AgentsCopy},
  !.agents = [codex |-> [bound |-> AgentsCopy, model |-> "m", enabled |-> TRUE, hidden |-> {Relay}],
              claude |-> [bound |-> AgentsCopy, model |-> "m", enabled |-> FALSE, hidden |-> {}]]]

(* An id of a provider is a sequence, and a starting file a record.        *)
RelayName == {<<"relay">>}
Beginnings == {[file |-> f, at |-> 1] : f \in {Verified, Copied, FreshConfig}}

ASSUME ConstantsAreSound == SoundAgents /\ SoundStarts

-----------------------------------------------------------------------------
DesktopInit ==
  /\ part \in {"runtime", "cache", "injection", "files", "records"}
  /\ Init /\ CacheInit
  /\ InjectionInit
  /\ part # "injection" => \A f \in DOMAIN files : ~files[f].own
  /\ FilesInit
  /\ part # "files" => kind = "codex" /\ agentFile = CHOOSE f \in FilesFound : TRUE
  /\ RecordsInit
  /\ part # "records" => disk = FreshConfig

DesktopNext ==
  \/ /\ part = "runtime" /\ Next
     /\ UNCHANGED <<part, cvars, ivars, fvars, pvars>>
  \/ /\ part = "cache" /\ CacheNext
     /\ UNCHANGED <<part, vars, ivars, fvars, pvars>>
  \/ /\ part = "injection" /\ InjectionNext
     /\ UNCHANGED <<part, vars, cvars, fvars, pvars>>
  \/ /\ part = "files" /\ FilesNext
     /\ UNCHANGED <<part, vars, cvars, ivars, pvars>>
  \/ /\ part = "records" /\ RecordsNext
     /\ UNCHANGED <<part, vars, cvars, ivars, fvars>>

DesktopSpec == DesktopInit /\ [][DesktopNext]_desktopVars

=============================================================================

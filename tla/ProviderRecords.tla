----------------------------- MODULE ProviderRecords -----------------------------
(***************************************************************************)
(* The configuration and the commands that change it (config/mod.rs and    *)
(* admin/mod.rs): providers, the private copies an agent is bound to, what *)
(* is kept per provider beside it, the verification of session reuse, the  *)
(* file, and reload_config.                                                *)
(*                                                                         *)
(* A command holds the write lock from its reads to its save.  Only the    *)
(* verification (two requests to the provider between two locks) and       *)
(* reload_config (no lock at all until it installs) let others in between. *)
(* A command changes the memory first; when the save fails the memory      *)
(* stays changed.  Times are a counter that every command advances.        *)
(*                                                                         *)
(* Two things of the file are taken as they usually are.  A save that fails*)
(* leaves it as it was: so does every check of AppConfig::save, but the    *)
(* write itself truncates first, and one that breaks off leaves a torn file*)
(* that the next start cannot parse.  And the file holds no demo provider  *)
(* of an early version: load_or_create removes that one, and its name from *)
(* the active provider, but not from pools, modes and agents.              *)
(***************************************************************************)
EXTENDS Naturals, Sequences, SequencesExt, FiniteSets

CONSTANTS
  AgentIds,
  Names,         \* ids of shared providers, as sequences: stem and number
  Models,
  Urls,          \* what a connection is made of: address, channel, key
  Nobody,        \* no provider, no model
  Starts,        \* [file, at]: what a file may hold at the start, and when
  MaxEdits, MaxSaveFailures     \* bounds

VARIABLES
  appConfig, disk,  \* the configuration, and what its file says
  probe,         \* the verification under way; .overtaken is history: a reload
                 \* was installed meanwhile
  reload,        \* reload_config under way
  now, failures

pvars == <<appConfig, disk, probe, reload, now, failures>>

Shared == "shared"
Id(owner, name) == [owner |-> owner, name |-> name]

BelongsTo(id, a) == id.owner = a

(* The part of a copy's id that comes from its source. *)
Part(id) == IF id.owner = Shared THEN id.name ELSE <<"agent", id.owner>> \o id.name

(* provider_clone_matches_source: the source's id, or that and digits. *)
CopyOf(id, source, a) ==
  /\ BelongsTo(id, a)
  /\ \/ id.name = Part(source)
     \/ /\ Len(id.name) = Len(Part(source)) + 1
        /\ IsPrefix(Part(source), id.name)
        /\ Last(id.name) \in Nat

Ids(c) == DOMAIN c.providers

NoAgent == [bound |-> Nobody, model |-> Nobody, enabled |-> FALSE, hidden |-> {}]

FreshConfig == [providers |-> [i \in {} |-> Nobody], active |-> Nobody,
          agents |-> [a \in AgentIds |-> NoAgent],
          pools |-> [i \in {} |-> 0], modes |-> {},
          reuse |-> [r \in {} |-> Nobody], saveable |-> TRUE]

NotUnderWay == [at |-> "idle"]

RecordsInit ==
  /\ \E start \in Starts : disk = start.file /\ now = start.at
  /\ appConfig = disk
  /\ probe = NotUnderWay /\ reload = NotUnderWay
  /\ failures = 0

CommandTick == now < MaxEdits /\ now' = now + 1

(* AppConfig::save refuses addresses that collide or do not parse, and may *)
(* fail to write.                                                          *)
SaveConfig(c) ==
  \/ c.saveable /\ disk' = c /\ UNCHANGED failures
  \/ /\ ~c.saveable /\ UNCHANGED <<disk, failures>>
  \/ /\ failures < MaxSaveFailures /\ failures' = failures + 1
     /\ UNCHANGED disk

Edited(c) == CommandTick /\ appConfig' = c /\ SaveConfig(c) /\ UNCHANGED <<probe, reload>>

(* A command that refuses after it has changed the memory. *)
EditedUnsaved(c) == CommandTick /\ appConfig' = c /\ UNCHANGED <<disk, probe, reload, failures>>

Put(f, S, v) == [y \in DOMAIN f \cup S |-> IF y \in S THEN v ELSE f[y]]
Drop(f, S) == [y \in DOMAIN f \ S |-> f[y]]

RecordsOf(c, id) == {r \in DOMAIN c.reuse : r[1] = id}

(* ensure_defaults: an enabled agent without a provider is bound to the    *)
(* default one.  Which that is depends on switches that are left out here. *)
Defaults(c) == IF Ids(c) = {} THEN {Nobody} ELSE Ids(c)
Defaulting(agent, default) ==
  [agent EXCEPT !.bound = IF agent.enabled /\ @ = Nobody THEN default ELSE @]
Ensured(c, default) == [c EXCEPT !.agents = [a \in AgentIds |-> Defaulting(@[a], default)]]

(* get_agent_injections *)
GetInjections == \E default \in Defaults(appConfig) : Edited(Ensured(appConfig, default))

(* refresh_enabled_injections_for_provider, before the save of a command:  *)
(* the files of an agent that is bound to the provider may refuse.         *)
Refreshed(c, id) ==
  IF \E a \in AgentIds : c.agents[a].enabled /\ c.agents[a].bound = id
  THEN \E default \in Ids(c) : Edited(Ensured(c, default)) \/ EditedUnsaved(Ensured(c, default))
  ELSE Edited(c)

(* save_config: the addresses are checked by the save only. *)
SetAddresses == \E ok \in BOOLEAN : Edited([appConfig EXCEPT !.saveable = ok])

(* select_provider *)
SelectProvider == \E id \in Ids(appConfig) : Edited([appConfig EXCEPT !.active = id])

-----------------------------------------------------------------------------
(* upsert_provider *)

(* upsert_provider_key_pool and the modes: beside the provider, by its id. *)
Beside(c, id, pool, mode) ==
  [c EXCEPT !.pools = IF pool THEN Put(@, {id}, now) ELSE @,
            !.modes = IF mode THEN @ \cup {id} ELSE @ \ {id}]

(* invalidate_response_session_reuse: the address, the channel, a supplied *)
(* key or a changed pool of keys.                                          *)
Reconnected(c, id, url, key, pool) ==
  id \in Ids(c) /\ (c.providers[id].url # url \/ key \/ pool)

Upserted(c, id, url, key, pool, mode) ==
  LET old == IF id \in Ids(c) THEN c.providers[id]
             ELSE [url |-> url, key |-> 0, pool |-> 0, models |-> {}, stamp |-> 0]
      next == [old EXCEPT !.url = url, !.stamp = now,
                          !.key = IF key THEN now ELSE @, !.pool = IF pool THEN now ELSE @]
      kept == IF Reconnected(c, id, url, key, pool)
              THEN Drop(c.reuse, RecordsOf(c, id)) ELSE c.reuse
  IN  Beside([c EXCEPT !.providers = Put(@, {id}, next), !.reuse = kept], id, pool, mode)

(* The first provider becomes the active one.                              *)
Activated(c, id) == IF c.active = Nobody THEN [c EXCEPT !.active = id] ELSE c

(* add_or_update_provider, one change at a time.                           *)
UpsertProvider ==
  \E id \in Ids(appConfig) \cup {Id(Shared, n) : n \in Names},
     url \in Urls, change \in {"key", "pool", "mode", "none"} :
    LET c == Upserted(appConfig, id, url, change = "key", change = "pool", change = "mode")
    IN  Refreshed(Activated(c, id), id)

-----------------------------------------------------------------------------
(* Private copies *)

Copy(c, source, S) ==
  [c EXCEPT !.providers = Put(@, S, [c.providers[source] EXCEPT !.stamp = now]),
            !.pools = IF source \in DOMAIN @ THEN Put(@, S, now) ELSE @,
            !.modes = IF source \in @ THEN @ \cup S ELSE @]

(* clone_provider_for_agent_config: the provider itself when it is the     *)
(* agent's own, a copy that looks like one of the source, or a new copy.   *)
Target(c, a, source) ==
  IF BelongsTo(source, a) THEN source
  ELSE LET copies == {i \in Ids(c) : CopyOf(i, source, a)}
       IN  IF copies # {} THEN CHOOSE i \in copies : TRUE ELSE Id(a, Part(source))

Cloning(agent, source, id, model) ==
  [agent EXCEPT !.hidden = @ \ {source}, !.bound = id, !.model = model]

(* For one agent after the other, each with the model it is asked for: a   *)
(* copy is one agent's, and what another finds is not changed by it.       *)
Cloned(c, asked, source) ==
  LET new == {Target(c, a, source) : a \in DOMAIN asked} \ Ids(c)
      d == Copy(c, source, new)
      model(id, m) == IF m \in d.providers[id].models THEN m ELSE Nobody
      agent(a) == LET id == Target(c, a, source)
                  IN  Cloning(c.agents[a], source, id, model(id, asked[a]))
  IN  [d EXCEPT !.agents = [a \in AgentIds |-> IF a \in DOMAIN asked THEN agent(a) ELSE @[a]]]

CloneFor(a, source, model) == Cloned(appConfig, [b \in {a} |-> model], source)

CloneForAgent ==
  \E a \in AgentIds, source \in Ids(appConfig), model \in Models \cup {Nobody} :
    Edited(CloneFor(a, source, model))

(* update_agent_injection_route: a shared provider is copied first; when   *)
(* the route is refused or cannot be injected, the copy stays.  An enabled *)
(* agent that is left without a provider gets the default one.             *)
UpdateAgentRoute ==
  \E a \in AgentIds, p \in Ids(appConfig) \cup {Nobody}, model \in Models \cup {Nobody},
     default \in Defaults(appConfig) :
    LET copied == IF p = Nobody \/ BelongsTo(p, a) THEN appConfig ELSE CloneFor(a, p, model)
        c == Ensured(copied, default)
        id == IF p = Nobody THEN Nobody ELSE Target(appConfig, a, p)
        routed == [c EXCEPT !.agents[a] = [@ EXCEPT !.bound = id, !.model = model]]
    IN  IF p # Nobody /\ model # Nobody /\ model \notin c.providers[id].models
        THEN EditedUnsaved(c)
        ELSE Edited(Ensured(routed, default)) \/ (appConfig.agents[a].enabled /\ EditedUnsaved(c))

(* set_agent_injection_enabled: the record goes back when the files cannot *)
(* be written.                                                             *)
SetInjection ==
  \E a \in AgentIds, on \in BOOLEAN, default \in Defaults(appConfig) :
    LET c == Ensured(appConfig, default)
        switched == [c EXCEPT !.agents[a] = [@ EXCEPT !.enabled = on]]
    IN  Edited(Ensured(switched, default)) \/ (on /\ EditedUnsaved(c))

-----------------------------------------------------------------------------
(* delete_provider *)

Hides(agent, id) == [agent EXCEPT !.hidden = @ \cup {id}]
Shows(agent, id) == [agent EXCEPT !.hidden = @ \ {id}]

(* Mutant: the agents' lists of hidden providers are not looked through. *)
RemovedButHidden(c, id) ==
  [c EXCEPT !.providers = Drop(@, {id}), !.pools = Drop(@, {id}), !.modes = @ \ {id},
            !.reuse = Drop(@, RecordsOf(c, id))]

(* remove_provider_records *)
Removed(c, id) ==
  [c EXCEPT !.providers = Drop(@, {id}), !.pools = Drop(@, {id}), !.modes = @ \ {id},
            !.reuse = Drop(@, RecordsOf(c, id)),
            !.agents = [a \in AgentIds |-> Shows(@[a], id)]]

Unbound(agent, id) ==
  IF agent.bound = id THEN [agent EXCEPT !.bound = Nobody, !.model = Nobody, !.enabled = FALSE]
  ELSE agent

(* A shared provider is only taken off the agent's list. *)
RemoveFromAgent ==
  \E a \in AgentIds, id \in Ids(appConfig) :
    /\ ~BelongsTo(id, a)
    /\ Edited([appConfig EXCEPT !.agents[a] = Unbound(Hides(@, id), id)])

(* The agent's own copy goes; other agents bound to it get copies of it.   *)
DeleteCopy ==
  \E a \in AgentIds, id \in Ids(appConfig) :
    /\ BelongsTo(id, a) /\ appConfig.active # id
    /\ LET others == {b \in AgentIds \ {a} : appConfig.agents[b].bound = id}
           moved == Cloned(appConfig, [b \in others |-> appConfig.agents[b].model], id)
           sources == {i \in Ids(moved) : i.owner = Shared /\ CopyOf(id, i, a)}
           gone == Removed(moved, id)
           agent == IF sources = {} THEN gone.agents[a]
                    ELSE Hides(gone.agents[a], CHOOSE i \in sources : TRUE)
       IN  Edited([gone EXCEPT !.agents[a] = Unbound(agent, id)])

(* Without an agent: only what nobody refers to. *)
DeleteProvider ==
  \E id \in Ids(appConfig) :
    /\ appConfig.active # id
    /\ \A a \in AgentIds : appConfig.agents[a].bound # id
    /\ Edited(Removed(appConfig, id))

-----------------------------------------------------------------------------
(* add_or_update_model, delete_model *)
Offering(p, models) == [p EXCEPT !.models = models, !.stamp = now]

PutModel ==
  \E id \in Ids(appConfig), m \in Models :
    Refreshed([appConfig EXCEPT !.providers[id] = Offering(@, @.models \cup {m})], id)

DeleteModel ==
  \E id \in Ids(appConfig), m \in Models :
    Edited([appConfig EXCEPT !.providers[id] = Offering(@, @.models \ {m}),
                          !.reuse = Drop(@, {<<id, m>>})])

-----------------------------------------------------------------------------
(* The verification of session reuse *)

(* What a verification holds for. *)
Connection(c, id) ==
  LET p == c.providers[id] IN [url |-> p.url, key |-> p.key, pool |-> p.pool]

(* response_session_reuse_probe_target, ..._record_snapshot *)
ProbeTarget(c, id) ==
  [url |-> c.providers[id].url, mode |-> id \in c.modes, stamp |-> c.providers[id].stamp,
   pool |-> IF id \in DOMAIN c.pools THEN c.pools[id] ELSE 0]
RecordSnapshot(c, r) ==
  IF r \notin DOMAIN c.reuse THEN Nobody
  ELSE [enabled |-> c.reuse[r].enabled, status |-> c.reuse[r].status, stamp |-> c.reuse[r].stamp]

StartProbe ==
  /\ probe = NotUnderWay
  /\ \E id \in Ids(appConfig), m \in Models :
       probe' = [at |-> "started", record |-> <<id, m>>, target |-> ProbeTarget(appConfig, id),
                 snapshot |-> RecordSnapshot(appConfig, <<id, m>>), connection |-> Nobody,
                 overtaken |-> FALSE]
  /\ UNCHANGED <<appConfig, disk, reload, now, failures>>

(* probe_provider_response_session_reuse reads the provider again. *)
SendProbe ==
  /\ probe.at = "started"
  /\ probe' = IF probe.record[1] \in Ids(appConfig)
              THEN [probe EXCEPT !.at = "sent", !.connection = Connection(appConfig, probe.record[1])]
              ELSE NotUnderWay
  /\ UNCHANGED <<appConfig, disk, reload, now, failures>>

(* record_response_session_reuse_probe *)
Recorded(c, r, status, connection, overtaken) ==
  [c EXCEPT !.reuse = Put(@, {r}, [enabled |-> status = "verified", status |-> status,
                                 stamp |-> now, connection |-> connection,
                                 overtaken |-> overtaken])]

(* Mutant: the answer is recorded whatever happened meanwhile. *)
StillTheSameAlways(c) == TRUE

StillTheSame(c) ==
  /\ probe.record[1] \in Ids(c)
  /\ ProbeTarget(c, probe.record[1]) = probe.target
  /\ RecordSnapshot(c, probe.record) = probe.snapshot

EndProbe ==
  /\ probe.at = "sent"
  /\ probe' = NotUnderWay
  /\ \E status \in {"verified", "unsupported"} :
       IF StillTheSame(appConfig)
       THEN LET c == Recorded(appConfig, probe.record, status, probe.connection, probe.overtaken)
            IN  CommandTick /\ appConfig' = c /\ SaveConfig(c)
       ELSE UNCHANGED <<appConfig, disk, now, failures>>
  /\ UNCHANGED reload

(* set_response_session_reuse_enabled: only what was verified. *)
SetReuse ==
  \E r \in DOMAIN appConfig.reuse, on \in BOOLEAN :
    /\ on => appConfig.reuse[r].status = "verified"
    /\ Edited([appConfig EXCEPT !.reuse[r] = [@ EXCEPT !.enabled = on, !.stamp = now]])

(* invalidate_verified_third_party_response_session_reuse: a turn's delta  *)
(* was refused.                                                            *)
Withdraw ==
  \E r \in DOMAIN appConfig.reuse :
    /\ appConfig.reuse[r].enabled /\ appConfig.reuse[r].status = "verified"
    /\ Edited(Recorded(appConfig, r, "unsupported", appConfig.reuse[r].connection, FALSE))

-----------------------------------------------------------------------------
(* reload_config: loads, saves and installs, without a lock before the     *)
(* last step.                                                              *)
ReadDisk ==
  /\ reload = NotUnderWay /\ CommandTick
  /\ \E default \in Defaults(disk) :
       reload' = [at |-> "read", config |-> Ensured(disk, default)]
  /\ UNCHANGED <<appConfig, disk, probe, failures>>

WriteBack ==
  /\ reload.at = "read"
  /\ \/ /\ disk' = reload.config /\ reload' = [reload EXCEPT !.at = "written"]
        /\ UNCHANGED failures
     \/ /\ failures < MaxSaveFailures /\ failures' = failures + 1
        /\ reload' = NotUnderWay /\ UNCHANGED disk
  /\ UNCHANGED <<appConfig, probe, now>>

Install ==
  /\ reload.at = "written"
  /\ appConfig' = reload.config
  /\ reload' = NotUnderWay
  /\ probe' = IF probe = NotUnderWay THEN NotUnderWay ELSE [probe EXCEPT !.overtaken = TRUE]
  /\ UNCHANGED <<disk, now, failures>>

(* The program ends and starts, and saves what it has read (of a file that *)
(* is whole and without the demo provider).                                *)
RestartRecords ==
  /\ CommandTick
  /\ \E default \in Defaults(disk) : disk' = Ensured(disk, default)
  /\ appConfig' = disk'
  /\ probe' = NotUnderWay /\ reload' = NotUnderWay
  /\ UNCHANGED failures

RecordsNext ==
  \/ SetAddresses \/ SelectProvider \/ UpsertProvider \/ CloneForAgent \/ UpdateAgentRoute
  \/ GetInjections \/ SetInjection \/ RemoveFromAgent \/ DeleteCopy \/ DeleteProvider \/ PutModel \/ DeleteModel
  \/ StartProbe \/ SendProbe \/ EndProbe \/ SetReuse \/ Withdraw
  \/ ReadDisk \/ WriteBack \/ Install \/ RestartRecords

RecordsSpec == RecordsInit /\ [][RecordsNext]_pvars

-----------------------------------------------------------------------------
Resolves(c) ==
  /\ c.active \in Ids(c) \cup {Nobody}
  /\ \A a \in AgentIds : /\ c.agents[a].bound \in Ids(c) \cup {Nobody}
                         /\ c.agents[a].hidden \subseteq Ids(c)
  /\ DOMAIN c.pools \cup c.modes \subseteq Ids(c)
  /\ \A r \in DOMAIN c.reuse : r[1] \in Ids(c)

(* Whatever is copied, bound, hidden and deleted in whichever order, also  *)
(* when saves fail and the file is read back, every reference names a      *)
(* provider that is there: the active one, the agents' own, those an agent *)
(* has hidden, and the pools, modes and verifications kept beside them.    *)
(* (Of a file without the demo provider: load_or_create leaves references  *)
(* to that one behind.)                                                    *)
ReferencesResolve == Resolves(appConfig) /\ Resolves(disk)

(* A verification in force was made with the connection the provider has   *)
(* now: an edit during the two requests, a copy or a failed save never     *)
(* carries it over to another address or key.  A reload that takes back an *)
(* edit made during the requests does: the times are then those from       *)
(* before the edit, and the comparison sees nothing.                       *)
VerifiedIn(c) ==
  \A r \in DOMAIN c.reuse :
    (c.reuse[r].status = "verified" /\ ~c.reuse[r].overtaken) =>
      c.reuse[r].connection = Connection(c, r[1])

VerifiedForThisConnection == VerifiedIn(appConfig)

-----------------------------------------------------------------------------
(* What the proofs ask of a file that is found at the start: that it is of *)
(* the configuration's shape, that the two properties hold of it, and that *)
(* it was written before.  Agents have other names than the shared ones.   *)
IsProvider(p) ==
  /\ p = [url |-> p.url, key |-> p.key, pool |-> p.pool, models |-> p.models, stamp |-> p.stamp]
  /\ p.stamp \in Nat
IsAgent(g) == g = [bound |-> g.bound, model |-> g.model, enabled |-> g.enabled, hidden |-> g.hidden]
IsVerification(v) ==
  v = [enabled |-> v.enabled, status |-> v.status, stamp |-> v.stamp,
       connection |-> v.connection, overtaken |-> v.overtaken]

IsConfig(c) ==
  /\ c = [providers |-> c.providers, active |-> c.active, agents |-> c.agents, pools |-> c.pools,
          modes |-> c.modes, reuse |-> c.reuse, saveable |-> c.saveable]
  /\ c.providers = [i \in Ids(c) |-> c.providers[i]]
  /\ \A i \in Ids(c) : IsProvider(c.providers[i])
  /\ c.agents = [a \in AgentIds |-> c.agents[a]]
  /\ \A a \in AgentIds : IsAgent(c.agents[a])
  /\ c.reuse = [r \in DOMAIN c.reuse |-> c.reuse[r]]
  /\ \A r \in DOMAIN c.reuse : IsVerification(c.reuse[r])

Whole(c) == IsConfig(c) /\ Resolves(c) /\ VerifiedIn(c)
StampedBefore(c, t) == \A i \in Ids(c) : c.providers[i].stamp < t

SoundStarts ==
  /\ Shared \notin AgentIds
  /\ \A start \in Starts : start.at \in Nat /\ Whole(start.file) /\ StampedBefore(start.file, start.at)
=============================================================================

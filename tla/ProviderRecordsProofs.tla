------------------------ MODULE ProviderRecordsProofs ------------------------
(***************************************************************************)
(* Proofs about ProviderRecords, for any agents, providers, models and     *)
(* connections, from any sound configuration file.                         *)
(*                                                                         *)
(* Every command turns one whole configuration into another, and whatever  *)
(* it does to a provider it marks with its own time.  That is why the      *)
(* stored time tells whether a provider is still the one a verification    *)
(* was started with - unless a reload takes times back.                    *)
(***************************************************************************)
EXTENDS ProviderRecords, TLAPS

(* A provider that is not as it was has the time of now.                   *)
Follows(c, d) ==
  \A i \in Ids(d) : \/ d.providers[i].stamp = now
                    \/ i \in Ids(c) /\ d.providers[i] = c.providers[i]

Edits(c, d) == Whole(d) /\ Follows(c, d)

IsProbe ==
  /\ probe = [at |-> probe.at, record |-> probe.record, target |-> probe.target,
              snapshot |-> probe.snapshot, connection |-> probe.connection,
              overtaken |-> probe.overtaken]
  /\ probe.at \in {"started", "sent"}
  /\ probe.target.stamp \in Nat /\ probe.target.stamp < now

IsReload ==
  /\ reload = [at |-> reload.at, config |-> reload.config]
  /\ Whole(reload.config) /\ StampedBefore(reload.config, now)

(* The provider that has still the time it had when the probe started has  *)
(* the connection that was probed.                                         *)
ProbeInv ==
  probe = NotUnderWay \/
    /\ IsProbe
    /\ (/\ probe.at = "sent" /\ ~probe.overtaken
        /\ probe.record[1] \in Ids(appConfig)
        /\ appConfig.providers[probe.record[1]].stamp = probe.target.stamp)
       => probe.connection = Connection(appConfig, probe.record[1])

RecordsInv ==
  /\ now \in Nat
  /\ Whole(appConfig) /\ StampedBefore(appConfig, now)
  /\ Whole(disk) /\ StampedBefore(disk, now)
  /\ reload = NotUnderWay \/ IsReload
  /\ ProbeInv

-----------------------------------------------------------------------------
(* Edits of a configuration.                                               *)

LEMMA EditsCompose ==
  ASSUME NEW c, NEW d, NEW e, Edits(c, d), Edits(d, e)
  PROVE  Edits(c, e)
BY DEF Edits, Follows

(* Only who is bound to what, and hides what.                              *)
LEMMA AgentsEdited ==
  ASSUME NEW c, Whole(c), NEW f, f = [a \in AgentIds |-> f[a]],
         \A a \in AgentIds : /\ IsAgent(f[a])
                             /\ f[a].bound \in Ids(c) \cup {Nobody}
                             /\ f[a].hidden \subseteq Ids(c)
  PROVE  Edits(c, [c EXCEPT !.agents = f])
<1> DEFINE d == [c EXCEPT !.agents = f]
<1>1. d = [providers |-> c.providers, active |-> c.active, agents |-> f, pools |-> c.pools,
           modes |-> c.modes, reuse |-> c.reuse, saveable |-> c.saveable]
  BY DEF Whole, IsConfig
<1>2. IsConfig(d)
  BY <1>1 DEF Whole, IsConfig, Ids
<1>3. Resolves(d)
  BY <1>1 DEF Whole, Resolves, Ids
<1>4. VerifiedIn(d) /\ Follows(c, d)
  BY <1>1 DEF Whole, VerifiedIn, Connection, Follows, Ids
<1> QED
  BY <1>2, <1>3, <1>4 DEF Edits, Whole

LEMMA AgentEdited ==
  ASSUME NEW c, Whole(c), NEW a \in AgentIds, NEW g, IsAgent(g),
         g.bound \in Ids(c) \cup {Nobody}, g.hidden \subseteq Ids(c)
  PROVE  Edits(c, [c EXCEPT !.agents[a] = g])
<1> DEFINE f == [c.agents EXCEPT ![a] = g]
<1>1. f = [b \in AgentIds |-> f[b]] /\ \A b \in AgentIds : f[b] = IF b = a THEN g ELSE c.agents[b]
  BY DEF Whole, IsConfig
<1>2. \A b \in AgentIds : /\ IsAgent(f[b])
                          /\ f[b].bound \in Ids(c) \cup {Nobody}
                          /\ f[b].hidden \subseteq Ids(c)
  BY <1>1 DEF Whole, IsConfig, Resolves
<1> HIDE DEF f
<1>3. Edits(c, [c EXCEPT !.agents = f])
  BY <1>1, <1>2, AgentsEdited
<1> QED
  BY <1>3 DEF f

(* Which provider is active, and whether the addresses can be saved.       *)
LEMMA SettingsEdited ==
  ASSUME NEW c, Whole(c), NEW x \in Ids(c) \cup {Nobody}, NEW ok
  PROVE  Edits(c, [c EXCEPT !.active = x]) /\ Edits(c, [c EXCEPT !.saveable = ok])
<1> DEFINE d == [c EXCEPT !.active = x]
           e == [c EXCEPT !.saveable = ok]
<1>1. /\ d = [providers |-> c.providers, active |-> x, agents |-> c.agents, pools |-> c.pools,
              modes |-> c.modes, reuse |-> c.reuse, saveable |-> c.saveable]
      /\ e = [providers |-> c.providers, active |-> c.active, agents |-> c.agents, pools |-> c.pools,
              modes |-> c.modes, reuse |-> c.reuse, saveable |-> ok]
  BY DEF Whole, IsConfig
<1>2. IsConfig(d) /\ IsConfig(e)
  BY <1>1 DEF Whole, IsConfig, Ids
<1>3. Resolves(d) /\ Resolves(e)
  BY <1>1 DEF Whole, Resolves, Ids
<1>4. VerifiedIn(d) /\ VerifiedIn(e) /\ Follows(c, d) /\ Follows(c, e)
  BY <1>1 DEF Whole, VerifiedIn, Connection, Follows, Ids
<1> QED
  BY <1>2, <1>3, <1>4 DEF Edits, Whole

(* A provider with the time of now.                                        *)
LEMMA Restamped ==
  ASSUME now \in Nat, NEW p, IsProvider(p), NEW models
  PROVE  /\ IsProvider([p EXCEPT !.stamp = now]) /\ [p EXCEPT !.stamp = now].stamp = now
         /\ IsProvider([p EXCEPT !.models = models, !.stamp = now])
         /\ [p EXCEPT !.models = models, !.stamp = now].stamp = now
         /\ [p EXCEPT !.models = models, !.stamp = now].url = p.url
         /\ [p EXCEPT !.models = models, !.stamp = now].key = p.key
         /\ [p EXCEPT !.models = models, !.stamp = now].pool = p.pool
<1>1. [p EXCEPT !.stamp = now]
        = [url |-> p.url, key |-> p.key, pool |-> p.pool, models |-> p.models, stamp |-> now]
  BY DEF IsProvider
<1>2. [p EXCEPT !.models = models, !.stamp = now]
        = [url |-> p.url, key |-> p.key, pool |-> p.pool, models |-> models, stamp |-> now]
  <2> DEFINE q == [p EXCEPT !.models = models]
  <2>1. q = [url |-> p.url, key |-> p.key, pool |-> p.pool, models |-> models, stamp |-> p.stamp]
    BY DEF IsProvider
  <2> HIDE DEF q
  <2>2. [q EXCEPT !.stamp = now]
          = [url |-> p.url, key |-> p.key, pool |-> p.pool, models |-> models, stamp |-> now]
    BY <2>1
  <2> QED
    BY <2>2 DEF q
<1> QED
  BY <1>1, <1>2 DEF IsProvider

(* Copies of a provider under names that no provider has yet.              *)
LEMMA Copied ==
  ASSUME now \in Nat, NEW c, Whole(c), NEW source \in Ids(c), NEW S, S \cap Ids(c) = {}
  PROVE  /\ Edits(c, Copy(c, source, S))
         /\ Ids(Copy(c, source, S)) = Ids(c) \cup S
         /\ Copy(c, source, S).agents = c.agents
         /\ Copy(c, source, S).active = c.active
<1> DEFINE p == [c.providers[source] EXCEPT !.stamp = now]
           providers == Put(c.providers, S, p)
           pools == IF source \in DOMAIN c.pools THEN Put(c.pools, S, now) ELSE c.pools
           modes == IF source \in c.modes THEN c.modes \cup S ELSE c.modes
           d == Copy(c, source, S)
<1>1. IsProvider(p) /\ p.stamp = now
  BY Restamped DEF Whole, IsConfig
<1>2. /\ providers = [i \in Ids(c) \cup S |-> providers[i]] /\ DOMAIN providers = Ids(c) \cup S
      /\ \A i \in Ids(c) \cup S : providers[i] = IF i \in S THEN p ELSE c.providers[i]
      /\ DOMAIN pools \cup modes \subseteq Ids(c) \cup S
  BY DEF Put, Ids, Whole, Resolves
<1>9. d = [c EXCEPT !.providers = providers, !.pools = pools, !.modes = modes]
  BY DEF Copy
<1> HIDE DEF p, providers, pools, modes, d
<1>3. d = [providers |-> providers, active |-> c.active, agents |-> c.agents, pools |-> pools,
           modes |-> modes, reuse |-> c.reuse, saveable |-> c.saveable]
  BY <1>9 DEF Whole, IsConfig
<1>4. Ids(d) = Ids(c) \cup S
  BY <1>2, <1>3 DEF Ids
<1>5. IsConfig(d)
  BY <1>1, <1>2, <1>3, <1>4 DEF Whole, IsConfig
<1>6. Resolves(d)
  BY <1>2, <1>3, <1>4 DEF Whole, Resolves
<1>7. VerifiedIn(d)
  BY <1>2, <1>3, <1>4 DEF Whole, VerifiedIn, Resolves, Connection
<1>8. Follows(c, d)
  BY <1>1, <1>2, <1>3, <1>4 DEF Follows
<1> QED
  BY <1>3, <1>4, <1>5, <1>6, <1>7, <1>8 DEF Edits, Whole, d

(* An edit that changes nothing.                                           *)
LEMMA EditsNothing ==
  ASSUME NEW c, Whole(c)
  PROVE  Edits(c, c)
BY DEF Edits, Follows

(* The records of an agent that the commands make of one.                  *)
LEMMA AgentBound ==
  ASSUME NEW g, IsAgent(g), NEW x, NEW y
  PROVE  [g EXCEPT !.bound = x, !.model = y]
           = [bound |-> x, model |-> y, enabled |-> g.enabled, hidden |-> g.hidden]
<1> DEFINE b == [g EXCEPT !.bound = x]
<1>1. b = [bound |-> x, model |-> g.model, enabled |-> g.enabled, hidden |-> g.hidden]
  BY DEF IsAgent
<1> HIDE DEF b
<1>2. [b EXCEPT !.model = y] = [bound |-> x, model |-> y, enabled |-> g.enabled, hidden |-> g.hidden]
  BY <1>1
<1> QED
  BY <1>2 DEF b

LEMMA AgentDefaulted ==
  ASSUME NEW g, IsAgent(g), NEW default
  PROVE  /\ IsAgent(Defaulting(g, default)) /\ Defaulting(g, default).hidden = g.hidden
         /\ Defaulting(g, default).bound \in {g.bound, default}
<1> DEFINE x == IF g.enabled /\ g.bound = Nobody THEN default ELSE g.bound
<1>1. Defaulting(g, default) = [g EXCEPT !.bound = x]
  BY DEF Defaulting
<1>2. x \in {g.bound, default}
  OBVIOUS
<1> HIDE DEF x
<1>3. Defaulting(g, default)
        = [bound |-> x, model |-> g.model, enabled |-> g.enabled, hidden |-> g.hidden]
  BY <1>1 DEF IsAgent
<1> QED
  BY <1>2, <1>3 DEF IsAgent

LEMMA AgentSwitched ==
  ASSUME NEW g, IsAgent(g), NEW on
  PROVE  /\ IsAgent([g EXCEPT !.enabled = on]) /\ [g EXCEPT !.enabled = on].hidden = g.hidden
         /\ [g EXCEPT !.enabled = on].bound = g.bound
<1>1. [g EXCEPT !.enabled = on]
        = [bound |-> g.bound, model |-> g.model, enabled |-> on, hidden |-> g.hidden]
  BY DEF IsAgent
<1> QED
  BY <1>1 DEF IsAgent

LEMMA AgentOff ==
  ASSUME NEW g, IsAgent(g), NEW id
  PROVE  /\ IsAgent(Hides(g, id)) /\ Hides(g, id).hidden = g.hidden \cup {id}
         /\ Hides(g, id).bound = g.bound
         /\ IsAgent(Unbound(g, id)) /\ Unbound(g, id).hidden = g.hidden
         /\ Unbound(g, id).bound = IF g.bound = id THEN Nobody ELSE g.bound
<1>1. Hides(g, id)
        = [bound |-> g.bound, model |-> g.model, enabled |-> g.enabled, hidden |-> g.hidden \cup {id}]
  BY DEF IsAgent, Hides
<1> DEFINE b == [g EXCEPT !.bound = Nobody, !.model = Nobody]
<1>2. b = [bound |-> Nobody, model |-> Nobody, enabled |-> g.enabled, hidden |-> g.hidden]
  BY AgentBound
<1> DEFINE off == FALSE
<1>4. g.bound = id => Unbound(g, id) = [b EXCEPT !.enabled = off]
  BY DEF Unbound
<1> HIDE DEF b, off
<1>3. [b EXCEPT !.enabled = off]
        = [bound |-> Nobody, model |-> Nobody, enabled |-> off, hidden |-> g.hidden]
  BY <1>2
<1>5. g.bound # id => Unbound(g, id) = g
  BY DEF Unbound
<1> QED
  BY <1>1, <1>3, <1>4, <1>5 DEF IsAgent

(* The enabled agents that have no provider get one that is there.         *)
LEMMA EnsuredEdits ==
  ASSUME NEW c, Whole(c), NEW default \in Ids(c) \cup {Nobody}
  PROVE  Edits(c, Ensured(c, default)) /\ Ids(Ensured(c, default)) = Ids(c)
<1> DEFINE f == [a \in AgentIds |-> Defaulting(c.agents[a], default)]
<1>1. f = [a \in AgentIds |-> f[a]] /\ \A a \in AgentIds : f[a] = Defaulting(c.agents[a], default)
  OBVIOUS
<1>2. \A a \in AgentIds : /\ IsAgent(c.agents[a])
                          /\ c.agents[a].bound \in Ids(c) \cup {Nobody}
                          /\ c.agents[a].hidden \subseteq Ids(c)
  BY DEF Whole, IsConfig, Resolves
<1>3. Ensured(c, default) = [c EXCEPT !.agents = f]
  BY DEF Ensured
<1> HIDE DEF f
<1>4. \A a \in AgentIds : /\ IsAgent(f[a])
                          /\ f[a].bound \in Ids(c) \cup {Nobody}
                          /\ f[a].hidden \subseteq Ids(c)
  <2> SUFFICES ASSUME NEW a \in AgentIds
               PROVE  /\ IsAgent(f[a])
                      /\ f[a].bound \in Ids(c) \cup {Nobody}
                      /\ f[a].hidden \subseteq Ids(c)
    OBVIOUS
  <2> DEFINE g == c.agents[a]
  <2>1. f[a] = Defaulting(g, default)
    BY <1>1
  <2>2. IsAgent(g) /\ g.bound \in Ids(c) \cup {Nobody} /\ g.hidden \subseteq Ids(c)
    BY <1>2
  <2> HIDE DEF g
  <2> QED
    BY <2>1, <2>2, AgentDefaulted
<1>5. [c EXCEPT !.agents = f].providers = c.providers
  BY DEF Whole, IsConfig
<1> QED
  BY <1>1, <1>3, <1>4, <1>5, AgentsEdited DEF Ids

LEMMA DefaultsAreThere ==
  ASSUME NEW c, NEW default \in Defaults(c)
  PROVE  default \in Ids(c) \cup {Nobody}
BY DEF Defaults

(* An agent that is given a route.                                         *)
LEMMA AgentRouted ==
  ASSUME NEW c, Whole(c), NEW a \in AgentIds, NEW id \in Ids(c) \cup {Nobody}, NEW model
  PROVE  Edits(c, [c EXCEPT !.agents[a] = [@ EXCEPT !.bound = id, !.model = model]])
<1> DEFINE old == c.agents[a]
           g == [old EXCEPT !.bound = id, !.model = model]
<1>1. IsAgent(old) /\ old.hidden \subseteq Ids(c)
  BY DEF Whole, Resolves, IsConfig
<1> HIDE DEF old
<1>2. g = [bound |-> id, model |-> model, enabled |-> old.enabled, hidden |-> old.hidden]
  BY <1>1, AgentBound
<1> HIDE DEF g
<1>3. Edits(c, [c EXCEPT !.agents[a] = g])
  BY <1>1, <1>2, AgentEdited DEF IsAgent
<1> QED
  BY <1>3 DEF g, old

(* A clone for some agents: each is bound to a provider that is there.     *)
LEMMA ClonesEdit ==
  ASSUME now \in Nat, NEW c, Whole(c), NEW source \in Ids(c),
         NEW S \in SUBSET AgentIds, NEW asked, asked = [a \in S |-> asked[a]]
  PROVE  /\ Edits(c, Cloned(c, asked, source))
         /\ Ids(c) \subseteq Ids(Cloned(c, asked, source))
         /\ Cloned(c, asked, source).active = c.active
         /\ \A a \in S : /\ Cloned(c, asked, source).agents[a].bound = Target(c, a, source)
                         /\ Target(c, a, source) \in Ids(Cloned(c, asked, source))
         /\ \A a \in AgentIds \ S : Cloned(c, asked, source).agents[a] = c.agents[a]
<1> DEFINE new == {Target(c, a, source) : a \in DOMAIN asked} \ Ids(c)
           d == Copy(c, source, new)
           model(id, m) == IF m \in d.providers[id].models THEN m ELSE Nobody
           agent(a) == Cloning(c.agents[a], source, Target(c, a, source),
                               model(Target(c, a, source), asked[a]))
           f == [a \in AgentIds |-> IF a \in DOMAIN asked THEN agent(a) ELSE d.agents[a]]
<1>1. DOMAIN asked = S
  OBVIOUS
<1>2. Edits(c, d) /\ Ids(d) = Ids(c) \cup new /\ d.agents = c.agents /\ d.active = c.active
  BY Copied
<1>3. Cloned(c, asked, source) = [d EXCEPT !.agents = f]
  BY DEF Cloned
<1>11. ASSUME NEW g, IsAgent(g), NEW id, NEW m
       PROVE  /\ IsAgent(Cloning(g, source, id, m)) /\ Cloning(g, source, id, m).bound = id
              /\ Cloning(g, source, id, m).hidden = g.hidden \ {source}
  <2>1. Cloning(g, source, id, m)
          = [bound |-> id, model |-> m, enabled |-> g.enabled, hidden |-> g.hidden \ {source}]
    <3> DEFINE h == [g EXCEPT !.hidden = @ \ {source}]
               i == [h EXCEPT !.bound = id]
    <3>1. h = [bound |-> g.bound, model |-> g.model, enabled |-> g.enabled, hidden |-> g.hidden \ {source}]
      BY <1>11 DEF IsAgent
    <3> HIDE DEF h
    <3>2. i = [bound |-> id, model |-> g.model, enabled |-> g.enabled, hidden |-> g.hidden \ {source}]
      BY <3>1
    <3> HIDE DEF i
    <3>3. [i EXCEPT !.model = m]
            = [bound |-> id, model |-> m, enabled |-> g.enabled, hidden |-> g.hidden \ {source}]
      BY <3>2
    <3> QED
      BY <3>3 DEF h, i, Cloning
  <2> QED
    BY <2>1 DEF IsAgent
<1> HIDE DEF d, model
<1>4. \A a \in S : /\ IsAgent(agent(a)) /\ agent(a).bound = Target(c, a, source)
                   /\ agent(a).hidden \subseteq Ids(c)
  BY <1>11 DEF Whole, IsConfig, Resolves
<1> HIDE DEF agent
<1>5. \A a \in AgentIds : f[a] = IF a \in S THEN agent(a) ELSE c.agents[a]
  BY <1>1, <1>2
<1>6. f = [a \in AgentIds |-> f[a]]
  OBVIOUS
<1> HIDE DEF f
<1>7. \A a \in AgentIds : /\ IsAgent(f[a])
                          /\ f[a].bound \in Ids(d) \cup {Nobody}
                          /\ f[a].hidden \subseteq Ids(d)
  BY <1>2, <1>4, <1>5 DEF Whole, IsConfig, Resolves
<1>8. Whole(d)
  BY <1>2 DEF Edits
<1>9. Edits(d, [d EXCEPT !.agents = f])
  BY <1>6, <1>7, <1>8, AgentsEdited
<1>10. /\ [d EXCEPT !.agents = f].agents = f /\ [d EXCEPT !.agents = f].active = d.active
       /\ [d EXCEPT !.agents = f].providers = d.providers
  BY <1>8 DEF Whole, IsConfig
<1> QED
  BY <1>2, <1>3, <1>4, <1>5, <1>9, <1>10, EditsCompose DEF Ids

(* A provider that is put, under an old name or a new one: what was        *)
(* verified of it is kept only when its connection is.                     *)
LEMMA UpsertEdits ==
  ASSUME now \in Nat, NEW c, Whole(c), NEW id, NEW url,
         NEW key, NEW pool, NEW mode
  PROVE  /\ Edits(c, Upserted(c, id, url, key, pool, mode))
         /\ Ids(Upserted(c, id, url, key, pool, mode)) = Ids(c) \cup {id}
<1> DEFINE old == IF id \in Ids(c) THEN c.providers[id]
                  ELSE [url |-> url, key |-> 0, pool |-> 0, models |-> {}, stamp |-> 0]
           p == [old EXCEPT !.url = url, !.stamp = now,
                            !.key = IF key THEN now ELSE @, !.pool = IF pool THEN now ELSE @]
           kept == IF Reconnected(c, id, url, key, pool)
                   THEN Drop(c.reuse, RecordsOf(c, id)) ELSE c.reuse
           providers == Put(c.providers, {id}, p)
           pools == IF pool THEN Put(c.pools, {id}, now) ELSE c.pools
           modes == IF mode THEN c.modes \cup {id} ELSE c.modes \ {id}
           d == Upserted(c, id, url, key, pool, mode)
<1>1. IsProvider(old)
  BY DEF Whole, IsConfig, IsProvider
<1>2. /\ IsProvider(p) /\ p.stamp = now /\ p.url = url
      /\ ~key => p.key = old.key
      /\ ~pool => p.pool = old.pool
  <2> DEFINE k == IF key THEN now ELSE old.key
             l == IF pool THEN now ELSE old.pool
  <2>1. p = [old EXCEPT !.url = url, !.stamp = now, !.key = k, !.pool = l]
    OBVIOUS
  <2>2. (~key => k = old.key) /\ (~pool => l = old.pool)
    OBVIOUS
  <2> HIDE DEF old, k, l, p
  <2> QED
    BY <1>1, <2>1, <2>2 DEF IsProvider
<1>3. /\ providers = [i \in Ids(c) \cup {id} |-> providers[i]] /\ DOMAIN providers = Ids(c) \cup {id}
      /\ providers[id] = p
      /\ \A i \in Ids(c) \ {id} : providers[i] = c.providers[i]
      /\ DOMAIN pools \cup modes \subseteq Ids(c) \cup {id}
  <2> HIDE DEF p
  <2> QED
    BY DEF Put, Ids, Whole, Resolves
<1>4. /\ kept = [r \in DOMAIN kept |-> kept[r]] /\ DOMAIN kept \subseteq DOMAIN c.reuse
      /\ \A r \in DOMAIN kept : kept[r] = c.reuse[r]
      /\ \A r \in DOMAIN kept : r[1] = id => ~Reconnected(c, id, url, key, pool)
  BY DEF Drop, RecordsOf, Whole, IsConfig
<1>5. d = [providers |-> providers, active |-> c.active, agents |-> c.agents, pools |-> pools,
           modes |-> modes, reuse |-> kept, saveable |-> c.saveable]
  <2>1. d = Beside([c EXCEPT !.providers = providers, !.reuse = kept], id, pool, mode)
    BY DEF Upserted
  <2> HIDE DEF providers, kept, d
  <2> QED
    BY <2>1 DEF Beside, Whole, IsConfig
<1>6. id \in Ids(c) => old = c.providers[id]
  OBVIOUS
<1> HIDE DEF old, p, kept, providers, pools, modes, d
<1>7. Ids(d) = Ids(c) \cup {id}
  BY <1>3, <1>5 DEF Ids
<1>8. IsConfig(d)
  BY <1>2, <1>3, <1>4, <1>5, <1>7 DEF Whole, IsConfig
<1>9. Resolves(d)
  BY <1>3, <1>4, <1>5, <1>7 DEF Whole, Resolves
<1>10. VerifiedIn(d)
  <2> SUFFICES ASSUME NEW r \in DOMAIN kept, kept[r].status = "verified", ~kept[r].overtaken
               PROVE  kept[r].connection = Connection(d, r[1])
    BY <1>5 DEF VerifiedIn
  <2>1. kept[r].connection = Connection(c, r[1]) /\ r[1] \in Ids(c)
    BY <1>4 DEF Whole, VerifiedIn, Resolves
  <2>2. CASE r[1] # id
    BY <1>3, <1>5, <2>1, <2>2 DEF Connection
  <2>3. CASE r[1] = id
    <3>1. c.providers[id].url = url /\ ~key /\ ~pool
      BY <1>4, <2>1, <2>3 DEF Reconnected
    <3> QED
      BY <1>2, <1>3, <1>5, <1>6, <2>1, <2>3, <3>1 DEF Connection
  <2> QED
    BY <2>2, <2>3
<1>11. Follows(c, d)
  BY <1>2, <1>3, <1>5, <1>7 DEF Follows
<1> QED
  BY <1>7, <1>8, <1>9, <1>10, <1>11 DEF Edits, Whole, d

(* A provider that is removed, and the agents as f says.                   *)
LEMMA RemovalEdits ==
  ASSUME NEW c, Whole(c), NEW id, c.active # id, NEW f, f = [a \in AgentIds |-> f[a]],
         \A a \in AgentIds : /\ IsAgent(f[a])
                             /\ f[a].bound \in (Ids(c) \ {id}) \cup {Nobody}
                             /\ f[a].hidden \subseteq Ids(c) \ {id},
         NEW d, d = [providers |-> Drop(c.providers, {id}), active |-> c.active, agents |-> f,
                     pools |-> Drop(c.pools, {id}), modes |-> c.modes \ {id},
                     reuse |-> Drop(c.reuse, RecordsOf(c, id)), saveable |-> c.saveable]
  PROVE  Edits(c, d)
<1>1. /\ Ids(d) = Ids(c) \ {id}
      /\ d.providers = [i \in Ids(d) |-> d.providers[i]]
      /\ \A i \in Ids(d) : d.providers[i] = c.providers[i]
  BY DEF Drop, Ids
<1>2. /\ d.reuse = [r \in DOMAIN d.reuse |-> d.reuse[r]]
      /\ \A r \in DOMAIN d.reuse : r \in DOMAIN c.reuse /\ r[1] # id /\ d.reuse[r] = c.reuse[r]
  BY DEF Drop, RecordsOf
<1>3. DOMAIN d.pools \subseteq DOMAIN c.pools \ {id} /\ d.modes = c.modes \ {id}
  BY DEF Drop
<1>4. IsConfig(d)
  BY <1>1, <1>2 DEF Whole, IsConfig
<1>5. Resolves(d)
  BY <1>1, <1>2, <1>3 DEF Whole, Resolves
<1>6. VerifiedIn(d)
  <2> SUFFICES ASSUME NEW r \in DOMAIN d.reuse, d.reuse[r].status = "verified", ~d.reuse[r].overtaken
               PROVE  d.reuse[r].connection = Connection(d, r[1])
    BY DEF VerifiedIn
  <2>1. r \in DOMAIN c.reuse /\ r[1] \in Ids(d) /\ d.reuse[r] = c.reuse[r]
    BY <1>1, <1>2 DEF Whole, Resolves
  <2> QED
    BY <1>1, <2>1 DEF Whole, VerifiedIn, Connection
<1>7. Follows(c, d)
  BY <1>1 DEF Follows
<1> QED
  BY <1>4, <1>5, <1>6, <1>7 DEF Edits, Whole

(* Models put and taken away; what was verified of a model may go with it. *)
LEMMA ModelsEdited ==
  ASSUME now \in Nat, NEW c, Whole(c), NEW id \in Ids(c), NEW models, NEW R
  PROVE  /\ Edits(c, [c EXCEPT !.providers[id] = Offering(@, models)])
         /\ Edits(c, [c EXCEPT !.providers[id] = Offering(@, models), !.reuse = Drop(@, R)])
<1> DEFINE p == Offering(c.providers[id], models)
           providers == [c.providers EXCEPT ![id] = p]
<1> DEFINE was == c.providers[id]
<1>1. IsProvider(p) /\ p.stamp = now /\ p.url = was.url /\ p.key = was.key /\ p.pool = was.pool
  <2>1. IsProvider(was)
    BY DEF Whole, IsConfig
  <2> HIDE DEF was, p
  <2>2. p = [was EXCEPT !.models = models, !.stamp = now]
    BY DEF was, p, Offering
  <2> QED
    BY <2>1, <2>2, Restamped
<1> HIDE DEF p
<1>2. /\ providers = [i \in Ids(c) |-> providers[i]]
      /\ \A i \in Ids(c) : providers[i] = IF i = id THEN p ELSE c.providers[i]
  BY DEF Whole, IsConfig
<1> HIDE DEF providers
<1>3. ASSUME NEW reuse, reuse = [r \in DOMAIN reuse |-> reuse[r]], DOMAIN reuse \subseteq DOMAIN c.reuse,
             \A r \in DOMAIN reuse : reuse[r] = c.reuse[r],
             NEW d, d = [providers |-> providers, active |-> c.active, agents |-> c.agents,
                         pools |-> c.pools, modes |-> c.modes, reuse |-> reuse, saveable |-> c.saveable]
      PROVE  Edits(c, d)
  <2>1. Ids(d) = Ids(c)
    BY <1>2, <1>3 DEF Ids
  <2>2. IsConfig(d)
    BY <1>1, <1>2, <1>3, <2>1 DEF Whole, IsConfig
  <2>3. Resolves(d)
    BY <1>3, <2>1 DEF Whole, Resolves
  <2>4. \A i \in Ids(c) : Connection(d, i) = Connection(c, i)
    BY <1>1, <1>2, <1>3 DEF Connection
  <2>5. VerifiedIn(d)
    BY <1>3, <2>4 DEF Whole, VerifiedIn, Resolves
  <2>6. Follows(c, d)
    BY <1>1, <1>2, <1>3, <2>1 DEF Follows
  <2> QED
    BY <2>2, <2>3, <2>5, <2>6 DEF Edits, Whole
<1> DEFINE d == [c EXCEPT !.providers = providers]
           reuse == Drop(c.reuse, R)
           e == [c EXCEPT !.providers = providers, !.reuse = reuse]
<1>7. DOMAIN reuse \subseteq DOMAIN c.reuse /\ reuse = [r \in DOMAIN reuse |-> c.reuse[r]]
  BY DEF Drop
<1> HIDE DEF reuse
<1>4. d = [providers |-> providers, active |-> c.active, agents |-> c.agents, pools |-> c.pools,
           modes |-> c.modes, reuse |-> c.reuse, saveable |-> c.saveable]
  BY DEF Whole, IsConfig
<1>8. e = [providers |-> providers, active |-> c.active, agents |-> c.agents, pools |-> c.pools,
           modes |-> c.modes, reuse |-> reuse, saveable |-> c.saveable]
  <2> HIDE DEF d
  <2>1. e = [d EXCEPT !.reuse = reuse]
    BY DEF d
  <2> QED
    BY <1>4, <2>1
<1>5. Edits(c, d)
  BY <1>3, <1>4 DEF Whole, IsConfig
<1>6. Edits(c, e)
  BY <1>3, <1>7, <1>8
<1> QED
  BY <1>5, <1>6 DEF providers, p, reuse

(* One verification put: of a provider that is there and, when it counts,  *)
(* of its connection.                                                      *)
LEMMA VerificationEdited ==
  ASSUME NEW c, Whole(c), NEW r, r[1] \in Ids(c), NEW v, IsVerification(v),
         v.status = "verified" /\ ~v.overtaken => v.connection = Connection(c, r[1])
  PROVE  Edits(c, [c EXCEPT !.reuse = Put(@, {r}, v)])
<1> DEFINE reuse == Put(c.reuse, {r}, v)
           d == [c EXCEPT !.reuse = reuse]
<1>1. /\ reuse = [q \in DOMAIN reuse |-> reuse[q]]
      /\ \A q \in DOMAIN reuse : /\ q = r \/ q \in DOMAIN c.reuse
                                 /\ reuse[q] = IF q = r THEN v ELSE c.reuse[q]
  BY DEF Put
<1> HIDE DEF reuse
<1>2. d = [providers |-> c.providers, active |-> c.active, agents |-> c.agents, pools |-> c.pools,
           modes |-> c.modes, reuse |-> reuse, saveable |-> c.saveable]
  BY DEF Whole, IsConfig
<1> HIDE DEF d
<1>3. Ids(d) = Ids(c)
  BY <1>2 DEF Ids
<1>4. IsConfig(d)
  BY <1>1, <1>2, <1>3 DEF Whole, IsConfig
<1>5. Resolves(d)
  BY <1>1, <1>2, <1>3 DEF Whole, Resolves
<1>6. VerifiedIn(d) /\ Follows(c, d)
  BY <1>1, <1>2, <1>3 DEF Whole, VerifiedIn, Connection, Follows
<1> QED
  BY <1>4, <1>5, <1>6 DEF Edits, Whole, d, reuse

(* A verification as a probe or a refused delta records it.                *)
LEMMA RecordingEdits ==
  ASSUME NEW c, Whole(c), NEW r, r[1] \in Ids(c), NEW status, NEW connection, NEW overtaken,
         status = "verified" /\ ~overtaken => connection = Connection(c, r[1])
  PROVE  Edits(c, Recorded(c, r, status, connection, overtaken))
<1> DEFINE on == status = "verified"
           v == [enabled |-> on, status |-> status, stamp |-> now, connection |-> connection,
                 overtaken |-> overtaken]
<1>1. Recorded(c, r, status, connection, overtaken) = [c EXCEPT !.reuse = Put(@, {r}, v)]
  BY DEF Recorded
<1>2. IsVerification(v) /\ (v.status = "verified" /\ ~v.overtaken => v.connection = Connection(c, r[1]))
  <2> HIDE DEF on
  <2> QED
    BY DEF IsVerification
<1> HIDE DEF v
<1> QED
  BY <1>1, <1>2, VerificationEdited

-----------------------------------------------------------------------------
(* The steps.                                                              *)

LEMMA OlderLater ==
  ASSUME now \in Nat, now' = now + 1, NEW d, Whole(d), StampedBefore(d, now)
  PROVE  StampedBefore(d, now')
<1> SUFFICES ASSUME NEW i \in Ids(d) PROVE d.providers[i].stamp < now'
  BY DEF StampedBefore
<1>1. d.providers[i].stamp \in Nat
  BY DEF Whole, IsConfig, IsProvider
<1>2. d.providers[i].stamp < now
  BY DEF StampedBefore
<1> QED
  BY <1>1, <1>2

(* An edit of the memory, with or without a save of it.                    *)
LEMMA EditStep ==
  ASSUME RecordsInv, NEW c, Edits(appConfig, c), appConfig' = c, now' = now + 1,
         disk' \in {disk, c}, UNCHANGED reload, probe' \in {probe, NotUnderWay}
  PROVE  RecordsInv'
<1>1. now \in Nat /\ Whole(c) /\ Follows(appConfig, c)
  BY DEF Edits, RecordsInv
<1>2. now' \in Nat /\ now < now'
  BY <1>1
<1>3. ASSUME NEW d, Whole(d), StampedBefore(d, now)
      PROVE  StampedBefore(d, now')
  BY <1>1, <1>3, OlderLater
<1>4. StampedBefore(c, now')
  <2> SUFFICES ASSUME NEW i \in Ids(c) PROVE c.providers[i].stamp < now'
    BY DEF StampedBefore
  <2>1. CASE c.providers[i].stamp = now
    BY <1>1, <2>1
  <2>2. CASE i \in Ids(appConfig) /\ c.providers[i] = appConfig.providers[i]
    BY <1>1, <1>3, <2>2 DEF RecordsInv, StampedBefore
  <2> QED
    BY <1>1, <2>1, <2>2 DEF Follows
<1>5. Whole(appConfig)' /\ StampedBefore(appConfig, now)'
  BY <1>1, <1>4
<1>6. Whole(disk)' /\ StampedBefore(disk, now)'
  BY <1>1, <1>3, <1>4 DEF RecordsInv
<1>7. reload' = NotUnderWay \/ IsReload'
  BY <1>3 DEF RecordsInv, IsReload
<1>8. ProbeInv'
  <2>1. CASE probe' = NotUnderWay
    BY <2>1 DEF ProbeInv
  <2>2. CASE probe' = probe /\ probe # NotUnderWay
    <3>1. IsProbe /\ IsProbe'
      BY <1>1, <1>2, <2>2 DEF RecordsInv, ProbeInv, IsProbe
    <3> DEFINE id == probe.record[1]
    <3>2. ASSUME id \in Ids(c), c.providers[id].stamp = probe.target.stamp
          PROVE  /\ id \in Ids(appConfig) /\ appConfig.providers[id].stamp = probe.target.stamp
                 /\ Connection(c, id) = Connection(appConfig, id)
      BY <1>1, <3>1, <3>2 DEF Follows, IsProbe, Connection
    <3> QED
      BY <2>2, <3>1, <3>2 DEF RecordsInv, ProbeInv
  <2> QED
    BY <2>1, <2>2
<1> QED
  BY <1>2, <1>5, <1>6, <1>7, <1>8 DEF RecordsInv

(* The commands of the window that end in a save or a refusal.             *)
LEMMA EditedStep ==
  ASSUME RecordsInv, NEW c, Edits(appConfig, c), Edited(c) \/ EditedUnsaved(c)
  PROVE  RecordsInv'
BY EditStep DEF Edited, EditedUnsaved, CommandTick, SaveConfig

LEMMA RefreshedStep ==
  ASSUME RecordsInv, NEW c, Edits(appConfig, c), NEW id, Refreshed(c, id)
  PROVE  RecordsInv'
<1>1. ASSUME NEW default \in Ids(c)
      PROVE  Edits(appConfig, Ensured(c, default))
  BY <1>1, EnsuredEdits, EditsCompose DEF Edits
<1> QED
  BY <1>1, EditedStep DEF Refreshed

(* The commands about providers and models.                                *)
LEMMA ProviderSteps ==
  ASSUME RecordsInv,
         SetAddresses \/ SelectProvider \/ UpsertProvider \/ PutModel \/ DeleteModel
  PROVE  RecordsInv'
<1>1. Whole(appConfig) /\ now \in Nat
  BY DEF RecordsInv
<1>2. CASE SetAddresses
  <2>1. PICK ok \in BOOLEAN : Edited([appConfig EXCEPT !.saveable = ok])
    BY <1>2 DEF SetAddresses
  <2>2. Edits(appConfig, [appConfig EXCEPT !.saveable = ok])
    BY <1>1, SettingsEdited
  <2> QED
    BY <2>1, <2>2, EditedStep
<1>3. CASE SelectProvider
  <2>1. PICK id \in Ids(appConfig) : Edited([appConfig EXCEPT !.active = id])
    BY <1>3 DEF SelectProvider
  <2>2. Edits(appConfig, [appConfig EXCEPT !.active = id])
    BY <1>1, SettingsEdited
  <2> QED
    BY <2>1, <2>2, EditedStep
<1>4. CASE UpsertProvider
  <2>1. PICK id \in Ids(appConfig) \cup {Id(Shared, n) : n \in Names},
             url \in Urls, change \in {"key", "pool", "mode", "none"} :
          LET c == Upserted(appConfig, id, url, change = "key", change = "pool", change = "mode")
          IN  Refreshed(Activated(c, id), id)
    BY <1>4 DEF UpsertProvider
  <2> DEFINE c == Upserted(appConfig, id, url, change = "key", change = "pool", change = "mode")
  <2>2. Edits(appConfig, c) /\ id \in Ids(c)
    BY <1>1, UpsertEdits
  <2>3. Refreshed(Activated(c, id), id)
    BY <2>1
  <2> HIDE DEF c
  <2>4. Whole(c) /\ Edits(c, [c EXCEPT !.active = id])
    BY <2>2, SettingsEdited DEF Edits
  <2>5. Edits(appConfig, Activated(c, id))
    BY <2>2, <2>4, EditsCompose DEF Activated
  <2> QED
    BY <2>3, <2>5, RefreshedStep
<1>5. CASE PutModel
  <2>1. PICK id \in Ids(appConfig), m \in Models :
          Refreshed([appConfig EXCEPT !.providers[id] = Offering(@, @.models \cup {m})], id)
    BY <1>5 DEF PutModel
  <2>2. Edits(appConfig, [appConfig EXCEPT !.providers[id] = Offering(@, @.models \cup {m})])
    BY <1>1, ModelsEdited
  <2> QED
    BY <2>1, <2>2, RefreshedStep
<1>6. CASE DeleteModel
  <2>1. PICK id \in Ids(appConfig), m \in Models :
          Edited([appConfig EXCEPT !.providers[id] = Offering(@, @.models \ {m}),
                                !.reuse = Drop(@, {<<id, m>>})])
    BY <1>6 DEF DeleteModel
  <2>2. Edits(appConfig, [appConfig EXCEPT !.providers[id] = Offering(@, @.models \ {m}),
                                     !.reuse = Drop(@, {<<id, m>>})])
    BY <1>1, ModelsEdited
  <2> QED
    BY <2>1, <2>2, EditedStep
<1> QED
  BY <1>2, <1>3, <1>4, <1>5, <1>6

(* The commands about agents.                                              *)
LEMMA AgentSteps ==
  ASSUME RecordsInv,
         CloneForAgent \/ UpdateAgentRoute \/ GetInjections \/ SetInjection \/ RemoveFromAgent
  PROVE  RecordsInv'
<1>1. Whole(appConfig) /\ now \in Nat
  BY DEF RecordsInv
<1>2. ASSUME NEW a \in AgentIds, NEW source \in Ids(appConfig), NEW model
      PROVE  /\ Edits(appConfig, CloneFor(a, source, model))
             /\ Target(appConfig, a, source) \in Ids(CloneFor(a, source, model))
             /\ Ids(appConfig) \subseteq Ids(CloneFor(a, source, model))
  <2> DEFINE asked == [b \in {a} |-> model]
             c == Cloned(appConfig, asked, source)
  <2>1. asked = [b \in {a} |-> asked[b]] /\ {a} \in SUBSET AgentIds
    OBVIOUS
  <2> HIDE DEF asked
  <2>2. Edits(appConfig, c) /\ Target(appConfig, a, source) \in Ids(c) /\ Ids(appConfig) \subseteq Ids(c)
    BY <1>1, <2>1, ClonesEdit
  <2> QED
    BY <2>2 DEF CloneFor, asked
<1>3. CASE CloneForAgent
  <2>1. PICK a \in AgentIds, source \in Ids(appConfig), model \in Models \cup {Nobody} :
          Edited(CloneFor(a, source, model))
    BY <1>3 DEF CloneForAgent
  <2> QED
    BY <1>2, <2>1, EditedStep
<1>7. ASSUME NEW c, Edits(appConfig, c), NEW default \in Ids(c) \cup {Nobody}
      PROVE  Edits(appConfig, Ensured(c, default)) /\ Ids(Ensured(c, default)) = Ids(c)
  BY <1>7, EnsuredEdits, EditsCompose DEF Edits
<1>8. Edits(appConfig, appConfig)
  BY <1>1, EditsNothing
<1>4. CASE UpdateAgentRoute
  <2>1. PICK a \in AgentIds, p \in Ids(appConfig) \cup {Nobody}, model \in Models \cup {Nobody},
             default \in Defaults(appConfig) :
          LET copied == IF p = Nobody \/ BelongsTo(p, a) THEN appConfig ELSE CloneFor(a, p, model)
              c == Ensured(copied, default)
              id == IF p = Nobody THEN Nobody ELSE Target(appConfig, a, p)
              routed == [c EXCEPT !.agents[a] = [@ EXCEPT !.bound = id, !.model = model]]
          IN  IF p # Nobody /\ model # Nobody /\ model \notin c.providers[id].models
              THEN EditedUnsaved(c)
              ELSE \/ Edited(Ensured(routed, default))
                   \/ appConfig.agents[a].enabled /\ EditedUnsaved(c)
    BY <1>4 DEF UpdateAgentRoute
  <2> DEFINE copied == IF p = Nobody \/ BelongsTo(p, a) THEN appConfig ELSE CloneFor(a, p, model)
             c == Ensured(copied, default)
             id == IF p = Nobody THEN Nobody ELSE Target(appConfig, a, p)
             routed == [c EXCEPT !.agents[a] = [@ EXCEPT !.bound = id, !.model = model]]
  <2>2. /\ Edits(appConfig, copied) /\ id \in Ids(copied) \cup {Nobody}
        /\ Ids(appConfig) \subseteq Ids(copied)
    <3>1. CASE p = Nobody
      BY <1>8, <3>1
    <3>2. CASE p # Nobody /\ BelongsTo(p, a)
      BY <1>8, <3>2 DEF Target
    <3>3. CASE p # Nobody /\ ~BelongsTo(p, a)
      BY <1>2, <3>3
    <3> QED
      BY <3>1, <3>2, <3>3
  <2>3. Edited(Ensured(routed, default)) \/ EditedUnsaved(c)
    BY <2>1
  <2> HIDE DEF copied, id
  <2>4. default \in Ids(copied) \cup {Nobody}
    BY <2>1, <2>2, DefaultsAreThere
  <2>5. Edits(appConfig, c) /\ Ids(c) = Ids(copied)
    BY <1>7, <2>2, <2>4
  <2> HIDE DEF c
  <2>6. Edits(c, routed) /\ Ids(routed) = Ids(c)
    <3>1. Whole(c) /\ id \in Ids(c) \cup {Nobody}
      BY <2>2, <2>5 DEF Edits
    <3>2. routed.providers = c.providers
      BY <3>1 DEF Whole, IsConfig
    <3> QED
      BY <3>1, <3>2, AgentRouted DEF Ids
  <2>7. Edits(appConfig, routed) /\ default \in Ids(routed) \cup {Nobody}
    BY <2>4, <2>5, <2>6, EditsCompose
  <2> HIDE DEF routed
  <2>8. Edits(appConfig, Ensured(routed, default))
    BY <1>7, <2>7
  <2> QED
    BY <2>3, <2>5, <2>8, EditedStep
<1>9. CASE GetInjections
  <2>1. PICK default \in Defaults(appConfig) : Edited(Ensured(appConfig, default))
    BY <1>9 DEF GetInjections
  <2>2. Edits(appConfig, Ensured(appConfig, default))
    BY <1>7, <1>8, DefaultsAreThere
  <2> QED
    BY <2>1, <2>2, EditedStep
<1>5. CASE SetInjection
  <2>1. PICK a \in AgentIds, on \in BOOLEAN, default \in Defaults(appConfig) :
          LET c == Ensured(appConfig, default)
              switched == [c EXCEPT !.agents[a] = [@ EXCEPT !.enabled = on]]
          IN  Edited(Ensured(switched, default)) \/ EditedUnsaved(c)
    BY <1>5 DEF SetInjection
  <2> DEFINE c == Ensured(appConfig, default)
             g == [c.agents[a] EXCEPT !.enabled = on]
             switched == [c EXCEPT !.agents[a] = g]
  <2>2. Edited(Ensured(switched, default)) \/ EditedUnsaved(c)
    BY <2>1
  <2>3. Edits(appConfig, c) /\ Ids(c) = Ids(appConfig) /\ default \in Ids(appConfig) \cup {Nobody}
    BY <1>7, <1>8, DefaultsAreThere
  <2> HIDE DEF c
  <2>4. Whole(c) /\ switched.providers = c.providers
    BY <2>3 DEF Edits, Whole, IsConfig
  <2>5. IsAgent(g) /\ g.bound \in Ids(c) \cup {Nobody} /\ g.hidden \subseteq Ids(c)
    <3> DEFINE old == c.agents[a]
    <3>1. IsAgent(old) /\ old.bound \in Ids(c) \cup {Nobody} /\ old.hidden \subseteq Ids(c)
      BY <2>4 DEF Whole, Resolves, IsConfig
    <3> HIDE DEF old
    <3>2. /\ IsAgent([old EXCEPT !.enabled = on]) /\ [old EXCEPT !.enabled = on].hidden = old.hidden
          /\ [old EXCEPT !.enabled = on].bound = old.bound
      BY <3>1, AgentSwitched
    <3> QED
      BY <3>1, <3>2 DEF old
  <2> HIDE DEF g
  <2>6. Edits(c, switched)
    BY <2>4, <2>5, AgentEdited
  <2>7. Edits(appConfig, switched) /\ Ids(switched) = Ids(c)
    BY <2>3, <2>4, <2>6, EditsCompose DEF Ids
  <2> HIDE DEF switched
  <2>8. Edits(appConfig, Ensured(switched, default))
    BY <1>7, <2>3, <2>7
  <2> QED
    BY <2>2, <2>3, <2>8, EditedStep
<1>6. CASE RemoveFromAgent
  <2>1. PICK a \in AgentIds, id \in Ids(appConfig) :
          Edited([appConfig EXCEPT !.agents[a] = Unbound(Hides(@, id), id)])
    BY <1>6 DEF RemoveFromAgent
  <2> DEFINE g == Unbound(Hides(appConfig.agents[a], id), id)
  <2>2. IsAgent(appConfig.agents[a]) /\ appConfig.agents[a].hidden \subseteq Ids(appConfig)
        /\ appConfig.agents[a].bound \in Ids(appConfig) \cup {Nobody}
    BY <1>1 DEF Whole, Resolves, IsConfig
  <2>3. /\ IsAgent(g) /\ g.bound \in Ids(appConfig) \cup {Nobody} /\ g.hidden \subseteq Ids(appConfig)
    BY <2>2, AgentOff
  <2> HIDE DEF g
  <2>4. Edits(appConfig, [appConfig EXCEPT !.agents[a] = g])
    BY <1>1, <2>3, AgentEdited
  <2> QED
    BY <2>1, <2>4, EditedStep DEF g
<1> QED
  BY <1>3, <1>4, <1>5, <1>6, <1>9

(* What is removed with a provider.                                        *)
LEMMA RemovedFields ==
  ASSUME NEW c, Whole(c), NEW id
  PROVE  Removed(c, id) =
           [providers |-> Drop(c.providers, {id}), active |-> c.active,
            agents |-> [a \in AgentIds |-> Shows(c.agents[a], id)],
            pools |-> Drop(c.pools, {id}), modes |-> c.modes \ {id},
            reuse |-> Drop(c.reuse, RecordsOf(c, id)), saveable |-> c.saveable]
<1> DEFINE providers == Drop(c.providers, {id})
           pools == Drop(c.pools, {id})
           modes == c.modes \ {id}
           reuse == Drop(c.reuse, RecordsOf(c, id))
           agents == [a \in AgentIds |-> Shows(c.agents[a], id)]
           d == [c EXCEPT !.providers = providers, !.pools = pools, !.modes = modes,
                          !.reuse = reuse, !.agents = agents]
<1>1. Removed(c, id) = d
  BY DEF Removed
<1>2. d = [c EXCEPT !.providers = providers, !.pools = pools, !.modes = modes,
                    !.reuse = reuse, !.agents = agents]
  OBVIOUS
<1> HIDE DEF providers, pools, modes, reuse, agents, d
<1>3. d = [providers |-> providers, active |-> c.active, agents |-> agents, pools |-> pools,
           modes |-> modes, reuse |-> reuse, saveable |-> c.saveable]
  BY <1>2 DEF Whole, IsConfig
<1> QED
  BY <1>1, <1>3 DEF providers, pools, modes, reuse, agents

(* An agent whose list is without one provider.                            *)
LEMMA AgentShows ==
  ASSUME NEW g, IsAgent(g), NEW id
  PROVE  /\ IsAgent(Shows(g, id)) /\ Shows(g, id).hidden = g.hidden \ {id}
         /\ Shows(g, id).bound = g.bound
<1>1. Shows(g, id)
        = [bound |-> g.bound, model |-> g.model, enabled |-> g.enabled, hidden |-> g.hidden \ {id}]
  BY DEF IsAgent, Shows
<1> QED
  BY <1>1 DEF IsAgent

(* The deletions: the copies of the others are other providers.            *)
LEMMA DeleteSteps ==
  ASSUME Shared \notin AgentIds, RecordsInv, DeleteCopy \/ DeleteProvider
  PROVE  RecordsInv'
<1>1. Whole(appConfig) /\ now \in Nat
  BY DEF RecordsInv
<1> DEFINE shown(c, id) == [b \in AgentIds |-> Shows(c.agents[b], id)]
<1>2. ASSUME NEW c, Whole(c), NEW id
      PROVE  \A b \in AgentIds : /\ IsAgent(shown(c, id)[b])
                                 /\ shown(c, id)[b].hidden \subseteq Ids(c) \ {id}
                                 /\ shown(c, id)[b].bound = c.agents[b].bound
                                 /\ shown(c, id)[b].bound \in Ids(c) \cup {Nobody}
  <2> SUFFICES ASSUME NEW b \in AgentIds
               PROVE  /\ IsAgent(shown(c, id)[b])
                      /\ shown(c, id)[b].hidden \subseteq Ids(c) \ {id}
                      /\ shown(c, id)[b].bound = c.agents[b].bound
                      /\ shown(c, id)[b].bound \in Ids(c) \cup {Nobody}
    OBVIOUS
  <2>1. /\ IsAgent(c.agents[b]) /\ c.agents[b].hidden \subseteq Ids(c)
        /\ c.agents[b].bound \in Ids(c) \cup {Nobody}
    BY <1>2 DEF Whole, IsConfig, Resolves
  <2>2. shown(c, id)[b] = Shows(c.agents[b], id)
    OBVIOUS
  <2> HIDE DEF shown
  <2> QED
    BY <2>1, <2>2, AgentShows
<1>3. CASE DeleteProvider
  <2>1. PICK id \in Ids(appConfig) : /\ appConfig.active # id
                                     /\ \A a \in AgentIds : appConfig.agents[a].bound # id
                                     /\ Edited(Removed(appConfig, id))
    BY <1>3 DEF DeleteProvider
  <2> DEFINE f == shown(appConfig, id)
  <2>2. f = [b \in AgentIds |-> f[b]]
    OBVIOUS
  <2>3. \A b \in AgentIds : /\ IsAgent(f[b])
                            /\ f[b].bound \in (Ids(appConfig) \ {id}) \cup {Nobody}
                            /\ f[b].hidden \subseteq Ids(appConfig) \ {id}
    <3> HIDE DEF shown
    <3> QED
      BY <1>1, <1>2, <2>1
  <2>4. Removed(appConfig, id) =
          [providers |-> Drop(appConfig.providers, {id}), active |-> appConfig.active, agents |-> f,
           pools |-> Drop(appConfig.pools, {id}), modes |-> appConfig.modes \ {id},
           reuse |-> Drop(appConfig.reuse, RecordsOf(appConfig, id)), saveable |-> appConfig.saveable]
    BY <1>1, RemovedFields
  <2> HIDE DEF f
  <2>5. Edits(appConfig, Removed(appConfig, id))
    BY <1>1, <2>1, <2>2, <2>3, <2>4, RemovalEdits
  <2> QED
    BY <2>1, <2>5, EditedStep
<1>4. CASE DeleteCopy
  <2>1. PICK a \in AgentIds, id \in Ids(appConfig) :
          /\ BelongsTo(id, a) /\ appConfig.active # id
          /\ LET others == {b \in AgentIds \ {a} : appConfig.agents[b].bound = id}
                 moved == Cloned(appConfig, [b \in others |-> appConfig.agents[b].model], id)
                 sources == {i \in Ids(moved) : i.owner = Shared /\ CopyOf(id, i, a)}
                 gone == Removed(moved, id)
                 agent == IF sources = {} THEN gone.agents[a]
                          ELSE Hides(gone.agents[a], CHOOSE i \in sources : TRUE)
             IN  Edited([gone EXCEPT !.agents[a] = Unbound(agent, id)])
    BY <1>4 DEF DeleteCopy
  <2> DEFINE others == {b \in AgentIds \ {a} : appConfig.agents[b].bound = id}
             asked == [b \in others |-> appConfig.agents[b].model]
             moved == Cloned(appConfig, asked, id)
             sources == {i \in Ids(moved) : i.owner = Shared /\ CopyOf(id, i, a)}
             gone == Removed(moved, id)
             agent == IF sources = {} THEN gone.agents[a]
                      ELSE Hides(gone.agents[a], CHOOSE i \in sources : TRUE)
             g == Unbound(agent, id)
             f == [shown(moved, id) EXCEPT ![a] = g]
             d == [gone EXCEPT !.agents[a] = g]
  <2>2. Edited(d) /\ id \in Ids(appConfig)
    BY <2>1
  <2>3. /\ asked = [b \in others |-> asked[b]] /\ others \in SUBSET AgentIds
        /\ \A b \in others : appConfig.agents[b].bound = id /\ b # a
        /\ \A b \in AgentIds \ others : b # a => appConfig.agents[b].bound # id
    OBVIOUS
  <2>4. \A b \in others : Target(appConfig, b, id) # id
    <3> SUFFICES ASSUME NEW b \in others PROVE Target(appConfig, b, id) # id
      OBVIOUS
    <3>1. ~BelongsTo(id, b)
      BY <2>1, <2>3 DEF BelongsTo
    <3>2. \A i \in Ids(appConfig) : CopyOf(i, id, b) => i # id
      BY <3>1 DEF CopyOf
    <3>3. Id(b, Part(id)) # id
      BY <3>1 DEF BelongsTo, Id
    <3> QED
      BY <3>1, <3>2, <3>3 DEF Target
  <2> HIDE DEF others, asked
  <2>5. /\ Edits(appConfig, moved) /\ moved.active = appConfig.active
        /\ \A b \in others : moved.agents[b].bound # id
        /\ \A b \in AgentIds \ others : moved.agents[b] = appConfig.agents[b]
    <3>1. /\ Edits(appConfig, moved) /\ moved.active = appConfig.active
          /\ \A b \in others : moved.agents[b].bound = Target(appConfig, b, id)
          /\ \A b \in AgentIds \ others : moved.agents[b] = appConfig.agents[b]
      <4>1. asked = [b \in others |-> asked[b]] /\ others \in SUBSET AgentIds
        BY <2>3
      <4>2. id \in Ids(appConfig)
        BY <2>2
      <4>3. Edits(appConfig, moved) /\ moved.active = appConfig.active
        BY <1>1, <4>1, <4>2, ClonesEdit
      <4>4. \A b \in others : moved.agents[b].bound = Target(appConfig, b, id)
        BY <1>1, <4>1, <4>2, ClonesEdit
      <4>5. \A b \in AgentIds \ others : moved.agents[b] = appConfig.agents[b]
        BY <1>1, <4>1, <4>2, ClonesEdit
      <4> QED
        BY <4>3, <4>4, <4>5
    <3> HIDE DEF moved
    <3> QED
      BY <2>4, <3>1
  <2>6. Whole(moved) /\ moved.active # id
    BY <2>1, <2>5 DEF Edits
  <2>7. \A b \in AgentIds : b # a => moved.agents[b].bound # id
    BY <2>3, <2>5
  <2> HIDE DEF moved
  <2>8. gone = [providers |-> Drop(moved.providers, {id}), active |-> moved.active,
                agents |-> shown(moved, id), pools |-> Drop(moved.pools, {id}),
                modes |-> moved.modes \ {id}, reuse |-> Drop(moved.reuse, RecordsOf(moved, id)),
                saveable |-> moved.saveable]
    BY <2>6, RemovedFields
  <2> HIDE DEF gone
  <2>9. \A i \in sources : i \in Ids(moved) \ {id}
    BY <2>1 DEF BelongsTo
  <2> HIDE DEF sources
  <2>10. \A b \in AgentIds : /\ IsAgent(shown(moved, id)[b])
                             /\ shown(moved, id)[b].hidden \subseteq Ids(moved) \ {id}
                             /\ shown(moved, id)[b].bound = moved.agents[b].bound
                             /\ shown(moved, id)[b].bound \in Ids(moved) \cup {Nobody}
    <3> HIDE DEF shown
    <3> QED
      BY <1>2, <2>6
  <2>11. shown(moved, id) = [b \in AgentIds |-> shown(moved, id)[b]]
    OBVIOUS
  <2> HIDE DEF shown
  <2>12. /\ IsAgent(agent) /\ agent.hidden \subseteq Ids(moved) \ {id}
         /\ agent.bound \in Ids(moved) \cup {Nobody}
    <3>1. gone.agents = shown(moved, id)
      BY <2>8
    <3>2. CASE sources = {}
      BY <2>10, <3>1, <3>2
    <3>3. CASE sources # {}
      <4>1. PICK i \in sources : agent = Hides(gone.agents[a], i)
        BY <3>3
      <4> QED
        BY <2>9, <2>10, <3>1, <4>1, AgentOff
    <3> QED
      BY <3>2, <3>3
  <2> HIDE DEF agent
  <2>13. /\ IsAgent(g) /\ g.hidden \subseteq Ids(moved) \ {id}
         /\ g.bound \in (Ids(moved) \ {id}) \cup {Nobody}
    BY <2>12, AgentOff
  <2> HIDE DEF g
  <2>14. /\ f = [b \in AgentIds |-> f[b]]
         /\ \A b \in AgentIds : f[b] = IF b = a THEN g ELSE shown(moved, id)[b]
    BY <2>11
  <2>15. \A b \in AgentIds : /\ IsAgent(f[b])
                             /\ f[b].bound \in (Ids(moved) \ {id}) \cup {Nobody}
                             /\ f[b].hidden \subseteq Ids(moved) \ {id}
    BY <2>7, <2>10, <2>13, <2>14
  <2>16. d = [providers |-> Drop(moved.providers, {id}), active |-> moved.active, agents |-> f,
              pools |-> Drop(moved.pools, {id}), modes |-> moved.modes \ {id},
              reuse |-> Drop(moved.reuse, RecordsOf(moved, id)), saveable |-> moved.saveable]
    BY <2>8
  <2> HIDE DEF f, d
  <2>17. Edits(moved, d)
    BY <2>6, <2>14, <2>15, <2>16, RemovalEdits
  <2>18. Edits(appConfig, d)
    BY <2>5, <2>17, EditsCompose
  <2> QED
    BY <2>2, <2>18, EditedStep
<1> QED
  BY <1>3, <1>4

(* A verification that is switched or withdrawn keeps its connection.      *)
LEMMA ReuseSteps ==
  ASSUME RecordsInv, SetReuse \/ Withdraw
  PROVE  RecordsInv'
<1>1. Whole(appConfig) /\ now \in Nat
  BY DEF RecordsInv
<1>2. \A r \in DOMAIN appConfig.reuse : IsVerification(appConfig.reuse[r]) /\ r[1] \in Ids(appConfig)
  BY <1>1 DEF Whole, IsConfig, Resolves
<1>3. CASE SetReuse
  <2>1. PICK r \in DOMAIN appConfig.reuse, on \in BOOLEAN :
          Edited([appConfig EXCEPT !.reuse[r] = [@ EXCEPT !.enabled = on, !.stamp = now]])
    BY <1>3 DEF SetReuse
  <2> DEFINE old == appConfig.reuse[r]
             v == [old EXCEPT !.enabled = on, !.stamp = now]
  <2>2. r \in DOMAIN appConfig.reuse /\ appConfig.reuse = [q \in DOMAIN appConfig.reuse |-> appConfig.reuse[q]]
    BY <1>1 DEF Whole, IsConfig
  <2>3. [appConfig.reuse EXCEPT ![r] = v] = Put(appConfig.reuse, {r}, v)
    <3> HIDE DEF v
    <3> QED
      BY <2>2 DEF Put
  <2>4. v = [enabled |-> on, status |-> old.status, stamp |-> now,
             connection |-> old.connection, overtaken |-> old.overtaken]
    <3>1. IsVerification(old)
      BY <1>2
    <3> DEFINE e == [old EXCEPT !.enabled = on]
    <3> HIDE DEF old
    <3>2. e = [enabled |-> on, status |-> old.status, stamp |-> old.stamp,
               connection |-> old.connection, overtaken |-> old.overtaken]
      BY <3>1 DEF IsVerification
    <3>3. v = [e EXCEPT !.stamp = now]
      OBVIOUS
    <3> HIDE DEF e, v
    <3> QED
      BY <3>2, <3>3
  <2>5. old.status = "verified" /\ ~old.overtaken => old.connection = Connection(appConfig, r[1])
    BY <1>1, <2>2 DEF Whole, VerifiedIn
  <2>6. Edited([appConfig EXCEPT !.reuse = [appConfig.reuse EXCEPT ![r] = v]])
    BY <2>1
  <2> HIDE DEF v, old
  <2>7. IsVerification(v) /\ (v.status = "verified" /\ ~v.overtaken => v.connection = Connection(appConfig, r[1]))
    BY <2>4, <2>5 DEF IsVerification
  <2>8. Edits(appConfig, [appConfig EXCEPT !.reuse = Put(appConfig.reuse, {r}, v)])
    BY <1>1, <1>2, <2>2, <2>7, VerificationEdited
  <2> QED
    BY <2>3, <2>6, <2>8, EditedStep
<1>4. CASE Withdraw
  <2>1. PICK r \in DOMAIN appConfig.reuse :
          Edited(Recorded(appConfig, r, "unsupported", appConfig.reuse[r].connection, FALSE))
    BY <1>4 DEF Withdraw
  <2>2. Edits(appConfig, Recorded(appConfig, r, "unsupported", appConfig.reuse[r].connection, FALSE))
    BY <1>1, <1>2, RecordingEdits
  <2> QED
    BY <2>1, <2>2, EditedStep
<1> QED
  BY <1>3, <1>4

(* The verification: it starts with a time before any later edit, and is   *)
(* recorded when the provider has this time still.                         *)
LEMMA ProbeSteps ==
  ASSUME RecordsInv, StartProbe \/ SendProbe \/ EndProbe
  PROVE  RecordsInv'
<1>1. /\ Whole(appConfig) /\ now \in Nat
      /\ \A i \in Ids(appConfig) : appConfig.providers[i].stamp \in Nat /\ appConfig.providers[i].stamp < now
  BY DEF RecordsInv, StampedBefore, Whole, IsConfig, IsProvider
<1>2. ASSUME UNCHANGED <<appConfig, disk, reload, now>>, ProbeInv'
      PROVE  RecordsInv'
  BY <1>2 DEF RecordsInv, IsReload
<1>3. CASE StartProbe
  <2>1. PICK id \in Ids(appConfig), m \in Models :
          probe' = [at |-> "started", record |-> <<id, m>>, target |-> ProbeTarget(appConfig, id),
                    snapshot |-> RecordSnapshot(appConfig, <<id, m>>), connection |-> Nobody,
                    overtaken |-> FALSE]
    BY <1>3 DEF StartProbe
  <2>2. UNCHANGED <<appConfig, disk, reload, now>>
    BY <1>3 DEF StartProbe
  <2>3. ProbeTarget(appConfig, id).stamp = appConfig.providers[id].stamp /\ id \in Ids(appConfig)
    BY <2>1 DEF ProbeTarget
  <2>4. ProbeInv'
    BY <1>1, <2>1, <2>2, <2>3 DEF ProbeInv, IsProbe
  <2> QED
    BY <1>2, <2>2, <2>4
<1>4. CASE SendProbe
  <2>1. UNCHANGED <<appConfig, disk, reload, now>>
    BY <1>4 DEF SendProbe
  <2>2. IsProbe
    BY <1>4 DEF SendProbe, RecordsInv, ProbeInv, NotUnderWay
  <2>3. CASE probe' = NotUnderWay
    BY <1>2, <2>1, <2>3 DEF ProbeInv
  <2>4. CASE probe' = [probe EXCEPT !.at = "sent",
                                    !.connection = Connection(appConfig, probe.record[1])]
    <3> DEFINE x == Connection(appConfig, probe.record[1])
               p == [probe EXCEPT !.at = "sent"]
    <3>1. p = [at |-> "sent", record |-> probe.record, target |-> probe.target,
               snapshot |-> probe.snapshot, connection |-> probe.connection,
               overtaken |-> probe.overtaken]
      BY <2>2 DEF IsProbe
    <3>2. probe' = [p EXCEPT !.connection = x]
      BY <2>4
    <3> HIDE DEF p, x
    <3>3. probe' = [at |-> "sent", record |-> probe.record, target |-> probe.target,
                    snapshot |-> probe.snapshot, connection |-> x, overtaken |-> probe.overtaken]
      BY <3>1, <3>2
    <3>4. IsProbe'
      BY <2>1, <2>2, <3>3 DEF IsProbe
    <3>5. probe'.connection = Connection(appConfig, probe.record[1])' /\ probe'.record = probe.record
      BY <2>1, <3>3 DEF x, Connection
    <3>6. ProbeInv'
      BY <2>1, <3>4, <3>5 DEF ProbeInv
    <3> QED
      BY <1>2, <2>1, <3>6
  <2> QED
    BY <1>4, <2>3, <2>4 DEF SendProbe
<1>5. CASE EndProbe
  <2>1. probe' = NotUnderWay /\ UNCHANGED reload
    BY <1>5 DEF EndProbe
  <2>2. CASE StillTheSame(appConfig)
    <3> DEFINE c(status) == Recorded(appConfig, probe.record, status, probe.connection, probe.overtaken)
    <3>1. PICK status : CommandTick /\ appConfig' = c(status) /\ SaveConfig(c(status))
      BY <1>5, <2>2 DEF EndProbe
    <3>2. IsProbe /\ probe.at = "sent"
      BY <1>5 DEF EndProbe, RecordsInv, ProbeInv, NotUnderWay
    <3>3. /\ probe.record[1] \in Ids(appConfig)
          /\ appConfig.providers[probe.record[1]].stamp = probe.target.stamp
      BY <2>2 DEF StillTheSame, ProbeTarget
    <3>4. ~probe.overtaken => probe.connection = Connection(appConfig, probe.record[1])
      BY <3>2, <3>3 DEF RecordsInv, ProbeInv, NotUnderWay
    <3>5. Edits(appConfig, c(status))
      BY <1>1, <3>3, <3>4, RecordingEdits
    <3> HIDE DEF c
    <3> QED
      BY <2>1, <3>1, <3>5, EditStep DEF CommandTick, SaveConfig
  <2>3. CASE ~StillTheSame(appConfig)
    <3>1. UNCHANGED <<appConfig, disk, reload, now>>
      BY <1>5, <2>3 DEF EndProbe
    <3> QED
      BY <1>2, <2>1, <3>1 DEF ProbeInv
  <2> QED
    BY <2>2, <2>3
<1> QED
  BY <1>3, <1>4, <1>5

(* The file that is read back is whole, and a probe that it overtakes has  *)
(* nothing to say.                                                         *)
LEMMA FileSteps ==
  ASSUME RecordsInv, ReadDisk \/ WriteBack \/ Install \/ RestartRecords
  PROVE  RecordsInv'
<1>4. ASSUME NEW default \in Defaults(disk)
      PROVE  Whole(Ensured(disk, default)) /\ StampedBefore(Ensured(disk, default), now)
  <2>1. Whole(disk) /\ StampedBefore(disk, now) /\ default \in Ids(disk) \cup {Nobody}
    BY DefaultsAreThere DEF RecordsInv
  <2>2. Ensured(disk, default).providers = disk.providers
    BY <2>1 DEF Ensured, Whole, IsConfig
  <2>3. Whole(Ensured(disk, default))
    BY <2>1, EnsuredEdits DEF Edits
  <2> QED
    BY <2>1, <2>2, <2>3 DEF StampedBefore, Ids
<1>1. CASE ReadDisk \/ RestartRecords
  <2>1. PICK default \in Defaults(disk) :
          /\ now' = now + 1
          /\ \/ /\ UNCHANGED <<appConfig, disk, probe>>
                /\ reload' = [at |-> "read", config |-> Ensured(disk, default)]
             \/ /\ disk' = Ensured(disk, default) /\ appConfig' = Ensured(disk, default)
                /\ probe' = NotUnderWay /\ reload' = NotUnderWay
    BY <1>1 DEF ReadDisk, RestartRecords, CommandTick
  <2> DEFINE c == Ensured(disk, default)
  <2>6. Whole(c) /\ StampedBefore(c, now)
    BY <1>4
  <2>7. /\ now' = now + 1
        /\ \/ UNCHANGED <<appConfig, disk, probe>> /\ reload' = [at |-> "read", config |-> c]
           \/ disk' = c /\ appConfig' = c /\ probe' = NotUnderWay /\ reload' = NotUnderWay
    BY <2>1
  <2> HIDE DEF c
  <2>2. now \in Nat /\ now' \in Nat /\ now < now'
    BY <2>7 DEF RecordsInv
  <2>3. /\ Whole(appConfig) /\ Whole(disk) /\ Whole(c)
        /\ StampedBefore(appConfig, now') /\ StampedBefore(disk, now') /\ StampedBefore(c, now')
    BY <2>2, <2>6, <2>7, OlderLater DEF RecordsInv
  <2>4. reload' = NotUnderWay \/ IsReload'
    BY <2>3, <2>7 DEF IsReload
  <2>5. ProbeInv'
    BY <2>2, <2>7 DEF RecordsInv, ProbeInv, IsProbe, Connection, NotUnderWay
  <2> QED
    BY <2>2, <2>3, <2>4, <2>5, <2>7 DEF RecordsInv
<1>2. CASE WriteBack
  <2>1. IsReload /\ now \in Nat
    BY <1>2 DEF WriteBack, RecordsInv, NotUnderWay
  <2>2. /\ \/ disk' = reload.config /\ reload' = [reload EXCEPT !.at = "written"]
           \/ disk' = disk /\ reload' = NotUnderWay
        /\ UNCHANGED <<appConfig, probe, now>>
    BY <1>2 DEF WriteBack
  <2>3. reload' = [at |-> "written", config |-> reload.config] \/ (disk' = disk /\ reload' = NotUnderWay)
    BY <2>1, <2>2 DEF IsReload
  <2>4. ProbeInv'
    BY <2>2 DEF RecordsInv, ProbeInv, IsProbe
  <2> QED
    BY <2>1, <2>2, <2>3, <2>4 DEF RecordsInv, IsReload
<1>3. CASE Install
  <2>1. IsReload /\ now \in Nat
    BY <1>3 DEF Install, RecordsInv, NotUnderWay
  <2>2. /\ appConfig' = reload.config /\ reload' = NotUnderWay /\ UNCHANGED <<disk, now>>
        /\ probe' = IF probe = NotUnderWay THEN NotUnderWay ELSE [probe EXCEPT !.overtaken = TRUE]
    BY <1>3 DEF Install
  <2>3. ProbeInv'
    <3>1. CASE probe = NotUnderWay
      BY <2>2, <3>1 DEF ProbeInv
    <3>2. CASE probe # NotUnderWay
      <4>1. IsProbe
        BY <3>2 DEF RecordsInv, ProbeInv
      <4> DEFINE t == TRUE
      <4>2. probe' = [probe EXCEPT !.overtaken = t] /\ t
        BY <2>2, <3>2
      <4> HIDE DEF t
      <4>3. probe' = [at |-> probe.at, record |-> probe.record, target |-> probe.target,
                      snapshot |-> probe.snapshot, connection |-> probe.connection,
                      overtaken |-> t]
        BY <4>1, <4>2 DEF IsProbe
      <4>4. IsProbe' /\ probe'.overtaken
        BY <2>2, <4>1, <4>2, <4>3 DEF IsProbe
      <4> QED
        BY <4>4 DEF ProbeInv
    <3> QED
      BY <3>1, <3>2
  <2> QED
    BY <2>1, <2>2, <2>3 DEF RecordsInv, IsReload
<1> QED
  BY <1>1, <1>2, <1>3

(* The invariant holds of every behaviour that starts with a sound file.   *)
LEMMA RecordsInvariant == SoundStarts => (RecordsSpec => []RecordsInv)
<1> SUFFICES ASSUME SoundStarts PROVE RecordsSpec => []RecordsInv
  OBVIOUS
<1>1. RecordsInit => RecordsInv
  BY DEF SoundStarts, RecordsInit, RecordsInv, ProbeInv
<1>2. RecordsInv /\ [RecordsNext]_pvars => RecordsInv'
  <2> SUFFICES ASSUME RecordsInv, [RecordsNext]_pvars PROVE RecordsInv'
    OBVIOUS
  <2>1. CASE UNCHANGED pvars
    BY <2>1 DEF pvars, RecordsInv, IsReload, ProbeInv, IsProbe
  <2>2. Shared \notin AgentIds
    BY DEF SoundStarts
  <2> QED
    BY <2>1, <2>2, ProviderSteps, AgentSteps, DeleteSteps, ReuseSteps, ProbeSteps, FileSteps
       DEF RecordsNext
<1> QED
  BY <1>1, <1>2, PTL DEF RecordsSpec

-----------------------------------------------------------------------------
(* The theorems.                                                           *)

(* Every reference of the configuration, in memory and in the file, names  *)
(* a provider that is there (delete_provider, remove_provider_records and  *)
(* clone_provider_for_agent_config).                                       *)
THEOREM ReferencesAlwaysResolve == SoundStarts => (RecordsSpec => []ReferencesResolve)
<1>1. RecordsInv => ReferencesResolve
  BY DEF RecordsInv, Whole, ReferencesResolve
<1> QED
  BY <1>1, RecordsInvariant, PTL

(* What is verified was verified with the connection the provider has, but *)
(* for a probe overtaken by a reload (response_session_reuse_probe_target  *)
(* compared before record_response_session_reuse_probe).                   *)
THEOREM VerificationsHold == SoundStarts => (RecordsSpec => []VerifiedForThisConnection)
<1>1. RecordsInv => VerifiedForThisConnection
  BY DEF RecordsInv, Whole, VerifiedForThisConnection
<1> QED
  BY <1>1, RecordsInvariant, PTL
=============================================================================

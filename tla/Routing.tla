------------------------------- MODULE Routing -------------------------------
(***************************************************************************)
(* Which provider and model a turn goes to (proxy/mod.rs 9323-9773): the   *)
(* agent the caller is authorized as, the provider that agent is bound to, *)
(* the active provider, the models each provider offers under several      *)
(* names, and the affinity of a conversation to the provider that answered *)
(* it last.  A turn works on a copy of the configuration; the user edits   *)
(* the configuration, and other turns move the affinity, meanwhile.        *)
(***************************************************************************)
EXTENDS Naturals, Sequences, SequencesExt, FiniteSets

CONSTANTS
  Providers,   \* the providers, in the order of the configuration
  Offers,      \* [provider -> Seq([id, alias, on])]: the models of each
  Names,       \* what clients write in "model"
  Lower,       \* [name -> name]: to_ascii_lowercase
  Base,        \* [id -> name]: codex_model_alias of a model id, or Nothing
  Preferred,   \* the providers on the channel the route profile prefers
  AgentModel,  \* the model the agent is set to, or Nothing
  Callers,     \* turns in progress at one time
  Conversations,
  Wants,       \* [Conversations -> name]: part of the conversation's key
  Nothing

Ids == Range(Providers)

VARIABLES
  settings,    \* [on, active, agent_on, bound]: the configuration turns copy
  routeAffinity,    \* AppState.provider_route_affinity: [Conversations -> provider]
  route        \* [Callers -> the turn]

rvars == <<settings, routeAffinity, route>>

Settings ==
  [on : SUBSET Ids, active : Ids \cup {Nothing}, agent_on : BOOLEAN,
   bound : Ids \cup {Nothing}]

NoRoute == [at |-> "idle"]

First(s, Test(_)) == IF SelectInSeq(s, Test) = 0 THEN Nothing ELSE s[SelectInSeq(s, Test)]

(* authorize_for_agent: a caller of an agent's own server, or one that     *)
(* presents a key.  The local key opens the server to nobody in particular *)
(* and an agent's key to that agent, while the agent is enabled.           *)
CallerKeys == {"local", "scoped", "placeholder", "wrong"}

Authorized(cfg, forced, key) ==
  IF forced
  THEN IF cfg.agent_on /\ key # "wrong" THEN {"agent"} ELSE {}
  ELSE CASE key = "local" -> {"nobody"}
         [] key = "scoped" /\ cfg.agent_on -> {"agent"}
         [] OTHER -> {}

(* resolve_provider_model_id: the id itself, then the model's alias, then  *)
(* the alias in any case, then the last part of a path-like id.            *)
Alias(m) == IF m.alias = m.id THEN Nothing ELSE m.alias

Resolve(p, name) ==
  LET by_id(m) == m.on /\ m.id = name
      by_alias(m) == m.on /\ Alias(m) = name
      by_lower(m) == m.on /\ Alias(m) # Nothing /\ Lower[Alias(m)] = Lower[name]
      by_tail(m) == m.on /\ Base[m.id] # Nothing /\ Base[m.id] = Lower[name]
      found == First(<<First(Offers[p], by_id), First(Offers[p], by_alias),
                       First(Offers[p], by_lower), First(Offers[p], by_tail)>>,
                     LAMBDA m : m # Nothing)
  IN  IF name = Nothing THEN Nothing
      ELSE IF Offers[p] = <<>> THEN name
      ELSE IF found = Nothing THEN Nothing ELSE found.id

Supports(p, name) == name = Nothing \/ Resolve(p, name) # Nothing

FirstModel(p) ==
  LET on(m) == m.on IN IF First(Offers[p], on) = Nothing THEN Nothing
                       ELSE First(Offers[p], on).id

OnlyIf(p, set) == IF p \in set THEN p ELSE Nothing
Else(p, q) == IF p = Nothing THEN q ELSE p

BoundTo(cfg, agent) == IF agent THEN OnlyIf(cfg.bound, cfg.on) ELSE Nothing

(* decide_route: [provider, model], or Nothing when nothing is enabled or  *)
(* no model is configured.  A route profile of the default configuration   *)
(* names a channel, and neither a provider nor a model.                    *)
DecideRoute(cfg, name, agent) ==
  LET enabled(p) == p \in cfg.on
      near(p) == p \in cfg.on \cap Preferred
      able(p) == p \in cfg.on /\ name # Nothing /\ Supports(p, name)
      active == OnlyIf(cfg.active, cfg.on)
      fitting == IF active # Nothing /\ Supports(active, name) THEN active ELSE Nothing
      provider == Else(BoundTo(cfg, agent),
                       Else(fitting, Else(First(Providers, able),
                         Else(First(Providers, near), First(Providers, enabled)))))
      set == IF agent THEN Resolve(provider, AgentModel) ELSE Nothing
      model == IF provider = Nothing THEN Nothing
               ELSE Else(Resolve(provider, name), Else(name, Else(set, FirstModel(provider))))
  IN  IF model = Nothing THEN Nothing ELSE [provider |-> provider, model |-> model]

(* Mutant: the models of the preferred provider are not looked at. *)
ApplyAffinityBlindly(cfg, decision, name, preferred) ==
  IF preferred = decision.provider \/ preferred \notin cfg.on THEN decision
  ELSE [provider |-> preferred, model |-> decision.model]

(* apply_provider_route_affinity *)
ApplyAffinity(cfg, decision, name, preferred) ==
  LET model == IF name # Nothing THEN Resolve(preferred, name)
               ELSE Else(Resolve(preferred, decision.model), FirstModel(preferred))
  IN  IF preferred = decision.provider \/ preferred \notin cfg.on \/ model = Nothing
      THEN decision
      ELSE [provider |-> preferred, model |-> model]

-----------------------------------------------------------------------------
RoutingInit ==
  /\ settings \in Settings
  /\ routeAffinity = [c \in Conversations |-> Nothing]
  /\ route = [t \in Callers |-> NoRoute]

(* The request is authorized and the configuration copied. *)
Arrive(t) ==
  /\ route[t] = NoRoute
  /\ \E forced \in BOOLEAN, key \in CallerKeys, c \in Conversations :
       \E who \in Authorized(settings, forced, key) :
         route' = [route EXCEPT ![t] =
           [at |-> "lookup", cfg |-> settings, agent |-> who = "agent", conv |-> c,
            preferred |-> Nothing, to |-> Nothing]]
  /\ UNCHANGED <<settings, routeAffinity>>

(* lookup_provider_route_affinity: the entry is read under one lock and,   *)
(* when the turn's configuration has the provider disabled, removed under  *)
(* another, whatever it is by then.                                        *)
Lookup(t) ==
  /\ route[t].at = "lookup"
  /\ LET p == routeAffinity[route[t].conv]
         on == route[t].cfg.on
     IN  route' = [route EXCEPT
           ![t].preferred = OnlyIf(p, on),
           ![t].at = IF p = Nothing \/ p \in on THEN "decide" ELSE "forget"]
  /\ UNCHANGED <<settings, routeAffinity>>

ForgetAffinity(t) ==
  /\ route[t].at = "forget"
  /\ routeAffinity' = [routeAffinity EXCEPT ![route[t].conv] = Nothing]
  /\ route' = [route EXCEPT ![t].at = "decide"]
  /\ UNCHANGED settings

(* route_is_agent_provider_bound: also by a provider that is disabled. *)
BoundByAgent(r) == r.agent /\ r.cfg.bound # Nothing

(* A request that finds no provider or no model is answered at once. *)
Decide(t) ==
  /\ route[t].at = "decide"
  /\ LET r == route[t]
         decision == DecideRoute(r.cfg, Wants[r.conv], r.agent)
         final == IF BoundByAgent(r) \/ r.preferred = Nothing THEN decision
                  ELSE ApplyAffinity(r.cfg, decision, Wants[r.conv], r.preferred)
     IN  route' = [route EXCEPT
           ![t] = IF decision = Nothing THEN NoRoute
                  ELSE [@ EXCEPT !.at = "sent", !.to = final]]
  /\ UNCHANGED <<settings, routeAffinity>>

(* note_provider_route_affinity and                                        *)
(* maybe_clear_provider_route_affinity_after_status, on the last answer.   *)
(* A turn that is bound to a provider moves the affinity as well.          *)
Answered(t) ==
  /\ route[t].at = "sent"
  /\ LET r == route[t]
     IN  \/ routeAffinity' = [routeAffinity EXCEPT ![r.conv] = r.to.provider]       \* success
         \/ routeAffinity' = [routeAffinity EXCEPT                                   \* a key failure
               ![r.conv] = IF @ = r.to.provider THEN Nothing ELSE @]
         \/ UNCHANGED routeAffinity                                             \* another error
  /\ route' = [route EXCEPT ![t] = NoRoute]
  /\ UNCHANGED settings

(* The user enables, disables, activates or binds (admin/mod.rs). *)
Configure ==
  /\ \E new \in Settings :
       /\ settings' = new
       /\ Cardinality({f \in DOMAIN new : new[f] # settings[f]}) = 1
  /\ UNCHANGED <<routeAffinity, route>>

RoutingNext ==
  \/ \E t \in Callers : Arrive(t) \/ Lookup(t) \/ ForgetAffinity(t) \/ Decide(t) \/ Answered(t)
  \/ Configure

RoutingSpec == RoutingInit /\ [][RoutingNext]_rvars

-----------------------------------------------------------------------------
(* A turn is sent where it can be served, as its copy of the configuration *)
(* has it: to an enabled provider; to the one its agent is bound to, if    *)
(* that is enabled, whatever answered the conversation before; and         *)
(* otherwise, when any enabled provider offers the requested model, to one *)
(* that does and under an id that this provider has enabled - whatever is  *)
(* active and wherever the conversation went so far.                       *)
RoutedWhereItCanBeServed ==
  \A t \in Callers : route[t].at = "sent" =>
    LET r == route[t]
        p == r.to.provider
        name == Wants[r.conv]
        offered == \E q \in r.cfg.on : Resolve(q, name) # Nothing
        ids(q) == {m.id : m \in {n \in Range(Offers[q]) : n.on}}
    IN  /\ p \in r.cfg.on
        /\ r.agent /\ r.cfg.bound \in r.cfg.on => p = r.cfg.bound
        /\ offered /\ ~(r.agent /\ r.cfg.bound \in r.cfg.on) =>
             Offers[p] = <<>> \/ r.to.model \in ids(p)

(* What is asked of the constants: the sequences are sequences, and that   *)
(* there is no provider is told by something that is none.                 *)
SoundRoutes ==
  /\ Nothing \notin Ids
  /\ Providers \in Seq(Ids)
  /\ \A p \in Ids : Offers[p] \in Seq(Range(Offers[p]))
=============================================================================

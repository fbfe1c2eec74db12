------------------------------- MODULE AgentFiles -------------------------------
(***************************************************************************)
(* What an injection writes into the settings file of one agent            *)
(* (agent_injection.rs): the route read off the configuration, and for     *)
(* each kind of agent the entries that are set, the user's own entries     *)
(* that stay, and the model catalogue that Codex is given.                 *)
(*                                                                         *)
(* A file is what reading it gives: the user's entries outside and inside  *)
(* the container the proxy writes to, and the entries the proxy sets.      *)
(* Names are compared without regard to case, so one value stands for all  *)
(* spellings of a name.                                                    *)
(***************************************************************************)
EXTENDS Naturals, Sequences, SequencesExt, FiniteSets

CONSTANTS
  Kinds,       \* the kinds of agents
  Official,    \* Seq of catalogue entries: the bundled catalogue
  FallbackSlug,\* the entry of it whose template serves models it does not list
  Configs,     \* [active, providers: Seq([id, enabled, models: Seq(model)])]
  Bindings,    \* [provider, model]: what an agent's record may name
  MaxInjections,
  NoValue         \* no value, in every field

VARIABLES
  kind, agentFile, said, injections

fvars == <<kind, agentFile, said, injections>>

First(seq, Test(_)) == LET i == SelectInSeq(seq, Test) IN IF i = 0 THEN NoValue ELSE seq[i]
FirstOf(seq) == First(seq, LAMBDA v : v # NoValue)

(* model_request_alias, codex_model_alias or the id itself: the name an     *)
(* agent is told to ask for.                                               *)
NameOf(m) == FirstOf(<<m.alias, m.short, m.id>>)

ModelMatches(m, name) == name \in {m.id, m.alias, m.short} \ {NoValue}

(* InjectionContext::from_config: the agent's provider or the active one,  *)
(* else the first that is enabled; the agent's model, else the first       *)
(* enabled one.  The list it keeps is of the enabled models: here it is    *)
(* the provider's, and each reader of it takes the enabled ones.           *)
FromConfig(config, binding) ==
  LET id == FirstOf(<<binding.provider, config.active>>)
      provider == FirstOf(<<First(config.providers, LAMBDA p : p.id = id),
                            First(config.providers, LAMBDA p : p.enabled)>>)
      asked == IF provider = NoValue \/ binding.model = NoValue THEN NoValue
               ELSE First(provider.models, LAMBDA m : ModelMatches(m, binding.model))
      models == IF provider = NoValue THEN <<>> ELSE provider.models
      model == FirstOf(<<asked, First(models, LAMBDA m : m.enabled)>>)
  IN  [address |-> config.address, key |-> config.key,
       model |-> IF model = NoValue THEN FallbackSlug ELSE NameOf(model),
       explicit |-> asked # NoValue,
       window |-> IF model = NoValue THEN NoValue ELSE model.window,
       models |-> models]

-----------------------------------------------------------------------------
(* The catalogue of Codex *)

Slugs(catalogue) == [i \in DOMAIN catalogue |-> catalogue[i].slug]

IsLevels(levels) == levels \in Seq(Range(levels)) /\ NoValue \notin Range(levels)

(* The bundled catalogue has each name once, and a default effort where it *)
(* has any; the proxy has an address and a key (the port of the settings   *)
(* and the key of the service, which there always is); lists are lists.    *)
ASSUME SoundFiles ==
  /\ Kinds \subseteq {"claudeCode", "codex", "openCode", "openClaw", "hermes",
                      "profile", "mode", "meta"}
  /\ Official \in Seq(Range(Official)) /\ IsInjective(Slugs(Official))
  /\ \A e \in Range(Official) : IsLevels(e.levels) /\ (e.levels # <<>> => e.default # NoValue)
  /\ \A config \in Configs :
       /\ config.address # NoValue /\ config.key # NoValue
       /\ config.providers \in Seq(Range(config.providers))
       /\ \A p \in Range(config.providers) :
            /\ p.models \in Seq(Range(p.models))
            /\ \A m \in Range(p.models) : IsLevels(m.supported)

(* codex_catalog_model: a model the bundle knows inherits what the bundle  *)
(* says of it.                                                             *)
Supported(template, m, official) ==
  IF official /\ m.supported = <<>> THEN template.levels ELSE m.supported

DefaultEffort(template, m, official) ==
  LET supported == Supported(template, m, official)
      Offered(e) == IF e \in Range(supported) THEN e ELSE NoValue
  IN  FirstOf(<<IF m.override THEN Offered(m.effort) ELSE NoValue,
                IF official THEN template.default ELSE NoValue,
                Offered(m.effort),
                Offered("medium")>> \o supported)

CatalogModel(template, m, slug, official) ==
  [slug |-> slug, of |-> m.id,
   levels |-> Supported(template, m, official),
   default |-> DefaultEffort(template, m, official),
   window |-> IF m.window = NoValue THEN template.window ELSE m.window]

(* One enabled model: it takes the place of the entry of its name, or      *)
(* comes last.  The template is looked up by the model's own name.         *)
Listed(catalogue, m) ==
  LET slug == NameOf(m)
      known == First(catalogue, LAMBDA e : e.slug = FirstOf(<<m.short, m.id>>))
      template == FirstOf(<<known, First(Official, LAMBDA e : e.slug = FallbackSlug)>>)
      entry == CatalogModel(template, m, slug, known # NoValue)
      at == SelectInSeq(catalogue, LAMBDA e : e.slug = slug)
  IN  IF ~m.enabled THEN catalogue
      ELSE IF at = 0 THEN Append(catalogue, entry)
      ELSE [catalogue EXCEPT ![at] = entry]

(* The bundled catalogue with the first n models of a list in it.          *)
Catalogue(context) ==
  LET listed[n \in 0 .. Len(context.models)] ==
        IF n = 0 THEN Official ELSE Listed(listed[n - 1], context.models[n])
  IN  listed[Len(context.models)]

-----------------------------------------------------------------------------
(* The files *)

Blank == [is |-> "document", own |-> "none", inner |-> "absent",
          address |-> NoValue, key |-> NoValue, model |-> NoValue,
          window |-> NoValue, effort |-> NoValue, provider |-> NoValue, catalogue |-> <<>>]

(* read_json_or_empty, read_json5_or_empty, read_hermes_yaml_or_empty and  *)
(* the reading of Codex's TOML: a file that is not there or is blank is    *)
(* empty; JSON that is not an object counts as empty, YAML does not.  A    *)
(* profile is written whole, and not read.                                 *)
ReadFails(k, f) ==
  (f.is = "unparsable" /\ k # "profile") \/ (f.is = "scalar" /\ k = "hermes")
Read(f) == IF f.is = "document" THEN f ELSE Blank

(* What the proxy's container holds of the user's: a value of another type *)
(* than the container, or than the proxy's own entry in it, is replaced.   *)
Opened(f) == IF f.inner = "user" THEN "user" ELSE "absent"

Pointed(f, context) ==
  [f EXCEPT !.address = context.address, !.key = context.key, !.inner = Opened(f)]

(* write_claude_code_settings *)
ClaudeCode(f, context) == [Pointed(f, context) EXCEPT !.model = context.model]

(* write_codex_config replaces nothing.  A model_providers that is no table*)
(* (a string, an inline table, an array of tables) stays as it is, without *)
(* address or key, and the rest of the file is written all the same; a     *)
(* provider entry in it that is no table is an error.                      *)
Tabled(f, context) ==
  IF f.inner = "otherType" THEN f ELSE [f EXCEPT !.address = context.address, !.key = context.key]

Refuses(k, f) == k = "codex" /\ f.inner = "otherEntry"

(* The model is set only when the agent's record names one; an effort only *)
(* when the model overrides it.                                            *)
CodexEffort(context) ==
  LET m == First(context.models, LAMBDA x : x.enabled /\ ModelMatches(x, context.model))
  IN  IF m # NoValue /\ m.override THEN m.effort ELSE NoValue

Codex(f, context) ==
  LET pointed == [Tabled(f, context) EXCEPT
                    !.provider = "atoapi", !.catalogue = Catalogue(context)]
  IN  IF context.explicit
      THEN [pointed EXCEPT !.model = context.model, !.window = context.window,
                           !.effort = FirstOf(<<CodexEffort(context), f.effort>>)]
      ELSE pointed

(* write_opencode_config: the provider's entry is replaced; the user picks *)
(* the model there.                                                        *)
OpenCode(f, context) == [Pointed(f, context) EXCEPT !.model = context.model]

(* write_openclaw_config: the provider's entry and the agents' default. *)
OpenClaw(f, context) ==
  [Pointed(f, context) EXCEPT !.model = context.model, !.provider = "atoapi"]

(* Mutant: the fields that are there win over the new ones. *)
MergeExisting(next, existing) ==
  [x \in DOMAIN next |-> IF existing[x] # NoValue THEN existing[x] ELSE next[x]]

(* merge_missing_yaml_fields: what the new entry does not say stays. *)
MergeMissing(next, existing) ==
  [x \in DOMAIN next |-> IF next[x] # NoValue THEN next[x] ELSE existing[x]]

(* write_hermes_config *)
Hermes(f, context) ==
  LET next == [address |-> context.address, key |-> context.key, window |-> NoValue]
      existing == [address |-> f.address, key |-> f.key, window |-> f.window]
      entry == IF f.address # NoValue /\ f.inner # "otherType"
               THEN MergeMissing(next, existing) ELSE next
  IN  [f EXCEPT !.inner = Opened(f), !.address = entry.address, !.key = entry.key,
                !.window = entry.window, !.model = context.model, !.provider = "atoapi"]

(* write_deployment_mode and write_claude_desktop_meta: the files beside   *)
(* the profile of Claude Desktop name it as the one in use.                *)
DesktopMode(f) == [f EXCEPT !.provider = "atoapi"]
DesktopMeta(f) == [f EXCEPT !.inner = Opened(f), !.provider = "atoapi"]

(* write_proxy_mode_profile and the profile of write_claude_desktop: files *)
(* of the proxy's own, written whole.                                      *)
Profile(f, context) ==
  [Blank EXCEPT !.address = context.address, !.key = context.key, !.model = context.model]

Rewritten(k, f, context) ==
  CASE k = "claudeCode" -> ClaudeCode(f, context)
    [] k = "codex"      -> Codex(f, context)
    [] k = "openCode"   -> OpenCode(f, context)
    [] k = "openClaw"   -> OpenClaw(f, context)
    [] k = "hermes"     -> Hermes(f, context)
    [] k = "profile"    -> Profile(f, context)
    [] k = "mode"       -> DesktopMode(f)
    [] k = "meta"       -> DesktopMeta(f)

FilesFound ==
  {[Blank EXCEPT !.own = own, !.inner = inner, !.model = model, !.window = window, !.effort = effort] :
     own \in {"none", "user"}, inner \in {"absent", "user", "otherType", "otherEntry"},
     model \in {NoValue, "mine"}, window \in {NoValue, 7}, effort \in {NoValue, "high"}}
  \cup {[Blank EXCEPT !.is = is] : is \in {"unparsable", "scalar"}}

FilesInit ==
  /\ kind \in Kinds
  /\ agentFile \in FilesFound
  /\ said = NoValue
  /\ injections = 0

(* apply_item for the kind: an unreadable file is left alone. *)
InjectFile ==
  /\ injections < MaxInjections
  /\ ~ReadFails(kind, agentFile) /\ ~Refuses(kind, agentFile)
  /\ injections' = injections + 1
  /\ \E config \in Configs, binding \in Bindings :
       /\ said' = FromConfig(config, binding)
       /\ agentFile' = Rewritten(kind, Read(agentFile), said')
  /\ UNCHANGED kind

(* The error of Codex's file comes after its catalogue, a file of its own, *)
(* was written.                                                            *)
RefusedFile ==
  /\ injections < MaxInjections
  /\ ~ReadFails(kind, agentFile) /\ Refuses(kind, agentFile)
  /\ injections' = injections + 1
  /\ \E config \in Configs, binding \in Bindings :
       agentFile' = [agentFile EXCEPT !.catalogue = Catalogue(FromConfig(config, binding))]
  /\ UNCHANGED <<kind, said>>

(* The user writes to the file in between. *)
EditFile ==
  /\ said # NoValue
  /\ \E own \in {"user"}, effort \in {NoValue, "low"} :
       agentFile' = [agentFile EXCEPT !.own = own, !.effort = effort]
  /\ UNCHANGED <<kind, said, injections>>

FilesNext == InjectFile \/ RefusedFile \/ EditFile

FilesSpec == FilesInit /\ [][FilesNext]_fvars

-----------------------------------------------------------------------------
(* However often an agent was injected before and with which routes, its   *)
(* file leads to the proxy by the last of them: the address and the key,   *)
(* the model where the agent's record names one (Codex) or always, and for *)
(* Codex a catalogue that lists every enabled model of the provider, each  *)
(* name once, with a default effort wherever there is an effort at all.    *)
(* Excepted are the address and the key in a file of Codex whose           *)
(* model_providers is no table: what is reported as injected names the     *)
(* proxy there, and does not say where it is.                              *)
FileFollowsTheRoute ==
  said # NoValue => IF kind \in {"mode", "meta"} THEN agentFile.provider = "atoapi" ELSE
    /\ kind = "codex" => agentFile.provider = "atoapi"
    /\ kind # "codex" \/ agentFile.inner # "otherType" =>
         agentFile.address = said.address /\ agentFile.key = said.key
    /\ (kind # "codex" \/ said.explicit) => agentFile.model = said.model
    /\ kind = "codex" =>
         /\ said.explicit => agentFile.window = said.window
         /\ IsInjective(Slugs(agentFile.catalogue))
         /\ \A m \in Range(said.models) : m.enabled => NameOf(m) \in Range(Slugs(agentFile.catalogue))
         /\ \A e \in Range(agentFile.catalogue) : e.levels # <<>> => e.default # NoValue
=============================================================================

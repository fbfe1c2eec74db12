---------------------------- MODULE AgentInjection ----------------------------
(***************************************************************************)
(* How the proxy writes itself into the settings files of coding agents    *)
(* (agent_injection.rs, and the commands of admin/mod.rs that call it):    *)
(* the record of each agent, the files it consists of, the backups, what   *)
(* is undone when a write fails half way, and what the start-up repeats.   *)
(* A command holds the configuration's write lock from its first step to   *)
(* its last, so only the end of the program comes between two steps.       *)
(***************************************************************************)
EXTENDS Naturals, Sequences, SequencesExt, FiniteSets

CONSTANTS
  Agents,
  FilesOf,      \* [Agents -> Seq(file)]: in the order they are written
  Restores,     \* the agents whose files are put back together (Claude Desktop)
  Routes,       \* what a route writes: address, scoped key and model
  DefaultRoute, \* through the provider an agent without one is given
  Nothing,
  MaxCommands, MaxFailures, MaxStarts   \* bounds

VARIABLES
  record,       \* [Agents -> [enabled, route]]: AppConfig.agent_injections
  saved,        \* the same in the configuration file
  files,        \* [file -> [own, route]]: the user's settings, and the proxy's
  job,          \* the command in progress
  damaged,      \* agents with a file that no step could put right
  unapplied,    \* agents whose record, or what it stands for, a command changed
                \* that injects nobody, and that were not injected since
  counts        \* [commands, failures, starts]

ivars == <<record, saved, files, job, damaged, unapplied, counts>>

Files == UNION {Range(FilesOf[a]) : a \in Agents}

NoJob == [at |-> "none"]

Job(a, rest, previous, undo) ==
  [at |-> "backup", agent |-> a, rest |-> rest, previous |-> previous,
   undo |-> undo, next |-> 1, backups |-> [f \in {} |-> Nothing]]

(* ensure_defaults: an enabled agent is bound to the default provider. *)
WithDefaults(r) ==
  [a \in Agents |-> IF r[a].enabled /\ r[a].route = Nothing
                    THEN [r[a] EXCEPT !.route = DefaultRoute] ELSE r[a]]

InjectionInit ==
  /\ record = [a \in Agents |-> [enabled |-> FALSE, route |-> Nothing]]
  /\ saved = record
  /\ files \in [Files -> {[own |-> TRUE, route |-> Nothing], [own |-> FALSE, route |-> Nothing]}]
  /\ job = NoJob /\ damaged = {} /\ unapplied = {}
  /\ counts = [commands |-> 0, failures |-> 0, starts |-> 1]

Command ==
  /\ job = NoJob
  /\ counts.commands < MaxCommands
  /\ counts' = [counts EXCEPT !.commands = @ + 1]
  /\ UNCHANGED <<saved, files, damaged>>

Saving == [at |-> "save"]

(* set_enabled: what is disabled keeps its files as they are. *)
SetEnabled(a) ==
  /\ Command
  /\ LET with == WithDefaults(record)
     IN  \/ /\ record' = WithDefaults([with EXCEPT ![a].enabled = TRUE])
            /\ job' = Job(a, <<>>, with[a], TRUE)
         \/ /\ record' = [with EXCEPT ![a].enabled = FALSE]
            /\ job' = Saving
  /\ UNCHANGED unapplied

(* apply_one_by_id: success enables the agent. *)
ApplyOne(a) ==
  /\ Command
  /\ record' = WithDefaults(record)
  /\ job' = Job(a, <<>>, record'[a], FALSE)
  /\ UNCHANGED unapplied

(* InjectionContext::from_config: an agent without a route of its own is   *)
(* written with that of the active provider.                               *)
Context(r) == IF r.route = Nothing THEN DefaultRoute ELSE r.route

Enabled(r) == SetToSeq({a \in Agents : r[a].enabled})

Inject(list) ==
  job' = IF list = <<>> THEN Saving
         ELSE Job(Head(list), Tail(list), record'[Head(list)], FALSE)

(* apply_enabled: one agent after the other, up to the first error. *)
ApplyEnabled ==
  /\ Command
  /\ record' = WithDefaults(record)
  /\ Inject(Enabled(record'))
  /\ UNCHANGED unapplied

(* update_agent_injection_route: a provider that is not the agent's own is *)
(* copied for it, which binds the agent to the copy; only then update_route*)
(* notes the record it puts back, checks the model (unless it is known the *)
(* command ends there) and injects.                                        *)
UpdateRoute(a) ==
  /\ Command
  /\ \E route \in Routes \cup {Nothing}, foreign, known \in BOOLEAN :
       LET with == WithDefaults(IF foreign THEN [record EXCEPT ![a].route = route] ELSE record)
       IN  /\ foreign \/ ~known => route # Nothing
           /\ unapplied' = IF foreign THEN unapplied \cup {a} ELSE unapplied
           /\ record' = IF known THEN WithDefaults([with EXCEPT ![a].route = route]) ELSE with
           /\ job' = CASE ~known -> NoJob
                       [] known /\ with[a].enabled -> Job(a, <<>>, with[a], TRUE)
                       [] OTHER -> Saving

(* clone_provider_for_agent: bound to a copy, injected or not, it is saved *)
(* and the proxy started, but its files are not written.                   *)
BindCopy(a) ==
  /\ Command
  /\ \E route \in Routes : record' = [record EXCEPT ![a].route = route]
  /\ unapplied' = unapplied \cup {a}
  /\ job' = Saving

(* delete_provider of the agent's own: it is unbound and disabled.  Others *)
(* bound to it are given copies, which write what it wrote.                *)
DeleteBinding(a) ==
  /\ Command
  /\ record' = [record EXCEPT ![a] = [enabled |-> FALSE, route |-> Nothing]]
  /\ job' = Saving
  /\ UNCHANGED unapplied

(* save_config (port and key), select_provider, delete_model: what is      *)
(* written for a record is another now, and nobody is injected.            *)
Reconfigure ==
  /\ Command
  /\ unapplied' = Agents
  /\ job' = Saving
  /\ UNCHANGED record

(* add_or_update_provider, add_or_update_model: the enabled agents bound to*)
(* the provider are injected one after the other, up to the first error;   *)
(* not those that are written with the active one for want of their own.   *)
RefreshBound ==
  /\ Command
  /\ \E bound \in SUBSET {a \in Agents : record[a].enabled /\ record[a].route # Nothing} :
       /\ record' = IF bound = {} THEN record ELSE WithDefaults(record)
       /\ unapplied' = unapplied \cup bound \cup {a \in Agents : record[a].route = Nothing}
       /\ Inject(SetToSeq(bound))

(* get_agent_injections: reading the list fills it in and saves it.        *)
ListAgents ==
  /\ Command
  /\ record' = WithDefaults(record)
  /\ job' = Saving
  /\ UNCHANGED unapplied

(* reload_config: the records of the file take the place of those in       *)
(* memory, and nobody is injected.  Its steps among other commands' are in *)
(* ProviderRecords; here it comes between commands.                        *)
ReloadInjection ==
  /\ job = NoJob
  /\ counts.commands < MaxCommands
  /\ counts' = [counts EXCEPT !.commands = @ + 1]
  /\ record' = WithDefaults(saved)
  /\ saved' = record'
  /\ unapplied' = unapplied \cup {a \in Agents : record'[a] # record[a]}
  /\ UNCHANGED <<files, job, damaged>>

Fails ==
  /\ counts.failures < MaxFailures
  /\ counts' = [counts EXCEPT !.failures = @ + 1]

(* Mutant: the record keeps what the files could not be given. *)
RefusedKeepsTheRecord(r) == r

(* The command ends in an error: set_enabled and update_route put the      *)
(* agent's record back.                                                    *)
Refused(r) == IF job.undo THEN [r EXCEPT ![job.agent] = job.previous] ELSE r

(* backup_file of every file of the agent that exists. *)
Backup ==
  /\ job.at = "backup"
  /\ \/ /\ job' = [job EXCEPT
             !.at = "write",
             !.backups = [f \in Range(FilesOf[job.agent]) |-> files[f]]]
        /\ UNCHANGED <<record, counts>>
     \/ Fails /\ record' = Refused(record) /\ job' = NoJob
  /\ UNCHANGED <<saved, files, damaged, unapplied>>

(* write_text writes beside and renames; when that fails the file is as it *)
(* was, or it was removed for a second rename that failed too.             *)
AfterFailure(f, gone) ==
  IF gone THEN [files EXCEPT ![f] = [own |-> FALSE, route |-> Nothing]] ELSE files

(* The write_* functions read the file, set the proxy's own entries and    *)
(* keep the rest (module AgentFiles).                                      *)
WriteFile ==
  /\ job.at = "write"
  /\ LET a == job.agent
         f == FilesOf[a][job.next]
         last == job.next = Len(FilesOf[a])
     IN  \/ /\ files' = [files EXCEPT ![f] = [own |-> @.own, route |-> Context(record[a])]]
            /\ job' = [job EXCEPT !.at = IF last THEN "written" ELSE "write",
                                  !.next = IF last THEN 1 ELSE @ + 1]
            /\ UNCHANGED <<record, damaged, counts>>
         \/ /\ Fails
            /\ \E gone \in BOOLEAN :
                 /\ files' = AfterFailure(f, gone)
                 /\ damaged' = IF a \notin Restores /\ (gone \/ job.next > 1)
                               THEN damaged \cup {a} ELSE damaged
            /\ IF a \in Restores
               THEN job' = [job EXCEPT !.at = "restore", !.next = 1] /\ UNCHANGED record
               ELSE job' = NoJob /\ record' = Refused(record)
  /\ UNCHANGED <<saved, unapplied>>

(* Mutant: only the files that were there before are put back. *)
RestoreExisting ==
  /\ job.at = "restore"
  /\ LET f == FilesOf[job.agent][job.next]
         last == job.next = Len(FilesOf[job.agent])
     IN  /\ files' = [files EXCEPT ![f] = IF job.backups[f].own THEN job.backups[f] ELSE @]
         /\ job' = IF last THEN NoJob ELSE [job EXCEPT !.next = @ + 1]
         /\ record' = IF last THEN Refused(record) ELSE record
  /\ UNCHANGED <<saved, damaged, unapplied, counts>>

(* restore_backups: in order, up to the first error, which nobody hears of. *)
Restore ==
  /\ job.at = "restore"
  /\ LET a == job.agent
         f == FilesOf[a][job.next]
         last == job.next = Len(FilesOf[a])
     IN  \/ /\ files' = [files EXCEPT ![f] = job.backups[f]]
            /\ job' = IF last THEN NoJob ELSE [job EXCEPT !.next = @ + 1]
            /\ record' = IF last THEN Refused(record) ELSE record
            /\ UNCHANGED <<damaged, counts>>
         \/ /\ Fails
            /\ damaged' = damaged \cup {a}
            /\ job' = NoJob
            /\ record' = Refused(record)
            /\ UNCHANGED files
  /\ UNCHANGED <<saved, unapplied>>

(* The agent is done; a whole injection also mends what was damaged. *)
Injected ==
  /\ job.at = "written"
  /\ record' = [record EXCEPT ![job.agent].enabled = TRUE]
  /\ damaged' = damaged \ {job.agent}
  /\ unapplied' = unapplied \ {job.agent}
  /\ Inject(job.rest)
  /\ UNCHANGED <<saved, files, counts>>

(* config.save; an error leaves the memory as it is. *)
SaveRecord ==
  /\ job.at = "save"
  /\ \/ saved' = record /\ UNCHANGED counts
     \/ Fails /\ UNCHANGED saved
  /\ job' = NoJob
  /\ UNCHANGED <<record, files, damaged, unapplied>>

(* The program ends at any moment; its next start loads the configuration, *)
(* saves it with the defaults, and injects the enabled agents again.  Until*)
(* it has done so the files may be of another route than the record.       *)
RestartInjection ==
  /\ counts.starts < MaxStarts
  /\ counts' = [counts EXCEPT !.starts = @ + 1]
  /\ record' = WithDefaults(saved)
  /\ saved' = record'
  /\ damaged' = Agents
  /\ unapplied' = {}
  /\ IF Enabled(saved) = <<>> THEN job' = NoJob ELSE Inject(Enabled(saved))
  /\ UNCHANGED files

InjectionNext ==
  \/ \E a \in Agents : \/ SetEnabled(a) \/ ApplyOne(a) \/ UpdateRoute(a)
                      \/ BindCopy(a) \/ DeleteBinding(a)
  \/ ApplyEnabled \/ Reconfigure \/ RefreshBound \/ ListAgents \/ ReloadInjection
  \/ Backup \/ WriteFile \/ Restore \/ Injected \/ SaveRecord \/ RestartInjection

InjectionSpec == InjectionInit /\ [][InjectionNext]_ivars

-----------------------------------------------------------------------------
(* Whatever write fails, an agent whose files are put back together has    *)
(* them all of one route, or all as they were: never half of them, unless  *)
(* putting them back failed too or the program ended between two writes.   *)
NeverHalfInjected ==
  job = NoJob =>
    \A a \in Restores \ damaged : \A f, g \in Range(FilesOf[a]) :
      files[f].route = files[g].route

(* Between commands, the files of an enabled agent say the route that its  *)
(* record says: after any commands and failures, and again once a start    *)
(* has injected it - also when what a command did could not be saved, and  *)
(* the start goes back to the record saved before it.  Excepted are the    *)
(* agents of commands that change the record, or what it stands for,       *)
(* without injecting (BindCopy, Reconfigure, ReloadInjection), and a route *)
(* to a provider not the agent's own, or an update of its provider, that   *)
(* did not end well - each until the agent is injected again.              *)
EnabledIsInjected ==
  job = NoJob =>
    \A a \in Agents \ (damaged \cup unapplied) : record[a].enabled =>
      \A f \in Range(FilesOf[a]) : files[f].route = Context(record[a])

(* A route that an enabled agent's files could not be given is taken back  *)
(* from its record too, as the test enabled_route_update_rolls_back_when_  *)
(* apply_fails has it of update_route.  The command that calls update_route*)
(* has bound the agent to its copy before (UpdateRoute), and does not take *)
(* that back: the record says the new route, the files the old.            *)
RouteUpdateRollsBack ==
  [][job.at \in {"backup", "write", "restore"} =>
       (job.undo /\ job' = NoJob /\ job.agent \notin damaged' /\ record'[job.agent].enabled =>
          \A f \in Range(FilesOf[job.agent]) : files'[f].route = Context(record'[job.agent]))]_ivars

-----------------------------------------------------------------------------
(* What the proofs ask of the agents: there are finitely many, each has a  *)
(* file, and no file is of two of them.                                    *)
SoundAgents ==
  /\ IsFiniteSet(Agents) /\ Restores \subseteq Agents
  /\ FilesOf \in [Agents -> Seq(Files) \ {<<>>}]
  /\ \A a, b \in Agents : a # b => Range(FilesOf[a]) \cap Range(FilesOf[b]) = {}
=============================================================================

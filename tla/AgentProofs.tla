----------------------------- MODULE AgentProofs -----------------------------
(***************************************************************************)
(* Proofs about AgentInjection, for any agents with files of their own and *)
(* any routes, and about AgentFiles, for any catalogue and configurations. *)
(*                                                                         *)
(* What is promised between two commands is promised, within one, of every *)
(* agent but the one that is worked on; of that one the backups keep what  *)
(* was, for the record it had, until its last file is written.             *)
(***************************************************************************)
EXTENDS AgentInjection, AgentFiles, FiniteSetTheorems, SequenceTheorems,
        WellFoundedInduction, TLAPS

FilesIn(a) == Range(FilesOf[a])

IsRecord(x) == x = [enabled |-> x.enabled, route |-> x.route]
IsRecords(r) == r = [a \in Agents |-> r[a]] /\ \A a \in Agents : IsRecord(r[a])
IsFiles == files = [f \in Files |-> files[f]]

(* The files of an agent say one route; that of a record.                  *)
Uniform(fs, a) == \A f, g \in FilesIn(a) : fs[f].route = fs[g].route
Agrees(fs, a, r) == \A f \in FilesIn(a) : fs[f].route = Context(r)

Settled(fs, broken, un, a, r) ==
  a \notin broken => /\ a \in Restores => Uniform(fs, a)
                     /\ a \notin un /\ r.enabled => Agrees(fs, a, r)

Working == job.at \in {"backup", "write", "restore", "written"}

IsJob(j) ==
  /\ j = [at |-> j.at, agent |-> j.agent, rest |-> j.rest, previous |-> j.previous,
          undo |-> j.undo, next |-> j.next, backups |-> j.backups]
  /\ j.agent \in Agents /\ j.rest \in Seq(Agents) /\ IsRecord(j.previous)
  /\ j.next \in 1..Len(FilesOf[j.agent])

(* The files of the agent that are written, or put back, by now.           *)
Done(j) == {FilesOf[j.agent][i] : i \in 1..(j.next - 1)}

JobInv ==
  Working =>
    LET a == job.agent
    IN  /\ IsJob(job)
        /\ ~job.undo => record[a] = job.previous
        /\ job.at = "backup" => Settled(files, damaged, unapplied, a, job.previous) /\ job.next = 1
        /\ job.at \in {"write", "restore", "written"} =>
             Settled(job.backups, damaged, unapplied, a, job.previous)
        /\ job.at = "write" => \A f \in FilesIn(a) :
             IF f \in Done(job) THEN files[f].route = Context(record[a])
             ELSE files[f] = job.backups[f]
        /\ job.at = "restore" => \A f \in Done(job) : files[f] = job.backups[f]
        /\ job.at = "written" => Agrees(files, a, record[a])

InjectionInv ==
  /\ IsRecords(record) /\ IsRecords(saved) /\ IsFiles
  /\ Working \/ job.at \in {"none", "save"}
  /\ \A a \in Agents : ~Working \/ a # job.agent => Settled(files, damaged, unapplied, a, record[a])
  /\ JobInv

-----------------------------------------------------------------------------
(* Lists and records.                                                      *)

(* Some of the agents, in a list.                                          *)
LEMMA SetAsSeq ==
  ASSUME SoundAgents, NEW S \in SUBSET Agents
  PROVE  SetToSeq(S) \in Seq(Agents)
<1> DEFINE n == Cardinality(S)
<1>1. IsFiniteSet(S)
  BY FS_Subset DEF SoundAgents
<1>2. n \in Nat /\ ExistsBijection(1..n, S)
  BY <1>1, FS_CardinalityType
<1>3. PICK f \in [1..n -> S] : \A x, y \in 1..n : x # y => f[x] # f[y]
  BY <1>2 DEF ExistsBijection, Bijection, Injection, IsInjective
<1>4. SetToSeq(S) \in [1..n -> S]
  BY <1>3 DEF SetToSeq, IsInjective
<1> QED
  BY <1>2, <1>4

LEMMA EnabledAreAgents ==
  ASSUME SoundAgents, NEW r
  PROVE  Enabled(r) \in Seq(Agents)
<1>1. {a \in Agents : r[a].enabled} \in SUBSET Agents
  OBVIOUS
<1> QED
  BY <1>1, SetAsSeq DEF Enabled

(* The defaults change no context and disable nobody.                      *)
LEMMA Defaults ==
  ASSUME NEW r, IsRecords(r)
  PROVE  /\ IsRecords(WithDefaults(r))
         /\ \A a \in Agents : /\ Context(WithDefaults(r)[a]) = Context(r[a])
                              /\ WithDefaults(r)[a].enabled = r[a].enabled
<1>1. ASSUME NEW a \in Agents
      PROVE  /\ IsRecord(WithDefaults(r)[a])
             /\ Context(WithDefaults(r)[a]) = Context(r[a])
             /\ WithDefaults(r)[a].enabled = r[a].enabled
  <2> DEFINE x == r[a]
             y == [x EXCEPT !.route = DefaultRoute]
  <2>1. WithDefaults(r)[a] = IF x.enabled /\ x.route = Nothing THEN y ELSE x
    BY DEF WithDefaults
  <2>2. IsRecord(x)
    BY DEF IsRecords
  <2> HIDE DEF x
  <2>3. y = [enabled |-> x.enabled, route |-> DefaultRoute]
    BY <2>2 DEF IsRecord
  <2> HIDE DEF y
  <2> QED
    BY <2>1, <2>2, <2>3 DEF x, IsRecord, Context
<1>2. WithDefaults(r) = [a \in Agents |-> WithDefaults(r)[a]]
  BY DEF WithDefaults
<1> QED
  BY <1>1, <1>2 DEF IsRecords

(* One field of one record set.                                            *)
LEMMA SwitchSet ==
  ASSUME NEW r, IsRecords(r), NEW a \in Agents, NEW x
  PROVE  /\ IsRecords([r EXCEPT ![a].enabled = x])
         /\ [r EXCEPT ![a].enabled = x][a] = [enabled |-> x, route |-> r[a].route]
         /\ \A b \in Agents \ {a} : [r EXCEPT ![a].enabled = x][b] = r[b]
<1> DEFINE old == r[a]
           new == [old EXCEPT !.enabled = x]
           s == [r EXCEPT ![a] = new]
<1>1. s = [r EXCEPT ![a].enabled = x]
  OBVIOUS
<1>2. IsRecord(old) /\ r = [b \in Agents |-> r[b]]
  BY DEF IsRecords
<1> HIDE DEF old
<1>3. new = [enabled |-> x, route |-> old.route]
  BY <1>2 DEF IsRecord
<1> HIDE DEF new
<1>4. s = [b \in Agents |-> s[b]] /\ s[a] = new /\ \A b \in Agents \ {a} : s[b] = r[b]
  BY <1>2
<1> HIDE DEF s
<1>5. IsRecords(s)
  BY <1>3, <1>4 DEF IsRecords, IsRecord
<1> QED
  BY <1>1, <1>3, <1>4, <1>5 DEF old

LEMMA RouteSet ==
  ASSUME NEW r, IsRecords(r), NEW a \in Agents, NEW x
  PROVE  /\ IsRecords([r EXCEPT ![a].route = x])
         /\ [r EXCEPT ![a].route = x][a] = [enabled |-> r[a].enabled, route |-> x]
         /\ \A b \in Agents \ {a} : [r EXCEPT ![a].route = x][b] = r[b]
<1> DEFINE old == r[a]
           new == [old EXCEPT !.route = x]
           s == [r EXCEPT ![a] = new]
<1>1. s = [r EXCEPT ![a].route = x]
  OBVIOUS
<1>2. IsRecord(old) /\ r = [b \in Agents |-> r[b]]
  BY DEF IsRecords
<1> HIDE DEF old
<1>3. new = [enabled |-> old.enabled, route |-> x]
  BY <1>2 DEF IsRecord
<1> HIDE DEF new
<1>4. s = [b \in Agents |-> s[b]] /\ s[a] = new /\ \A b \in Agents \ {a} : s[b] = r[b]
  BY <1>2
<1> HIDE DEF s
<1>5. IsRecords(s)
  BY <1>3, <1>4 DEF IsRecords, IsRecord
<1> QED
  BY <1>1, <1>3, <1>4, <1>5 DEF old

(* What is settled depends on the context and on who is enabled.           *)
LEMMA SettledSame ==
  ASSUME NEW fs, NEW broken, NEW un, NEW a, NEW r, Settled(fs, broken, un, a, r), NEW s,
         s.enabled => r.enabled /\ Context(s) = Context(r)
  PROVE  Settled(fs, broken, un, a, s)
BY DEF Settled, Agrees

-----------------------------------------------------------------------------
(* The commands.                                                           *)

(* A job that begins, when all is settled: its agent for the record it had.*)
LEMMA JobBegins ==
  ASSUME SoundAgents, IsRecords(record)', IsRecords(saved)', IsFiles',
         NEW a \in Agents, NEW rest \in Seq(Agents), NEW previous, IsRecord(previous),
         NEW undo, ~undo => record'[a] = previous,
         job' = Job(a, rest, previous, undo),
         Settled(files, damaged, unapplied, a, previous)',
         \A b \in Agents \ {a} : Settled(files, damaged, unapplied, b, record[b])'
  PROVE  InjectionInv'
<1>1. Len(FilesOf[a]) \in Nat \ {0}
  BY DEF SoundAgents
<1>2. /\ job'.at = "backup" /\ job'.agent = a /\ job'.next = 1 /\ job'.previous = previous
      /\ job'.undo = undo /\ IsJob(job)'
  BY <1>1 DEF Job, IsJob
<1>3. JobInv'
  BY <1>2 DEF JobInv
<1> QED
  BY <1>2, <1>3 DEF InjectionInv, Working

(* No job: all is settled.                                                 *)
LEMMA NoJobLeft ==
  ASSUME IsRecords(record)', IsRecords(saved)', IsFiles', job'.at \in {"none", "save"},
         \A b \in Agents : Settled(files, damaged, unapplied, b, record[b])'
  PROVE  InjectionInv'
BY DEF InjectionInv, JobInv, Working

(* The first agent of a list, or none.                                     *)
LEMMA ListBegins ==
  ASSUME SoundAgents, IsRecords(record)', IsRecords(saved)', IsFiles',
         NEW list \in Seq(Agents), Inject(list),
         \A b \in Agents : Settled(files, damaged, unapplied, b, record[b])'
  PROVE  InjectionInv'
<1>1. CASE list = <<>>
  BY <1>1, NoJobLeft DEF Inject, Saving
<1>2. CASE list # <<>>
  <2> DEFINE a == Head(list)
  <2>1. a \in Agents /\ Tail(list) \in Seq(Agents)
    BY <1>2
  <2>2. job' = Job(a, Tail(list), record'[a], FALSE)
    BY <1>2 DEF Inject
  <2>3. IsRecord(record'[a])
    BY <2>1 DEF IsRecords
  <2> HIDE DEF a
  <2> QED
    BY <2>1, <2>2, <2>3, JobBegins
<1> QED
  BY <1>1, <1>2

(* Before a command all is settled, also for the records with defaults.    *)
LEMMA CommandBegins ==
  ASSUME InjectionInv, Command
  PROVE  /\ IsRecords(record) /\ IsRecords(WithDefaults(record))
         /\ IsRecords(saved)' /\ IsFiles' /\ files' = files /\ damaged' = damaged
         /\ \A b \in Agents : /\ Settled(files, damaged, unapplied, b, record[b])
                              /\ Settled(files, damaged, unapplied, b, WithDefaults(record)[b])
<1>1. ~Working /\ IsRecords(record) /\ IsRecords(saved)' /\ IsFiles' /\ files' = files
      /\ damaged' = damaged
  BY DEF Command, InjectionInv, Working, NoJob, IsFiles
<1>2. \A b \in Agents : Settled(files, damaged, unapplied, b, record[b])
  BY <1>1 DEF InjectionInv
<1>3. \A b \in Agents : Settled(files, damaged, unapplied, b, WithDefaults(record)[b])
  BY <1>1, <1>2, Defaults, SettledSame
<1> QED
  BY <1>1, <1>2, <1>3, Defaults

(* Between two jobs a record stays settled, with the defaults and without, *)
(* that is of one the agent had, or disabled, or noted as unapplied.       *)
LEMMA StillSettled ==
  ASSUME InjectionInv, ~Working, files' = files, damaged' = damaged,
         \A b \in Agents : b \in unapplied => b \in unapplied',
         NEW r, IsRecords(r),
         \A b \in Agents : \/ b \in unapplied' \/ ~r[b].enabled
                           \/ record[b].enabled /\ Context(r[b]) = Context(record[b])
  PROVE  /\ IsRecords(WithDefaults(r)) /\ IsFiles'
         /\ \A b \in Agents : /\ Settled(files', damaged', unapplied', b, r[b])
                              /\ Settled(files', damaged', unapplied', b, WithDefaults(r)[b])
<1>1. \A b \in Agents : Settled(files, damaged, unapplied, b, record[b])
  BY DEF InjectionInv
<1>2. ASSUME NEW b \in Agents PROVE Settled(files', damaged', unapplied', b, r[b])
  BY <1>1 DEF Settled, Agrees
<1>3. IsFiles'
  BY DEF InjectionInv, IsFiles
<1>4. \A b \in Agents : Settled(files', damaged', unapplied', b, WithDefaults(r)[b])
  BY <1>2, Defaults, SettledSame
<1> QED
  BY <1>2, <1>3, <1>4, Defaults

(* apply_enabled                                                           *)
LEMMA ApplyEnabledStep ==
  ASSUME SoundAgents, InjectionInv, ApplyEnabled
  PROVE  InjectionInv'
<1>1. Command /\ record' = WithDefaults(record) /\ Inject(Enabled(record')) /\ unapplied' = unapplied
  BY DEF ApplyEnabled
<1>2. /\ IsRecords(record)' /\ IsRecords(saved)' /\ IsFiles'
      /\ \A b \in Agents : Settled(files, damaged, unapplied, b, record[b])'
  BY <1>1, CommandBegins
<1>3. Enabled(record') \in Seq(Agents)
  BY EnabledAreAgents
<1> QED
  BY <1>1, <1>2, <1>3, ListBegins

(* set_enabled, apply_one_by_id                                            *)
LEMMA CommandSteps ==
  ASSUME SoundAgents, InjectionInv, NEW a \in Agents,
         SetEnabled(a) \/ ApplyOne(a)
  PROVE  InjectionInv'
<1> DEFINE with == WithDefaults(record)
<1>0. Command
  BY DEF SetEnabled, ApplyOne
<1>1. /\ IsRecords(with) /\ IsRecords(saved)' /\ IsFiles' /\ files' = files /\ damaged' = damaged
      /\ unapplied' = unapplied
      /\ \A b \in Agents : Settled(files, damaged, unapplied, b, with[b])
  BY <1>0, CommandBegins DEF SetEnabled, ApplyOne
<1>2. <<>> \in Seq(Agents) /\ IsRecord(with[a])
  BY <1>1 DEF IsRecords
<1> HIDE DEF with
<1>3. ASSUME NEW r, IsRecords(r), \A b \in Agents \ {a} : r[b] = with[b],
             record' = WithDefaults(r) \/ record' = r
      PROVE  /\ IsRecords(record)'
             /\ \A b \in Agents \ {a} : Settled(files, damaged, unapplied, b, record[b])'
             /\ Settled(files, damaged, unapplied, a, r[a]) => Settled(files, damaged, unapplied, a, record[a])'
  <2>1. IsRecords(record') /\ \A b \in Agents : /\ Context(record'[b]) = Context(r[b])
                                                /\ record'[b].enabled = r[b].enabled
    BY <1>3, Defaults
  <2>2. \A b \in Agents : Settled(files, damaged, unapplied, b, r[b]) => Settled(files', damaged', unapplied', b, record'[b])
    BY <1>1, <2>1, SettledSame
  <2>3. \A b \in Agents \ {a} : Settled(files', damaged', unapplied', b, record'[b])
    BY <1>1, <1>3, <2>2
  <2> QED
    BY <2>1, <2>2, <2>3
<1>4. CASE SetEnabled(a)
  <2> DEFINE yes == TRUE
             no == FALSE
             on == [with EXCEPT ![a].enabled = yes]
             off == [with EXCEPT ![a].enabled = no]
  <2>3. \/ record' = WithDefaults(on) /\ job' = Job(a, <<>>, with[a], TRUE)
        \/ record' = off /\ job' = Saving
    BY <1>4 DEF SetEnabled, with
  <2> HIDE DEF yes, no
  <2>1. CASE record' = WithDefaults(on) /\ job' = Job(a, <<>>, with[a], TRUE)
    <3>1. /\ IsRecords(on) /\ \A b \in Agents \ {a} : on[b] = with[b]
          /\ on[a] = [enabled |-> yes, route |-> with[a].route]
      BY <1>1, SwitchSet
    <3> HIDE DEF on
    <3>2. /\ IsRecords(record)'
          /\ \A b \in Agents \ {a} : Settled(files, damaged, unapplied, b, record[b])'
      BY <1>3, <2>1, <3>1
    <3>3. Settled(files', damaged', unapplied', a, with[a])
      BY <1>1
    <3> QED
      BY <1>1, <1>2, <2>1, <3>2, <3>3, JobBegins
  <2>2. CASE record' = off /\ job' = Saving
    <3>1. /\ IsRecords(off) /\ \A b \in Agents \ {a} : off[b] = with[b]
          /\ off[a] = [enabled |-> no, route |-> with[a].route]
      BY <1>1, SwitchSet
    <3> HIDE DEF off
    <3>2. Settled(files, damaged, unapplied, a, off[a])
      BY <1>1, <3>1 DEF Settled, no
    <3>3. /\ IsRecords(record)'
          /\ \A b \in Agents : Settled(files, damaged, unapplied, b, record[b])'
      BY <1>3, <2>2, <3>1, <3>2
    <3> QED
      BY <1>1, <2>2, <3>3, NoJobLeft DEF Saving
  <2> QED
    BY <2>1, <2>2, <2>3
<1>5. CASE ApplyOne(a)
  <2>1. record' = with /\ job' = Job(a, <<>>, record'[a], FALSE)
    BY <1>5 DEF ApplyOne, with
  <2>2. /\ IsRecords(record)'
        /\ \A b \in Agents : Settled(files, damaged, unapplied, b, record[b])'
    BY <1>1, <2>1
  <2> QED
    BY <1>1, <1>2, <2>1, <2>2, JobBegins
<1> QED
  BY <1>4, <1>5

(* update_agent_injection_route                                            *)
LEMMA UpdateRouteStep ==
  ASSUME SoundAgents, InjectionInv, NEW a \in Agents, UpdateRoute(a)
  PROVE  InjectionInv'
<1>1. PICK route \in Routes \cup {Nothing}, foreign \in BOOLEAN, known \in BOOLEAN :
        LET with == WithDefaults(IF foreign THEN [record EXCEPT ![a].route = route] ELSE record)
        IN  /\ unapplied' = IF foreign THEN unapplied \cup {a} ELSE unapplied
            /\ record' = IF known THEN WithDefaults([with EXCEPT ![a].route = route]) ELSE with
            /\ job' = CASE ~known -> NoJob
                        [] known /\ with[a].enabled -> Job(a, <<>>, with[a], TRUE)
                        [] OTHER -> Saving
  BY DEF UpdateRoute
<1> DEFINE bound == IF foreign THEN [record EXCEPT ![a].route = route] ELSE record
           with == WithDefaults(bound)
           to == [with EXCEPT ![a].route = route]
<1>2. /\ unapplied' = IF foreign THEN unapplied \cup {a} ELSE unapplied
      /\ record' = IF known THEN WithDefaults(to) ELSE with
      /\ ~known => job' = NoJob
      /\ known /\ with[a].enabled => job' = Job(a, <<>>, with[a], TRUE)
      /\ known /\ ~with[a].enabled => job' = Saving
  BY <1>1
<1>3. /\ IsRecords(record) /\ IsRecords(saved)' /\ files' = files /\ damaged' = damaged /\ ~Working
  BY CommandBegins DEF UpdateRoute, Command, NoJob, Working
<1>4. IsRecords(bound) /\ \A b \in Agents \ {a} : bound[b] = record[b]
  <2> DEFINE r == [record EXCEPT ![a].route = route]
  <2>1. /\ IsRecords(r) /\ r[a] = [enabled |-> record[a].enabled, route |-> route]
        /\ \A b \in Agents \ {a} : r[b] = record[b]
    BY <1>3, RouteSet
  <2>2. bound = r \/ bound = record
    OBVIOUS
  <2> HIDE DEF r, bound
  <2> QED
    BY <1>3, <2>1, <2>2
<1>5. foreign \/ bound = record
  OBVIOUS
<1> HIDE DEF bound
<1>6. /\ IsRecords(with) /\ IsFiles'
      /\ \A b \in Agents : Settled(files', damaged', unapplied', b, with[b])
  <2>1. (\A b \in Agents : b \in unapplied => b \in unapplied') /\ (a \in unapplied' \/ bound = record)
    BY <1>2, <1>5
  <2> QED
    BY <1>3, <1>4, <2>1, StillSettled
<1> HIDE DEF with
<1>7. /\ IsRecords(to) /\ \A b \in Agents \ {a} : to[b] = with[b]
      /\ to[a] = [enabled |-> with[a].enabled, route |-> route]
  BY <1>6, RouteSet
<1> HIDE DEF to
<1>8. /\ IsRecords(WithDefaults(to))
      /\ \A b \in Agents \ {a} : Settled(files', damaged', unapplied', b, WithDefaults(to)[b])
      /\ ~with[a].enabled => Settled(files', damaged', unapplied', a, WithDefaults(to)[a])
  <2>1. IsRecords(WithDefaults(to)) /\ \A b \in Agents : /\ Context(WithDefaults(to)[b]) = Context(to[b])
                                                         /\ WithDefaults(to)[b].enabled = to[b].enabled
    BY <1>7, Defaults
  <2>2. \A b \in Agents \ {a} : Settled(files', damaged', unapplied', b, WithDefaults(to)[b])
    BY <1>6, <1>7, <2>1, SettledSame
  <2>3. ~with[a].enabled => ~WithDefaults(to)[a].enabled
    BY <1>7, <2>1
  <2> QED
    BY <1>6, <2>1, <2>2, <2>3 DEF Settled
<1>9. CASE ~known
  <2>1. record' = with /\ job'.at = "none"
    BY <1>2, <1>9 DEF NoJob
  <2>2. IsRecords(record') /\ \A b \in Agents : Settled(files', damaged', unapplied', b, record'[b])
    BY <1>6, <2>1
  <2> QED
    BY <1>3, <1>6, <2>1, <2>2, NoJobLeft
<1>10. CASE known /\ with[a].enabled
  <2>1. IsRecord(with[a]) /\ <<>> \in Seq(Agents)
    BY <1>6 DEF IsRecords
  <2> QED
    BY <1>2, <1>3, <1>6, <1>8, <1>10, <2>1, JobBegins
<1>11. CASE known /\ ~with[a].enabled
  <2>1. job' = Saving /\ record' = WithDefaults(to)
    BY <1>2, <1>11
  <2>2. \A b \in Agents : Settled(files', damaged', unapplied', b, record'[b])
    BY <1>8, <1>11, <2>1
  <2> QED
    BY <1>3, <1>6, <1>8, <2>1, <2>2, NoJobLeft DEF Saving
<1> QED
  BY <1>9, <1>10, <1>11

(* The commands that inject nobody: clone_provider_for_agent,              *)
(* delete_provider, save_config and its like, get_agent_injections,        *)
(* reload_config.                                                          *)
LEMMA UnappliedStep ==
  ASSUME SoundAgents, InjectionInv,
         \/ \E a \in Agents : BindCopy(a) \/ DeleteBinding(a)
         \/ Reconfigure \/ ListAgents \/ ReloadInjection
  PROVE  InjectionInv'
<1>1. IsRecords(record) /\ IsRecords(saved)
  BY DEF InjectionInv
<1>2. /\ files' = files /\ damaged' = damaged /\ ~Working /\ job'.at \in {"none", "save"}
      /\ \A b \in Agents : b \in unapplied => b \in unapplied'
  BY DEF BindCopy, DeleteBinding, Reconfigure, ListAgents, ReloadInjection, Command,
         NoJob, Saving, Working
<1>3. ASSUME NEW r, IsRecords(r), record' = r \/ record' = WithDefaults(r),
             saved' = saved \/ saved' = record',
             \A b \in Agents : \/ b \in unapplied' \/ ~r[b].enabled
                               \/ record[b].enabled /\ Context(r[b]) = Context(record[b])
      PROVE  InjectionInv'
  <2>1. /\ IsRecords(record') /\ IsFiles'
        /\ \A b \in Agents : Settled(files', damaged', unapplied', b, record'[b])
    BY <1>2, <1>3, StillSettled
  <2>2. IsRecords(saved')
    BY <1>1, <1>3, <2>1
  <2> QED
    BY <1>2, <2>1, <2>2, NoJobLeft
<1>4. ASSUME NEW a \in Agents, BindCopy(a) PROVE InjectionInv'
  <2>1. PICK route : record' = [record EXCEPT ![a].route = route]
    BY <1>4 DEF BindCopy
  <2>2. saved' = saved /\ unapplied' = unapplied \cup {a}
    BY <1>4 DEF BindCopy, Command
  <2> DEFINE r == [record EXCEPT ![a].route = route]
  <2>3. /\ IsRecords(r) /\ r[a] = [enabled |-> record[a].enabled, route |-> route]
        /\ \A b \in Agents \ {a} : r[b] = record[b]
    BY <1>1, <1>4, RouteSet
  <2>4. record' = r
    BY <2>1
  <2> HIDE DEF r
  <2> QED
    BY <1>3, <2>2, <2>3, <2>4
<1>5. ASSUME NEW a \in Agents, DeleteBinding(a) PROVE InjectionInv'
  <2> DEFINE off == [enabled |-> FALSE, route |-> Nothing]
             r == [record EXCEPT ![a] = off]
  <2>1. record' = r /\ saved' = saved
    BY <1>5 DEF DeleteBinding, Command
  <2>2. IsRecord(off) /\ ~off.enabled
    BY DEF IsRecord
  <2> HIDE DEF off
  <2>3. r[a] = off /\ (\A b \in Agents \ {a} : r[b] = record[b]) /\ r = [b \in Agents |-> r[b]]
    BY <1>1 DEF IsRecords
  <2> HIDE DEF r
  <2>4. IsRecords(r)
    BY <1>1, <2>2, <2>3 DEF IsRecords
  <2> QED
    BY <1>3, <2>1, <2>2, <2>3, <2>4
<1>6. CASE Reconfigure
  BY <1>1, <1>3, <1>6 DEF Reconfigure, Command
<1>7. CASE ListAgents
  BY <1>1, <1>3, <1>7 DEF ListAgents, Command
<1>8. CASE ReloadInjection
  <2>1. record' = WithDefaults(saved) /\ saved' = record'
        /\ unapplied' = unapplied \cup {a \in Agents : record'[a] # record[a]}
    BY <1>8 DEF ReloadInjection
  <2>2. IsRecords(WithDefaults(saved))
    BY <1>1, Defaults
  <2> QED
    BY <1>3, <2>1, <2>2
<1> QED
  BY <1>4, <1>5, <1>6, <1>7, <1>8

(* add_or_update_provider, add_or_update_model                             *)
LEMMA RefreshBoundStep ==
  ASSUME SoundAgents, InjectionInv, RefreshBound
  PROVE  InjectionInv'
<1>1. PICK bound \in SUBSET {a \in Agents : record[a].enabled /\ record[a].route # Nothing} :
        /\ record' = IF bound = {} THEN record ELSE WithDefaults(record)
        /\ unapplied' = unapplied \cup bound \cup {a \in Agents : record[a].route = Nothing}
        /\ Inject(SetToSeq(bound))
  BY DEF RefreshBound
<1>2. /\ IsRecords(record) /\ IsRecords(saved)' /\ files' = files /\ damaged' = damaged /\ ~Working
  BY CommandBegins DEF RefreshBound, Command, NoJob, Working
<1>3. /\ IsRecords(record)' /\ IsFiles'
      /\ \A b \in Agents : Settled(files, damaged, unapplied, b, record[b])'
  <2>1. \A b \in Agents : b \in unapplied => b \in unapplied'
    BY <1>1
  <2> QED
    BY <1>1, <1>2, <2>1, StillSettled
<1>4. SetToSeq(bound) \in Seq(Agents)
  BY <1>1, SetAsSeq
<1> QED
  BY <1>1, <1>2, <1>3, <1>4, ListBegins

-----------------------------------------------------------------------------
(* The steps of a job.                                                     *)

(* The record of the agent that was refused is the one it had.             *)
LEMMA RefusedIsPrevious ==
  ASSUME InjectionInv, Working
  PROVE  /\ IsRecords(Refused(record)) /\ Refused(record)[job.agent] = job.previous
         /\ \A b \in Agents \ {job.agent} : Refused(record)[b] = record[b]
<1>1. /\ job.agent \in Agents /\ IsRecord(job.previous)
      /\ IsRecords(record) /\ (~job.undo => record[job.agent] = job.previous)
  BY DEF InjectionInv, JobInv, IsJob
<1>2. CASE job.undo
  BY <1>1, <1>2 DEF Refused, IsRecords
<1>3. CASE ~job.undo
  BY <1>1, <1>3 DEF Refused
<1> QED
  BY <1>2, <1>3

(* A file of one agent is of no other.                                     *)
LEMMA FilesApart ==
  ASSUME SoundAgents, NEW a \in Agents, NEW b \in Agents \ {a}, NEW f \in FilesIn(a)
  PROVE  f \notin FilesIn(b) /\ f \in Files
BY DEF SoundAgents, FilesIn, Files

(* What is done to a file of one agent unsettles no other.                 *)
LEMMA OthersSettled ==
  ASSUME SoundAgents, NEW a \in Agents, NEW f \in FilesIn(a), NEW v, NEW fs, NEW broken, NEW un, NEW r,
         fs = [g \in Files |-> fs[g]], NEW b \in Agents \ {a}, Settled(fs, broken, un, b, r),
         NEW more, more \ {a} = broken \ {a}
  PROVE  Settled([fs EXCEPT ![f] = v], more, un, b, r)
<1>1. \A g \in FilesIn(b) : g # f /\ g \in Files
  BY FilesApart DEF FilesIn, Files
<1>2. \A g \in FilesIn(b) : [fs EXCEPT ![f] = v][g] = fs[g]
  BY <1>1
<1>3. b \in more <=> b \in broken
  OBVIOUS
<1> QED
  BY <1>2, <1>3 DEF Settled, Uniform, Agrees

(* A job of an agent, taken apart.                                         *)
LEMMA JobOf ==
  ASSUME SoundAgents, InjectionInv, Working
  PROVE  /\ job.agent \in Agents /\ IsJob(job) /\ IsRecord(job.previous)
         /\ \A b \in Agents \ {job.agent} : Settled(files, damaged, unapplied, b, record[b])
         /\ Len(FilesOf[job.agent]) \in Nat /\ job.next \in 1..Len(FilesOf[job.agent])
         /\ FilesIn(job.agent) = {FilesOf[job.agent][i] : i \in 1..Len(FilesOf[job.agent])}
         /\ FilesOf[job.agent][job.next] \in FilesIn(job.agent)
<1>1. /\ job.agent \in Agents /\ IsJob(job) /\ IsRecord(job.previous)
      /\ \A b \in Agents \ {job.agent} : Settled(files, damaged, unapplied, b, record[b])
      /\ job.next \in 1..Len(FilesOf[job.agent])
  BY DEF InjectionInv, JobInv, IsJob
<1>2. FilesOf[job.agent] \in Seq(Files)
  BY <1>1 DEF SoundAgents
<1>3. /\ Len(FilesOf[job.agent]) \in Nat
      /\ FilesIn(job.agent) = {FilesOf[job.agent][i] : i \in 1..Len(FilesOf[job.agent])}
  BY <1>2 DEF FilesIn, Range
<1> QED
  BY <1>1, <1>3

(* A job that ends in an error leaves the record and the files as they     *)
(* were, or the agent noted as damaged.                                    *)
LEMMA JobRefused ==
  ASSUME SoundAgents, InjectionInv, Working, UNCHANGED saved, IsFiles',
         record' = Refused(record), job' = NoJob,
         Settled(files', damaged', unapplied', job.agent, job.previous),
         \A b \in Agents \ {job.agent} : Settled(files', damaged', unapplied', b, record[b])
  PROVE  InjectionInv'
<1>1. IsRecords(record)' /\ \A b \in Agents : Settled(files', damaged', unapplied', b, record'[b])
  BY RefusedIsPrevious
<1>2. IsRecords(saved)' /\ job'.at = "none"
  BY DEF InjectionInv, NoJob
<1> QED
  BY <1>1, <1>2, NoJobLeft

(* backup_file                                                             *)
LEMMA BackupStep ==
  ASSUME SoundAgents, InjectionInv, Backup
  PROVE  InjectionInv'
<1> DEFINE a == job.agent
<1>1. Working /\ UNCHANGED <<saved, files, damaged, unapplied>> /\ job.at = "backup"
  BY DEF Backup, Working
<1>2. /\ job.agent \in Agents /\ IsJob(job) /\ IsRecord(job.previous)
      /\ \A b \in Agents \ {job.agent} : Settled(files, damaged, unapplied, b, record[b])
      /\ Settled(files, damaged, unapplied, job.agent, job.previous) /\ job.next = 1
  BY <1>1, JobOf DEF InjectionInv, JobInv
<1>3. CASE record' = Refused(record) /\ job' = NoJob
  <2>1. IsFiles'
    BY <1>1 DEF InjectionInv, IsFiles
  <2> QED
    BY <1>1, <1>2, <1>3, <2>1, JobRefused
<1>4. CASE /\ UNCHANGED record
           /\ job' = [job EXCEPT !.at = "write",
                                 !.backups = [f \in Range(FilesOf[job.agent]) |-> files[f]]]
  <2> DEFINE backups == [f \in FilesIn(job.agent) |-> files[f]]
             j == [job EXCEPT !.at = "write"]
  <2>1. job' = [j EXCEPT !.backups = backups]
    BY <1>4 DEF FilesIn
  <2>2. \A f \in FilesIn(job.agent) : backups[f] = files[f]
    OBVIOUS
  <2> HIDE DEF backups
  <2>3. j = [at |-> "write", agent |-> job.agent, rest |-> job.rest, previous |-> job.previous,
             undo |-> job.undo, next |-> job.next, backups |-> job.backups]
    BY <1>2 DEF IsJob
  <2> HIDE DEF j
  <2>4. job' = [at |-> "write", agent |-> job.agent, rest |-> job.rest, previous |-> job.previous,
                undo |-> job.undo, next |-> job.next, backups |-> backups]
    BY <2>1, <2>3
  <2>5. IsJob(job') /\ Done(job') = {}
    BY <1>2, <2>4 DEF IsJob, Done
  <2>6. Settled(backups, damaged, unapplied, job.agent, job.previous)
    BY <1>2, <2>2 DEF Settled, Uniform, Agrees
  <2>7. JobInv'
    <3>1. /\ job'.agent = job.agent /\ job'.at = "write" /\ job'.backups = backups
          /\ job'.previous = job.previous /\ job'.undo = job.undo
      BY <2>4
    <3>2. ~job'.undo => record'[job'.agent] = job'.previous
      BY <1>1, <1>4, <3>1 DEF InjectionInv, JobInv
    <3>3. Settled(job'.backups, damaged', unapplied', job'.agent, job'.previous)
      BY <1>1, <2>6, <3>1
    <3>4. \A f \in FilesIn(job'.agent) : f \notin Done(job') /\ files'[f] = job'.backups[f]
      BY <1>1, <2>2, <2>5, <3>1
    <3> QED
      BY <2>5, <3>1, <3>2, <3>3, <3>4 DEF JobInv
  <2> QED
    BY <1>1, <1>2, <1>4, <2>4, <2>7 DEF InjectionInv, IsFiles, Working
<1> QED
  BY <1>3, <1>4 DEF Backup

(* A file written: either the next of the agent's, or with an error.       *)
LEMMA WriteStep ==
  ASSUME SoundAgents, InjectionInv, WriteFile
  PROVE  InjectionInv'
<1> DEFINE n == Len(FilesOf[job.agent])
           f == FilesOf[job.agent][job.next]
<1>1. Working /\ saved' = saved /\ unapplied' = unapplied /\ job.at = "write"
  BY DEF WriteFile, Working
<1>2. /\ job.agent \in Agents /\ IsJob(job) /\ IsRecord(job.previous)
      /\ \A b \in Agents \ {job.agent} : Settled(files, damaged, unapplied, b, record[b])
      /\ n \in Nat /\ job.next \in 1..n /\ f \in FilesIn(job.agent)
      /\ FilesIn(job.agent) = {FilesOf[job.agent][i] : i \in 1..n}
  BY <1>1, JobOf
<1>3. /\ Settled(job.backups, damaged, unapplied, job.agent, job.previous)
      /\ ~job.undo => record[job.agent] = job.previous
      /\ \A g \in FilesIn(job.agent) :
           IF g \in Done(job) THEN files[g].route = Context(record[job.agent])
           ELSE files[g] = job.backups[g]
  BY <1>1 DEF InjectionInv, JobInv
<1>4. files = [g \in Files |-> files[g]] /\ f \in Files /\ IsRecords(record) /\ IsRecords(saved)
  BY <1>2 DEF InjectionInv, IsFiles, FilesIn, Files
<1>5. CASE /\ files' = [files EXCEPT ![f] = [own |-> @.own, route |-> Context(record[job.agent])]]
           /\ job' = [job EXCEPT !.at = IF job.next = n THEN "written" ELSE "write",
                                 !.next = IF job.next = n THEN 1 ELSE @ + 1]
           /\ UNCHANGED <<record, damaged>>
  <2> DEFINE to == Context(record[job.agent])
             v == [own |-> files[f].own, route |-> to]
             at == IF job.next = n THEN "written" ELSE "write"
             next == IF job.next = n THEN 1 ELSE job.next + 1
             j == [job EXCEPT !.at = at]
  <2>1. files' = [files EXCEPT ![f] = v] /\ job' = [j EXCEPT !.next = next]
    BY <1>5
  <2>2. /\ next \in 1..n /\ (job.next = n => at = "written")
        /\ (job.next # n => at = "write" /\ next = job.next + 1)
    BY <1>2
  <2> HIDE DEF at, next
  <2>3. j = [at |-> at, agent |-> job.agent, rest |-> job.rest, previous |-> job.previous,
             undo |-> job.undo, next |-> job.next, backups |-> job.backups]
    BY <1>2 DEF IsJob
  <2> HIDE DEF j
  <2>4. job' = [at |-> at, agent |-> job.agent, rest |-> job.rest, previous |-> job.previous,
                undo |-> job.undo, next |-> next, backups |-> job.backups]
    BY <2>1, <2>3
  <2>5. IsJob(job')
    BY <1>2, <2>2, <2>4 DEF IsJob
  <2>6. \A b \in Agents \ {job.agent} : Settled(files', damaged', unapplied', b, record'[b])
    <3>1. \A b \in Agents \ {job.agent} : Settled([files EXCEPT ![f] = v], damaged, unapplied, b, record[b])
      BY <1>2, <1>4, OthersSettled
    <3> QED
      BY <1>1, <1>5, <2>1, <3>1
  <2>7. /\ files'[f].route = to
        /\ \A g \in FilesIn(job.agent) \ {f} : files'[g] = files[g]
        /\ files' = [g \in Files |-> files'[g]]
    <3>1. v.route = to
      OBVIOUS
    <3> HIDE DEF v, f
    <3>2. files'[f] = v /\ files' = [g \in Files |-> files'[g]]
      BY <1>4, <2>1
    <3>3. \A g \in FilesIn(job.agent) \ {f} : files'[g] = files[g]
      BY <1>2, <1>4, <2>1 DEF FilesIn, Files
    <3> QED
      BY <3>1, <3>2, <3>3
  <2>8. \A g \in FilesIn(job.agent) : IF g \in Done(job) \cup {f} THEN files'[g].route = to
                                     ELSE files'[g] = job.backups[g]
    BY <1>3, <2>7
  <2>9. CASE job.next = n
    <3>1. Done(job) \cup {f} = FilesIn(job.agent)
      BY <1>2, <2>9 DEF Done
    <3>2. Agrees(files', job'.agent, record'[job'.agent])
      BY <1>5, <2>4, <2>8, <3>1 DEF Agrees
    <3>3. /\ job'.at = "written" /\ job'.agent = job.agent /\ job'.undo = job.undo
          /\ job'.previous = job.previous /\ job'.backups = job.backups
      BY <2>2, <2>4, <2>9
    <3>4. Settled(job'.backups, damaged', unapplied', job'.agent, job'.previous)
      BY <1>1, <1>3, <1>5, <3>3
    <3>5. JobInv'
      BY <1>3, <1>5, <2>5, <3>2, <3>3, <3>4 DEF JobInv
    <3>a. record' = record /\ saved' = saved
      BY <1>1, <1>5
    <3>b. IsFiles'
      BY <2>7 DEF IsFiles
    <3>6. IsRecords(record)' /\ IsRecords(saved)' /\ IsFiles'
      BY <1>4, <3>a, <3>b
    <3>7. \A b \in Agents \ {job'.agent} : Settled(files', damaged', unapplied', b, record'[b])
      BY <2>6, <3>3
    <3> QED
      BY <3>3, <3>5, <3>6, <3>7 DEF InjectionInv, Working
  <2>10. CASE job.next # n
    <3>1. Done(job') = Done(job) \cup {f}
      BY <1>2, <2>2, <2>4, <2>10 DEF Done
    <3>2. \A g \in FilesIn(job'.agent) :
            IF g \in Done(job') THEN files'[g].route = Context(record'[job'.agent])
            ELSE files'[g] = job'.backups[g]
      BY <1>5, <2>4, <2>8, <3>1
    <3>3. /\ job'.at = "write" /\ job'.agent = job.agent /\ job'.undo = job.undo
          /\ job'.previous = job.previous /\ job'.backups = job.backups
      BY <2>2, <2>4, <2>10
    <3>4. Settled(job'.backups, damaged', unapplied', job'.agent, job'.previous)
      BY <1>1, <1>3, <1>5, <3>3
    <3>5. JobInv'
      BY <1>3, <1>5, <2>5, <3>2, <3>3, <3>4 DEF JobInv
    <3>a. record' = record /\ saved' = saved
      BY <1>1, <1>5
    <3>b. IsFiles'
      BY <2>7 DEF IsFiles
    <3>6. IsRecords(record)' /\ IsRecords(saved)' /\ IsFiles'
      BY <1>4, <3>a, <3>b
    <3>7. \A b \in Agents \ {job'.agent} : Settled(files', damaged', unapplied', b, record'[b])
      BY <2>6, <3>3
    <3> QED
      BY <3>3, <3>5, <3>6, <3>7 DEF InjectionInv, Working
  <2> QED
    BY <2>9, <2>10
<1>6. CASE \E lost \in BOOLEAN :
          /\ files' = AfterFailure(f, lost)
          /\ damaged' = IF job.agent \notin Restores /\ (lost \/ job.next > 1)
                        THEN damaged \cup {job.agent} ELSE damaged
          /\ IF job.agent \in Restores
             THEN job' = [job EXCEPT !.at = "restore", !.next = 1] /\ UNCHANGED record
             ELSE job' = NoJob /\ record' = Refused(record)
  <2>1. PICK lost \in BOOLEAN :
          /\ files' = AfterFailure(f, lost)
          /\ damaged' = IF job.agent \notin Restores /\ (lost \/ job.next > 1)
                        THEN damaged \cup {job.agent} ELSE damaged
          /\ IF job.agent \in Restores
             THEN job' = [job EXCEPT !.at = "restore", !.next = 1] /\ UNCHANGED record
             ELSE job' = NoJob /\ record' = Refused(record)
    BY <1>6
  <2>2. /\ IsFiles' /\ (~lost => files' = files)
        /\ \A b \in Agents \ {job.agent} : Settled(files', damaged', unapplied', b, record[b])
    <3> DEFINE v == [own |-> FALSE, route |-> Nothing]
    <3>1. damaged' \ {job.agent} = damaged \ {job.agent}
      BY <2>1
    <3>2. files' = IF lost THEN [files EXCEPT ![f] = v] ELSE files
      BY <2>1 DEF AfterFailure
    <3> HIDE DEF v
    <3>3. \A b \in Agents \ {job.agent} : /\ Settled([files EXCEPT ![f] = v], damaged', unapplied, b, record[b])
                                          /\ Settled(files, damaged', unapplied, b, record[b])
      BY <1>2, <1>4, <3>1, OthersSettled DEF Settled
    <3> QED
      BY <1>1, <1>4, <3>2, <3>3 DEF IsFiles
  <2>3. CASE job.agent \in Restores
    <3> DEFINE j == [job EXCEPT !.at = "restore"]
    <3>1. job' = [j EXCEPT !.next = 1]
      BY <2>1, <2>3
    <3>2. j = [at |-> "restore", agent |-> job.agent, rest |-> job.rest, previous |-> job.previous,
               undo |-> job.undo, next |-> job.next, backups |-> job.backups]
      BY <1>2 DEF IsJob
    <3> HIDE DEF j
    <3>3. job' = [at |-> "restore", agent |-> job.agent, rest |-> job.rest, previous |-> job.previous,
                  undo |-> job.undo, next |-> 1, backups |-> job.backups]
      BY <3>1, <3>2
    <3>4. IsJob(job') /\ Done(job') = {}
      BY <1>2, <3>3 DEF IsJob, Done
    <3>5. damaged' = damaged /\ record' = record
      BY <2>1, <2>3
    <3> QED
      BY <1>1, <1>2, <1>3, <1>4, <2>2, <3>3, <3>4, <3>5 DEF InjectionInv, JobInv, Working
  <2>4. CASE job.agent \notin Restores
    <3>1. job' = NoJob /\ record' = Refused(record)
      BY <2>1, <2>4
    <3>2. Settled(files', damaged', unapplied', job.agent, job.previous)
      <4>1. CASE lost \/ job.next > 1
        BY <2>1, <2>4, <4>1 DEF Settled
      <4>2. CASE ~lost /\ job.next = 1
        <5>1. Done(job) = {}
          BY <4>2 DEF Done
        <5>2. \A g \in FilesIn(job.agent) : files'[g] = job.backups[g]
          BY <1>3, <2>2, <4>2, <5>1
        <5>3. damaged' = damaged
          BY <2>1, <4>2
        <5> QED
          BY <1>1, <1>3, <5>2, <5>3 DEF Settled, Uniform, Agrees
      <4> QED
        BY <1>2, <4>1, <4>2
    <3> QED
      BY <1>1, <2>2, <3>1, <3>2, JobRefused
  <2> QED
    BY <2>3, <2>4
<1> QED
  <2>1. \/ /\ files' = [files EXCEPT ![f] = [own |-> @.own, route |-> Context(record[job.agent])]]
           /\ job' = [job EXCEPT !.at = IF job.next = n THEN "written" ELSE "write",
                                 !.next = IF job.next = n THEN 1 ELSE @ + 1]
           /\ UNCHANGED <<record, damaged>>
        \/ /\ \E gone \in BOOLEAN :
                /\ files' = AfterFailure(f, gone)
                /\ damaged' = IF job.agent \notin Restores /\ (gone \/ job.next > 1)
                              THEN damaged \cup {job.agent} ELSE damaged
           /\ IF job.agent \in Restores
              THEN job' = [job EXCEPT !.at = "restore", !.next = 1] /\ UNCHANGED record
              ELSE job' = NoJob /\ record' = Refused(record)
    BY DEF WriteFile
  <2> QED
    BY <1>5, <1>6, <2>1

(* A file put back from its backup; with the last one the job is over.     *)
LEMMA RestoreStep ==
  ASSUME SoundAgents, InjectionInv, Restore
  PROVE  InjectionInv'
<1> DEFINE n == Len(FilesOf[job.agent])
           f == FilesOf[job.agent][job.next]
<1>1. Working /\ saved' = saved /\ unapplied' = unapplied /\ job.at = "restore"
  BY DEF Restore, Working
<1>2. /\ job.agent \in Agents /\ IsJob(job) /\ IsRecord(job.previous)
      /\ \A b \in Agents \ {job.agent} : Settled(files, damaged, unapplied, b, record[b])
      /\ n \in Nat /\ job.next \in 1..n /\ f \in FilesIn(job.agent)
      /\ FilesIn(job.agent) = {FilesOf[job.agent][i] : i \in 1..n}
  BY <1>1, JobOf
<1>3. /\ Settled(job.backups, damaged, unapplied, job.agent, job.previous)
      /\ ~job.undo => record[job.agent] = job.previous
      /\ \A g \in Done(job) : files[g] = job.backups[g]
  BY <1>1 DEF InjectionInv, JobInv
<1>4. files = [g \in Files |-> files[g]] /\ f \in Files /\ IsRecords(record) /\ IsRecords(saved)
  BY <1>2 DEF InjectionInv, IsFiles, FilesIn, Files
<1>5. CASE /\ files' = [files EXCEPT ![f] = job.backups[f]]
           /\ job' = IF job.next = n THEN NoJob ELSE [job EXCEPT !.next = @ + 1]
           /\ record' = IF job.next = n THEN Refused(record) ELSE record
           /\ UNCHANGED damaged
  <2> DEFINE v == job.backups[f]
  <2>1. \A b \in Agents \ {job.agent} : Settled(files', damaged', unapplied', b, record[b])
    <3>1. files' = [files EXCEPT ![f] = v] /\ damaged' = damaged
      BY <1>5
    <3> HIDE DEF v
    <3> QED
      BY <1>1, <1>2, <1>4, <3>1, OthersSettled
  <2>2. /\ files' = [g \in Files |-> files'[g]]
        /\ \A g \in Done(job) \cup {f} : files'[g] = job.backups[g]
    <3>1. \A g \in Done(job) : g \in Files
      <4>1. \A g \in Done(job) : g \in FilesIn(job.agent)
        BY <1>2 DEF Done
      <4> QED
        BY <1>2, <4>1 DEF FilesIn, Files
    <3> QED
      BY <1>3, <1>4, <1>5, <3>1
  <2>3. CASE job.next = n
    <3>1. Done(job) \cup {f} = FilesIn(job.agent)
      BY <1>2, <2>3 DEF Done
    <3>2. Settled(files', damaged', unapplied', job.agent, job.previous)
      BY <1>1, <1>3, <1>5, <2>2, <3>1 DEF Settled, Uniform, Agrees
    <3> QED
      BY <1>1, <1>5, <2>1, <2>2, <2>3, <3>2, JobRefused DEF IsFiles
  <2>4. CASE job.next # n
    <3> DEFINE next == job.next + 1
    <3>1. next \in 1..n /\ next = job.next + 1
      BY <1>2, <2>4
    <3>2. job' = [job EXCEPT !.next = next] /\ record' = record
      BY <1>5, <2>4
    <3> HIDE DEF next
    <3>3. job' = [at |-> "restore", agent |-> job.agent, rest |-> job.rest, previous |-> job.previous,
                  undo |-> job.undo, next |-> next, backups |-> job.backups]
      BY <1>1, <1>2, <3>2 DEF IsJob
    <3>4. IsJob(job') /\ Done(job') = Done(job) \cup {f}
      BY <1>2, <3>1, <3>3 DEF IsJob, Done
    <3> QED
      BY <1>1, <1>3, <1>4, <1>5, <2>1, <2>2, <3>2, <3>3, <3>4
         DEF InjectionInv, JobInv, Working, IsFiles
  <2> QED
    BY <2>3, <2>4
<1>6. CASE /\ damaged' = damaged \cup {job.agent}
           /\ job' = NoJob
           /\ record' = Refused(record)
           /\ UNCHANGED files
  <2>1. \A b \in Agents \ {job.agent} : Settled(files', damaged', unapplied', b, record[b])
    BY <1>1, <1>2, <1>6 DEF Settled
  <2>2. Settled(files', damaged', unapplied', job.agent, job.previous) /\ IsFiles'
    BY <1>4, <1>6 DEF Settled, IsFiles
  <2> QED
    BY <1>1, <1>6, <2>1, <2>2, JobRefused
<1> QED
  BY <1>5, <1>6 DEF Restore

(* A whole injection: the files say the record's route, also when they     *)
(* were damaged.                                                           *)
LEMMA InjectedStep ==
  ASSUME SoundAgents, InjectionInv, Injected
  PROVE  InjectionInv'
<1> DEFINE yes == TRUE
<1>1. /\ Working /\ UNCHANGED <<saved, files>> /\ job.at = "written"
      /\ record' = [record EXCEPT ![job.agent].enabled = yes]
      /\ damaged' = damaged \ {job.agent} /\ unapplied' = unapplied \ {job.agent} /\ Inject(job.rest)
  BY DEF Injected, Working
<1> HIDE DEF yes
<1>2. /\ job.agent \in Agents /\ job.rest \in Seq(Agents)
      /\ \A b \in Agents \ {job.agent} : Settled(files, damaged, unapplied, b, record[b])
      /\ Agrees(files, job.agent, record[job.agent])
  BY <1>1 DEF InjectionInv, JobInv, IsJob
<1>3. /\ IsRecords(record) /\ IsRecords(saved)' /\ IsFiles'
  BY <1>1 DEF InjectionInv, IsFiles
<1>4. /\ IsRecords(record)' /\ record'[job.agent] = [enabled |-> yes, route |-> record[job.agent].route]
      /\ \A b \in Agents \ {job.agent} : record'[b] = record[b]
  <2> DEFINE s == [record EXCEPT ![job.agent].enabled = yes]
  <2>1. /\ IsRecords(s) /\ s[job.agent] = [enabled |-> yes, route |-> record[job.agent].route]
        /\ \A b \in Agents \ {job.agent} : s[b] = record[b]
    BY <1>2, <1>3, SwitchSet
  <2>2. record' = s
    BY <1>1
  <2> HIDE DEF s
  <2> QED
    BY <2>1, <2>2
<1>5. Settled(files', damaged', unapplied', job.agent, record'[job.agent])
  <2>1. Context(record'[job.agent]) = Context(record[job.agent])
    BY <1>4 DEF Context
  <2> QED
    BY <1>1, <1>2, <2>1 DEF Settled, Agrees, Uniform
<1>6. \A b \in Agents \ {job.agent} : Settled(files', damaged', unapplied', b, record'[b])
  BY <1>1, <1>2, <1>4 DEF Settled
<1> QED
  BY <1>1, <1>2, <1>3, <1>4, <1>5, <1>6, ListBegins

(* A save, and a start: it takes every agent for damaged until it is       *)
(* injected.                                                               *)
LEMMA SaveStep ==
  ASSUME SoundAgents, InjectionInv, SaveRecord \/ RestartInjection
  PROVE  InjectionInv'
<1>1. CASE SaveRecord
  <2>1. /\ saved' = record \/ saved' = saved
        /\ job' = NoJob /\ UNCHANGED <<record, files, damaged, unapplied>> /\ ~Working
    BY <1>1 DEF SaveRecord, Working
  <2>2. /\ IsRecords(record)' /\ IsRecords(saved)' /\ IsFiles'
        /\ \A b \in Agents : Settled(files', damaged', unapplied', b, record'[b])
    BY <2>1 DEF InjectionInv, IsFiles
  <2> QED
    BY <2>1, <2>2, NoJobLeft DEF NoJob
<1>2. CASE RestartInjection
  <2>1. /\ record' = WithDefaults(saved) /\ damaged' = Agents /\ saved' = record' /\ files' = files
        /\ job' = NoJob \/ Inject(Enabled(saved))
    BY <1>2 DEF RestartInjection
  <2>2. /\ IsRecords(record)' /\ IsRecords(saved)' /\ IsFiles'
        /\ \A b \in Agents : Settled(files', damaged', unapplied', b, record'[b])
    BY <2>1, Defaults DEF InjectionInv, IsFiles, Settled
  <2>3. Enabled(saved) \in Seq(Agents)
    BY EnabledAreAgents
  <2>4. CASE job' = NoJob
    BY <2>2, <2>4, NoJobLeft DEF NoJob
  <2>5. CASE Inject(Enabled(saved))
    BY <2>2, <2>3, <2>5, ListBegins
  <2> QED
    BY <2>1, <2>4, <2>5
<1> QED
  BY <1>1, <1>2

(* The invariant holds of every behaviour.                                 *)
LEMMA InjectionInvariant == SoundAgents => (InjectionSpec => []InjectionInv)
<1> SUFFICES ASSUME SoundAgents PROVE InjectionSpec => []InjectionInv
  OBVIOUS
<1>1. InjectionInit => InjectionInv
  <2> SUFFICES ASSUME InjectionInit PROVE InjectionInv
    OBVIOUS
  <2>1. IsRecords(record) /\ IsRecords(saved) /\ \A a \in Agents : ~record[a].enabled
    BY DEF InjectionInit, IsRecords, IsRecord
  <2>2. IsFiles /\ (\A f \in Files : files[f].route = Nothing) /\ job.at = "none"
    BY DEF InjectionInit, IsFiles, NoJob
  <2>3. \A a \in Agents : \A f \in FilesIn(a) : f \in Files
    BY DEF FilesIn, Files
  <2>4. \A a \in Agents : Settled(files, damaged, unapplied, a, record[a])
    BY <2>1, <2>2, <2>3 DEF Settled, Uniform
  <2> QED
    BY <2>1, <2>2, <2>4 DEF InjectionInv, JobInv, Working
<1>2. InjectionInv /\ [InjectionNext]_ivars => InjectionInv'
  <2> SUFFICES ASSUME InjectionInv, [InjectionNext]_ivars PROVE InjectionInv'
    OBVIOUS
  <2>1. CASE UNCHANGED ivars
    BY <2>1 DEF ivars, InjectionInv, IsFiles, JobInv, Working
  <2> QED
    BY <2>1, CommandSteps, UpdateRouteStep, UnappliedStep, RefreshBoundStep, ApplyEnabledStep,
       BackupStep, WriteStep, RestoreStep, InjectedStep, SaveStep DEF InjectionNext
<1> QED
  BY <1>1, <1>2, PTL DEF InjectionSpec

-----------------------------------------------------------------------------
(* The theorems.                                                           *)

(* The files that are put back together are never half injected, whatever  *)
(* write fails (write_claude_desktop, restore_backups).                    *)
THEOREM InjectionsAreWhole == SoundAgents => (InjectionSpec => []NeverHalfInjected)
<1> SUFFICES ASSUME SoundAgents PROVE InjectionSpec => []NeverHalfInjected
  OBVIOUS
<1>1. InjectionInv => NeverHalfInjected
  BY DEF SoundAgents, InjectionInv, Working, NoJob, Settled, Uniform, FilesIn, NeverHalfInjected
<1>2. InjectionSpec => []InjectionInv
  BY InjectionInvariant
<1> QED
  BY <1>1, <1>2, PTL

(* The files of an enabled agent say the route of its record, whatever     *)
(* commands were refused (set_enabled, update_route, apply_item).          *)
THEOREM RecordsAreInjected == SoundAgents => (InjectionSpec => []EnabledIsInjected)
<1>1. InjectionInv => EnabledIsInjected
  BY DEF InjectionInv, Working, NoJob, Settled, Agrees, FilesIn, EnabledIsInjected
<1> QED
  BY <1>1, InjectionInvariant, PTL

-----------------------------------------------------------------------------
(* The first of a list.                                                    *)

(* A set of numbers has a least one.                                       *)
LEMMA LeastOf ==
  ASSUME NEW T \in SUBSET Nat, T # {}
  PROVE  Min(T) \in T /\ \A y \in T : Min(T) <= y
<1> DEFINE R == {ss \in Nat \X Nat : ss[1] < ss[2]}
<1>1. \A x, y \in Nat : y < x => <<y, x>> \in R
  OBVIOUS
<1>2. IsWellFoundedOn(R, Nat)
  BY NatLessThanWellFounded DEF OpToRel
<1> HIDE DEF R
<1>3. PICK x \in T : \A y \in T : ~ (<<y, x>> \in R)
  BY <1>2, WFMin
<1>4. ASSUME NEW y \in T PROVE x <= y
  <2>1. x \in Nat /\ y \in Nat /\ <<y, x>> \notin R
    BY <1>3
  <2>2. ~ (y < x)
    BY <1>1, <2>1
  <2> QED BY <2>1, <2>2
<1> QED BY <1>4 DEF Min

(* Numbers that go on one by one go up to the bound.                        *)
LEMMA UpTo ==
  ASSUME NEW n \in Nat, NEW P,
         0 \in P, \A k \in 0 .. n - 1 : k \in P => k + 1 \in P
  PROVE  0 .. n \subseteq P
<1> DEFINE T == (0 .. n) \ P
<1>1. CASE T = {}
  BY <1>1
<1>2. CASE T # {}
  <2>1. Min(T) \in T /\ \A y \in T : Min(T) <= y
    BY <1>2, LeastOf
  <2>2. Min(T) # 0 /\ Min(T) - 1 \in 0 .. n - 1 /\ Min(T) - 1 \notin T
    BY <2>1
  <2> QED BY <2>1, <2>2
<1> QED BY <1>1, <1>2

(* What is given somewhere in a list of choices is chosen from it.         *)
LEMMA SomeValue ==
  ASSUME NEW seq, Len(seq) \in Nat, NEW i \in 1 .. Len(seq), seq[i] # NoValue
  PROVE  FirstOf(seq) # NoValue
<1> DEFINE I == {k \in 1 .. Len(seq) : seq[k] # NoValue}
<1>1. Min(I) \in I
  BY LeastOf
<1>2. FirstOf(seq) = seq[Min(I)]
  <2>1. I # {} /\ Min(I) # 0
    BY <1>1
  <2>2. SelectInSeq(seq, LAMBDA v : v # NoValue) = Min(I)
    BY <2>1 DEF SelectInSeq
  <2> QED BY <2>1, <2>2 DEF FirstOf, First
<1> QED BY <1>1, <1>2

(* The first choice, when it is given.                                     *)
LEMMA FirstOne ==
  ASSUME NEW seq, Len(seq) \in Nat, Len(seq) # 0, seq[1] # NoValue
  PROVE  FirstOf(seq) = seq[1]
<1> DEFINE I == {k \in 1 .. Len(seq) : seq[k] # NoValue}
<1>1. 1 \in I /\ I \in SUBSET Nat /\ \A k \in I : 1 <= k
  OBVIOUS
<1>2. Min(I) \in I /\ Min(I) <= 1
  <2> HIDE DEF I
  <2>1. I # {}
    BY <1>1
  <2> QED BY <1>1, <2>1, LeastOf
<1>3. Min(I) = 1
  <2>1. Min(I) \in Nat /\ 1 <= Min(I)
    BY <1>1, <1>2
  <2> QED BY <1>2, <2>1
<1>4. FirstOf(seq) = seq[Min(I)]
  <2>1. I # {} /\ Min(I) # 0
    BY <1>1, <1>3
  <2>2. SelectInSeq(seq, LAMBDA v : v # NoValue) = Min(I)
    BY <2>1 DEF SelectInSeq
  <2> QED BY <2>1, <2>2 DEF FirstOf, First
<1> QED BY <1>3, <1>4

(* What is chosen is one of the choices.                                   *)
LEMMA OneOf ==
  ASSUME NEW seq, Len(seq) \in Nat
  PROVE  FirstOf(seq) = NoValue \/ \E i \in 1 .. Len(seq) : FirstOf(seq) = seq[i]
<1> DEFINE I == {k \in 1 .. Len(seq) : seq[k] # NoValue}
<1>1. CASE I = {}
  <2>1. SelectInSeq(seq, LAMBDA v : v # NoValue) = 0
    BY <1>1 DEF SelectInSeq
  <2> QED BY <2>1 DEF FirstOf, First
<1>2. CASE I # {}
  <2>1. Min(I) \in I
    <3>1. I \in SUBSET Nat
      OBVIOUS
    <3> HIDE DEF I
    <3> QED BY <1>2, <3>1, LeastOf
  <2>2. FirstOf(seq) = seq[Min(I)]
    <3>1. I # {} /\ Min(I) # 0
      BY <2>1
    <3>2. SelectInSeq(seq, LAMBDA v : v # NoValue) = Min(I)
      BY <3>1 DEF SelectInSeq
    <3> QED BY <3>1, <3>2 DEF FirstOf, First
  <2> QED BY <2>1, <2>2
<1> QED BY <1>1, <1>2

-----------------------------------------------------------------------------
(* The catalogue.                                                          *)

(* Each name once, and a default effort wherever there are efforts.        *)
IsCatalogue(c) ==
  /\ c \in Seq(Range(c)) /\ IsInjective(Slugs(c))
  /\ \A i \in DOMAIN c : IsLevels(c[i].levels) /\ (c[i].levels # <<>> => c[i].default # NoValue)

(* codex_catalog_model: an entry with efforts has a default.               *)
LEMMA DefaultsAreGiven ==
  ASSUME NEW m, IsLevels(m.supported), NEW template, NEW official \in BOOLEAN,
         official => IsLevels(template.levels)
  PROVE  /\ IsLevels(Supported(template, m, official))
         /\ Supported(template, m, official) # <<>> => DefaultEffort(template, m, official) # NoValue
<1> DEFINE supported == Supported(template, m, official)
           Offered(e) == IF e \in Range(supported) THEN e ELSE NoValue
           first == <<IF m.override THEN Offered(m.effort) ELSE NoValue,
                IF official THEN template.default ELSE NoValue,
                Offered(m.effort),
                Offered("medium")>>
           seq == first \o supported
<1>1. IsLevels(supported)
  BY DEF Supported
<1>2. ASSUME supported # <<>> PROVE DefaultEffort(template, m, official) # NoValue
  <2>1. supported \in Seq(Range(supported)) /\ Len(supported) \in Nat \ {0}
    BY <1>1, <1>2 DEF IsLevels
  <2>2. supported[1] # NoValue
    BY <1>1, <2>1 DEF IsLevels, Range
  <2> HIDE DEF supported
  <2>3. Len(first) = 4 /\ first \in Seq({first[1], first[2], first[3], first[4]})
    OBVIOUS
  <2>4. Len(seq) = 4 + Len(supported) /\ seq[5] = supported[1]
    <3> DEFINE S == {first[1], first[2], first[3], first[4]} \cup Range(supported)
    <3>1. first \in Seq(S) /\ supported \in Seq(S)
      BY <2>1, <2>3
    <3>2. Len(first) = 4
      BY <2>3
    <3> HIDE DEF first, S
    <3>3. Len(seq) = Len(first) + Len(supported)
      BY <3>1
    <3>4. seq[5] = supported[5 - Len(first)]
      BY <2>1, <3>1, <3>2, <3>3, ConcatProperties
    <3> QED BY <3>2, <3>3, <3>4
  <2>5. FirstOf(seq) # NoValue
    <3>1. Len(seq) \in Nat /\ 5 \in 1 .. Len(seq) /\ seq[5] # NoValue
      BY <2>1, <2>2, <2>4
    <3> HIDE DEF seq
    <3> QED BY <3>1, SomeValue
  <2> QED BY <2>5 DEF DefaultEffort, supported
<1> QED BY <1>1, <1>2

(* A model that is listed leaves a catalogue, with its own name and every  *)
(* name that was there.                                                    *)
LEMMA ListedIsCatalogue ==
  ASSUME NEW c, IsCatalogue(c), NEW m, m.enabled, IsLevels(m.supported)
  PROVE  /\ IsCatalogue(Listed(c, m))
         /\ DOMAIN c \subseteq DOMAIN Listed(c, m)
         /\ \A i \in DOMAIN c : Listed(c, m)[i].slug = c[i].slug
         /\ \E i \in DOMAIN Listed(c, m) : Listed(c, m)[i].slug = NameOf(m)
<1> DEFINE slug == NameOf(m)
           key == FirstOf(<<m.short, m.id>>)
           known == First(c, LAMBDA e : e.slug = FirstOf(<<m.short, m.id>>))
           template == FirstOf(<<known, First(Official, LAMBDA e : e.slug = FallbackSlug)>>)
           entry == CatalogModel(template, m, slug, known # NoValue)
           at == SelectInSeq(c, LAMBDA e : e.slug = NameOf(m))
           I == {i \in 1 .. Len(c) : c[i].slug = slug}
           K == {i \in 1 .. Len(c) : c[i].slug = key}
<1>0. c \in Seq(Range(c)) /\ Len(c) \in Nat /\ DOMAIN c = 1 .. Len(c)
  BY DEF IsCatalogue
<1>1. known # NoValue => template = known /\ \E i \in DOMAIN c : known = c[i]
  <2> SUFFICES ASSUME known # NoValue PROVE template = known /\ \E i \in DOMAIN c : known = c[i]
    OBVIOUS
  <2>1. \E i \in DOMAIN c : known = c[i]
    <3>1. K # {}
      BY DEF First, SelectInSeq
    <3>2. Min(K) \in K
      <4>1. K \in SUBSET Nat
        OBVIOUS
      <4> HIDE DEF K
      <4> QED BY <3>1, <4>1, LeastOf
    <3>3. known = c[Min(K)]
      BY <3>2, <1>0 DEF First, SelectInSeq
    <3> QED BY <3>2, <3>3, <1>0
  <2>2. template = known
    <3> DEFINE other == First(Official, LAMBDA e : e.slug = FallbackSlug)
    <3> HIDE DEF known, other
    <3>1. Len(<<known, other>>) = 2 /\ <<known, other>>[1] = known
      OBVIOUS
    <3>2. FirstOf(<<known, other>>) = known
      BY <3>1, FirstOne
    <3> QED BY <3>2 DEF other
  <2> QED BY <2>1, <2>2
<1>2. /\ entry.slug = slug /\ IsLevels(entry.levels)
      /\ entry.levels # <<>> => entry.default # NoValue
  <2>1. known # NoValue => IsLevels(template.levels)
    BY <1>1 DEF IsCatalogue
  <2> HIDE DEF known, template
  <2>2. (known # NoValue) \in BOOLEAN
    OBVIOUS
  <2> QED BY <2>1, <2>2, DefaultsAreGiven DEF CatalogModel
<1>3. Listed(c, m) = IF at = 0 THEN Append(c, entry) ELSE [c EXCEPT ![at] = entry]
  BY DEF Listed
<1>4. CASE I = {}
  <2>1. at = 0
    BY <1>4 DEF SelectInSeq
  <2> HIDE DEF entry, at
  <2> DEFINE d == Append(c, entry)
  <2>2. Listed(c, m) = d
    BY <1>3, <2>1
  <2>3. /\ DOMAIN d = 1 .. Len(c) + 1 /\ d[Len(c) + 1] = entry /\ \A i \in 1 .. Len(c) : d[i] = c[i]
        /\ d \in Seq(Range(d))
    <3>1. c \in Seq(Range(c) \cup {entry})
      BY <1>0
    <3>2. d \in Seq(Range(c) \cup {entry})
      BY <3>1
    <3>3. DOMAIN d = 1 .. Len(c) + 1 /\ d[Len(c) + 1] = entry /\ \A i \in 1 .. Len(c) : d[i] = c[i]
      BY <3>1, <1>0
    <3> HIDE DEF d
    <3>4. \A i \in 1 .. Len(c) + 1 : d[i] \in Range(d)
      BY <3>3 DEF Range
    <3>5. d = [i \in 1 .. Len(c) + 1 |-> d[i]]
      <4>1. Len(d) = Len(c) + 1
        BY <3>2, <3>3, <1>0
      <4> QED BY <3>2, <4>1
    <3>6. d \in Seq(Range(d))
      BY <3>4, <3>5, <1>0
    <3> QED BY <3>3, <3>6
  <2> HIDE DEF d
  <2>4. IsInjective(Slugs(d))
    <3>1. DOMAIN Slugs(d) = 1 .. Len(c) + 1 /\ \A i \in 1 .. Len(c) + 1 : Slugs(d)[i] = d[i].slug
      BY <2>3 DEF Slugs
    <3>2. \A i, j \in 1 .. Len(c) : c[i].slug = c[j].slug => i = j
      BY <1>0 DEF IsCatalogue, Slugs, IsInjective
    <3>3. \A i \in 1 .. Len(c) : c[i].slug # entry.slug
      BY <1>2, <1>4 
    <3> QED BY <3>1, <3>2, <3>3, <2>3, <1>0 DEF IsInjective
  <2>5. \A i \in DOMAIN d : IsLevels(d[i].levels) /\ (d[i].levels # <<>> => d[i].default # NoValue)
    BY <2>3, <1>0, <1>2 DEF IsCatalogue
  <2> QED BY <2>2, <2>3, <2>4, <2>5, <1>0, <1>2 DEF IsCatalogue
<1>5. CASE I # {}
  <2>1. at = Min(I)
    BY <1>5 DEF SelectInSeq
  <2>a. at \in I
    <3>1. I \in SUBSET Nat
      OBVIOUS
    <3> HIDE DEF I
    <3> QED BY <1>5, <2>1, <3>1, LeastOf
  <2> HIDE DEF entry, at
  <2> DEFINE d == [c EXCEPT ![at] = entry]
  <2>b. at # 0
    BY <2>a, <1>0
  <2>2. Listed(c, m) = d
    BY <1>3, <2>b
  <2>3. /\ DOMAIN d = 1 .. Len(c) /\ d[at] = entry /\ \A i \in 1 .. Len(c) : i # at => d[i] = c[i]
        /\ d \in Seq(Range(d))
    <3>1. DOMAIN d = 1 .. Len(c) /\ d[at] = entry /\ \A i \in 1 .. Len(c) : i # at => d[i] = c[i]
      BY <1>0, <2>a
    <3>2. \A i \in 1 .. Len(c) : d[i] \in Range(d)
      BY <3>1 DEF Range
    <3>3. d = [i \in 1 .. Len(c) |-> d[i]]
      BY <1>0
    <3>4. d \in Seq(Range(d))
      <4> HIDE DEF d
      <4> QED BY <3>2, <3>3, <1>0
    <3> QED BY <3>1, <3>4
  <2> HIDE DEF d
  <2>4. \A i \in 1 .. Len(c) : d[i].slug = c[i].slug
    BY <2>a, <2>3, <1>2
  <2>5. Slugs(d) = Slugs(c)
    BY <2>3, <2>4, <1>0 DEF Slugs
  <2>6. \A i \in DOMAIN d : IsLevels(d[i].levels) /\ (d[i].levels # <<>> => d[i].default # NoValue)
    BY <2>3, <1>0, <1>2 DEF IsCatalogue
  <2> QED BY <2>a, <2>2, <2>3, <2>4, <2>5, <2>6, <1>0, <1>2 DEF IsCatalogue
<1> QED BY <1>4, <1>5
(* The catalogue is what one model after the other makes of the bundle.    *)
LEMMA CatalogueByModel ==
  ASSUME NEW context, NEW n \in Nat, Len(context.models) = n
  PROVE  \E f : /\ f = [k \in 0 .. n |-> IF k = 0 THEN Official
                                         ELSE Listed(f[k - 1], context.models[k])]
               /\ Catalogue(context) = f[n]
<1> DEFINE Rows(f, m) == f = [k \in 0 .. m |-> IF k = 0 THEN Official
                                              ELSE Listed(f[k - 1], context.models[k])]
           P == {m \in 0 .. n : \E f : Rows(f, m)}
<1>1. 0 \in P
  <2> DEFINE g == [k \in 0 .. 0 |-> Official]
  <2>1. Rows(g, 0)
    <3>1. \A k \in 0 .. 0 : k = 0 /\ g[k] = Official
      OBVIOUS
    <3>2. g = [k \in 0 .. 0 |-> g[k]]
      OBVIOUS
    <3> HIDE DEF g
    <3>3. ASSUME NEW k \in 0 .. 0
          PROVE  g[k] = IF k = 0 THEN Official ELSE Listed(g[k - 1], context.models[k])
      BY <3>1
    <3> QED BY <3>2, <3>3
  <2> HIDE DEF Rows, g
  <2> QED BY <2>1
<1>2. ASSUME NEW m \in 0 .. n - 1, m \in P PROVE m + 1 \in P
  <2>1. PICK f : Rows(f, m)
    BY <1>2
  <2> DEFINE g == [k \in 0 .. m + 1 |-> IF k = m + 1 THEN Listed(f[m], context.models[m + 1])
                                       ELSE f[k]]
  <2>2. DOMAIN g = 0 .. m + 1
    OBVIOUS
  <2>3. ASSUME NEW k \in 0 .. m + 1
        PROVE  g[k] = IF k = 0 THEN Official ELSE Listed(g[k - 1], context.models[k])
    <3>1. CASE k = m + 1
      <4>1. g[k - 1] = f[m]
        BY <3>1
      <4> QED BY <3>1, <4>1
    <3>2. CASE k \in 0 .. m
      <4>1. g[k] = f[k] /\ (k # 0 => g[k - 1] = f[k - 1])
        BY <3>2
      <4>2. f[k] = IF k = 0 THEN Official ELSE Listed(f[k - 1], context.models[k])
        BY <2>1, <3>2
      <4> QED BY <4>1, <4>2
    <3> QED BY <3>1, <3>2
  <2>4. Rows(g, m + 1)
    <3>1. g = [k \in 0 .. m + 1 |-> g[k]]
      OBVIOUS
    <3> HIDE DEF g
    <3> QED BY <2>3, <3>1
  <2> HIDE DEF Rows, g
  <2> QED BY <2>4
<1>3. \E f : Rows(f, n)
  <2>1. n \in P
    <3> HIDE DEF P
    <3>1. 0 .. n \subseteq P
      BY <1>1, <1>2, UpTo
    <3> QED BY <3>1
  <2> QED BY <2>1 DEF P
<1> DEFINE t == CHOOSE f : Rows(f, n)
<1>4. Rows(t, n)
  <2> HIDE DEF Rows
  <2> QED BY <1>3
<1>5. Catalogue(context) = t[n]
  BY DEF Catalogue
<1> HIDE DEF t
<1> QED BY <1>4, <1>5

(* All of a route's enabled models are in its catalogue.                   *)
LEMMA CatalogueListsAll ==
  ASSUME SoundFiles, NEW context, context.models \in Seq(Range(context.models)),
         \A m \in Range(context.models) : IsLevels(m.supported)
  PROVE  /\ IsCatalogue(Catalogue(context))
         /\ \A m \in Range(context.models) : m.enabled => NameOf(m) \in Range(Slugs(Catalogue(context)))
<1> DEFINE models == context.models
           n == Len(models)
<1>1. n \in Nat /\ DOMAIN models = 1 .. n /\ \A k \in 1 .. n : models[k] \in Range(models)
  BY DEF Range
<1>2. PICK f : /\ f = [k \in 0 .. n |-> IF k = 0 THEN Official ELSE Listed(f[k - 1], models[k])]
               /\ Catalogue(context) = f[n]
  BY <1>1, CatalogueByModel
<1> DEFINE Named(k) == \A i \in 1 .. k : models[i].enabled => \E j \in DOMAIN f[k] : f[k][j].slug = NameOf(models[i])
           P == {k \in 0 .. n : IsCatalogue(f[k]) /\ Named(k)}
<1>3. 0 \in P
  <2>1. f[0] = Official
    BY <1>1, <1>2
  <2>2. IsCatalogue(Official)
    BY DEF SoundFiles, IsCatalogue, Range
  <2> QED BY <1>1, <2>1, <2>2
<1>4. ASSUME NEW k \in 0 .. n - 1, k \in P PROVE k + 1 \in P
  <2>a. k + 1 \in 0 .. n /\ k + 1 # 0 /\ (k + 1) - 1 = k
    BY <1>1
  <2>1. f[k + 1] = Listed(f[k], models[k + 1])
    <3> HIDE DEF models
    <3> QED BY <1>2, <2>a
  <2>2. IsCatalogue(f[k]) /\ Named(k)
    BY <1>4
  <2>3. models[k + 1] \in Range(models) /\ IsLevels(models[k + 1].supported)
    BY <1>1
  <2>4. /\ IsCatalogue(f[k + 1])
        /\ DOMAIN f[k] \subseteq DOMAIN f[k + 1]
        /\ \A i \in DOMAIN f[k] : f[k + 1][i].slug = f[k][i].slug
        /\ models[k + 1].enabled =>
             \E i \in DOMAIN f[k + 1] : f[k + 1][i].slug = NameOf(models[k + 1])
    <3> HIDE DEF models, Named
    <3>1. CASE models[k + 1].enabled
      BY <2>1, <2>2, <2>3, <3>1, ListedIsCatalogue
    <3>2. CASE ~models[k + 1].enabled
      BY <2>1, <2>2, <3>2 DEF Listed
    <3> QED BY <3>1, <3>2
  <2>5. Named(k + 1)
    <3> SUFFICES ASSUME NEW i \in 1 .. k + 1, models[i].enabled
                 PROVE  \E j \in DOMAIN f[k + 1] : f[k + 1][j].slug = NameOf(models[i])
      OBVIOUS
    <3>1. CASE i = k + 1
      BY <2>4, <3>1
    <3>2. CASE i \in 1 .. k
      BY <2>2, <2>4, <3>2
    <3> QED BY <1>1, <3>1, <3>2
  <2> QED BY <1>1, <2>4, <2>5
<1>5. n \in P
  <2> HIDE DEF P
  <2>1. 0 .. n \subseteq P
    BY <1>1, <1>3, <1>4, UpTo
  <2> QED BY <1>1, <2>1
<1>6. ASSUME NEW m \in Range(models), m.enabled PROVE NameOf(m) \in Range(Slugs(Catalogue(context)))
  <2>1. PICK i \in 1 .. n : m = models[i]
    BY <1>1 DEF Range
  <2>2. PICK j \in DOMAIN f[n] : f[n][j].slug = NameOf(m)
    BY <1>5, <1>6, <2>1
  <2>3. Slugs(f[n])[j] = NameOf(m) /\ j \in DOMAIN Slugs(f[n])
    BY <2>2 DEF Slugs
  <2> QED BY <1>2, <2>3 DEF Range
<1> QED BY <1>2, <1>5, <1>6

-----------------------------------------------------------------------------
(* What is said of the route, and what stays of a file.                    *)

Fields == {"is", "own", "inner", "address", "key", "model", "window", "effort", "provider", "catalogue"}

IsRoute(r) ==
  /\ r = [address |-> r.address, key |-> r.key, model |-> r.model, explicit |-> r.explicit,
          window |-> r.window, models |-> r.models]
  /\ r.address # NoValue /\ r.key # NoValue
  /\ r.models \in Seq(Range(r.models))
  /\ \A m \in Range(r.models) : IsLevels(m.supported)

IsFile(f) == f = [x \in Fields |-> f[x]]

FilesInv ==
  /\ kind \in Kinds /\ IsFile(agentFile)
  /\ said # NoValue => IsRoute(said) /\ ~Refuses(kind, agentFile)
  /\ FileFollowsTheRoute

(* A route read off a configuration has an address and a key, and lists.   *)
LEMMA RoutesAreSound ==
  ASSUME SoundFiles, NEW config \in Configs, NEW binding
  PROVE  IsRoute(FromConfig(config, binding))
<1> DEFINE id == FirstOf(<<binding.provider, config.active>>)
           named == First(config.providers, LAMBDA p : p.id = FirstOf(<<binding.provider, config.active>>))
           usable == First(config.providers, LAMBDA p : p.enabled)
           provider == FirstOf(<<named, usable>>)
           models == IF provider = NoValue THEN <<>> ELSE provider.models
<1>1. config.providers \in Seq(Range(config.providers)) /\ Len(config.providers) \in Nat
      /\ DOMAIN config.providers = 1 .. Len(config.providers)
  BY DEF SoundFiles
<1>2. named = NoValue \/ named \in Range(config.providers)
  <2> DEFINE I == {i \in 1 .. Len(config.providers) : config.providers[i].id = id}
  <2>1. CASE I = {}
    BY <2>1 DEF First, SelectInSeq
  <2>2. CASE I # {}
    <3>1. I \in SUBSET Nat /\ I \subseteq 1 .. Len(config.providers)
      OBVIOUS
    <3>2. named = config.providers[Min(I)] \/ named = NoValue
      BY <2>2 DEF First, SelectInSeq
    <3> HIDE DEF I, named
    <3>3. Min(I) \in I
      BY <2>2, <3>1, LeastOf
    <3> QED BY <1>1, <3>1, <3>2, <3>3 DEF Range
  <2> QED BY <2>1, <2>2
<1>3. usable = NoValue \/ usable \in Range(config.providers)
  <2> DEFINE I == {i \in 1 .. Len(config.providers) : config.providers[i].enabled}
  <2>1. CASE I = {}
    BY <2>1 DEF First, SelectInSeq
  <2>2. CASE I # {}
    <3>1. I \in SUBSET Nat /\ I \subseteq 1 .. Len(config.providers)
      OBVIOUS
    <3>2. usable = config.providers[Min(I)] \/ usable = NoValue
      BY <2>2 DEF First, SelectInSeq
    <3> HIDE DEF I, usable
    <3>3. Min(I) \in I
      BY <2>2, <3>1, LeastOf
    <3> QED BY <1>1, <3>1, <3>2, <3>3 DEF Range
  <2> QED BY <2>1, <2>2
<1>4. provider = NoValue \/ provider \in Range(config.providers)
  <2> HIDE DEF named, usable
  <2>1. Len(<<named, usable>>) = 2 /\ <<named, usable>>[1] = named /\ <<named, usable>>[2] = usable
    OBVIOUS
  <2>2. provider = NoValue \/ \E i \in 1 .. 2 : provider = <<named, usable>>[i]
    BY <2>1, OneOf
  <2> QED BY <1>2, <1>3, <2>1, <2>2
<1> DEFINE r == FromConfig(config, binding)
<1>5. r = [address |-> config.address, key |-> config.key, model |-> r.model,
           explicit |-> r.explicit, window |-> r.window, models |-> models]
  BY DEF FromConfig
<1> HIDE DEF provider, r
<1>6. models \in Seq(Range(models)) /\ \A m \in Range(models) : IsLevels(m.supported)
  <2>1. CASE provider = NoValue
    BY <2>1 DEF Range
  <2>2. CASE provider # NoValue
    BY <1>4, <2>2 DEF SoundFiles
  <2> QED BY <2>1, <2>2
<1>7. config.address # NoValue /\ config.key # NoValue
  BY DEF SoundFiles
<1> HIDE DEF models
<1> QED BY <1>5, <1>6, <1>7 DEF IsRoute, r

(* What one injection leaves in a file of each kind, whatever was in it.   *)
LEMMA WrittenFollowsTheRoute ==
  ASSUME SoundFiles, NEW k \in Kinds, NEW f, IsFile(f), ~Refuses(k, f), NEW r, IsRoute(r)
  PROVE  LET new == Rewritten(k, f, r)
         IN  /\ IsFile(new) /\ ~Refuses(k, new)
             /\ IF k \in {"mode", "meta"} THEN new.provider = "atoapi" ELSE
                  /\ k = "codex" => new.provider = "atoapi"
                  /\ k # "codex" \/ new.inner # "otherType" =>
                       new.address = r.address /\ new.key = r.key
                  /\ (k # "codex" \/ r.explicit) => new.model = r.model
                  /\ k = "codex" =>
                       /\ r.explicit => new.window = r.window
                       /\ new.catalogue = Catalogue(r)
<1> DEFINE new == Rewritten(k, f, r)
<1>1. CASE k = "claudeCode"
  BY <1>1 DEF Rewritten, ClaudeCode, Pointed, IsFile, Fields, Refuses
<1>2. CASE k = "codex"
  <2>1. new = Codex(f, r)
    BY <1>2 DEF Rewritten
  <2>4. f.inner # "otherEntry"
    BY <1>2 DEF Refuses
  <2> DEFINE g == Tabled(f, r)
             base == [g EXCEPT !.provider = "atoapi", !.catalogue = Catalogue(r)]
             effort == FirstOf(<<CodexEffort(r), f.effort>>)
  <2>5. /\ IsFile(g) /\ g.inner = f.inner
        /\ f.inner # "otherType" => g.address = r.address /\ g.key = r.key
    BY DEF Tabled, IsFile, Fields
  <2>6. new = IF r.explicit
              THEN [base EXCEPT !.model = r.model, !.window = r.window, !.effort = effort] ELSE base
    BY <2>1 DEF Codex
  <2> HIDE DEF g, effort, new
  <2>7. /\ IsFile(base) /\ base.inner = f.inner /\ base.provider = "atoapi"
        /\ base.catalogue = Catalogue(r) /\ base.address = g.address /\ base.key = g.key
    BY <2>5 DEF IsFile, Fields
  <2> HIDE DEF base
  <2>8. /\ IsFile(new) /\ new.inner = f.inner /\ new.provider = "atoapi"
        /\ new.catalogue = Catalogue(r) /\ new.address = g.address /\ new.key = g.key
        /\ r.explicit => new.model = r.model /\ new.window = r.window
    BY <2>6, <2>7 DEF IsFile, Fields
  <2>9. ~Refuses(k, new)
    BY <2>4, <2>8 DEF Refuses
  <2> QED BY <1>2, <2>5, <2>8, <2>9 DEF new
<1>3. CASE k = "openCode"
  BY <1>3 DEF Rewritten, OpenCode, Pointed, IsFile, Fields, Refuses
<1>4. CASE k = "openClaw"
  BY <1>4 DEF Rewritten, OpenClaw, Pointed, IsFile, Fields, Refuses
<1>5. CASE k = "hermes"
  <2>1. new = Hermes(f, r)
    BY <1>5 DEF Rewritten
  <2> DEFINE next == [address |-> r.address, key |-> r.key, window |-> NoValue]
             existing == [address |-> f.address, key |-> f.key, window |-> f.window]
             entry == IF f.address # NoValue /\ f.inner # "otherType"
                      THEN MergeMissing(next, existing) ELSE next
  <2>2. new = [f EXCEPT !.inner = Opened(f), !.address = entry.address, !.key = entry.key,
                        !.window = entry.window, !.model = r.model, !.provider = "atoapi"]
    BY <2>1 DEF Hermes
  <2>3. r.address # NoValue /\ r.key # NoValue
    BY DEF IsRoute
  <2>4. entry.address = r.address /\ entry.key = r.key
    BY <2>3 DEF MergeMissing
  <2> HIDE DEF entry, new
  <2>5. IsFile(new) /\ new.address = r.address /\ new.key = r.key /\ new.model = r.model
    BY <2>2, <2>4 DEF IsFile, Fields
  <2> QED BY <1>5, <2>5 DEF new, Refuses
<1>6. CASE k = "profile"
  BY <1>6 DEF Rewritten, Profile, Blank, IsFile, Fields, Refuses
<1>7. CASE k = "mode"
  BY <1>7 DEF Rewritten, DesktopMode, IsFile, Fields, Refuses
<1>8. CASE k = "meta"
  BY <1>8 DEF Rewritten, DesktopMeta, IsFile, Fields, Refuses
<1> QED BY <1>1, <1>2, <1>3, <1>4, <1>5, <1>6, <1>7, <1>8 DEF SoundFiles

(* However often an agent is injected, with whatever routes and over       *)
(* whatever the user wrote meanwhile, its file leads to the proxy by the   *)
(* last route, and Codex is given a catalogue of all its models.           *)
THEOREM FilesFollowTheRoutes == FilesSpec => []FileFollowsTheRoute
<1> USE SoundFiles
<1>1. FilesInit => FilesInv
  <2> SUFFICES ASSUME FilesInit PROVE FilesInv
    OBVIOUS
  <2>1. IsFile(agentFile)
    <3>1. CASE \E own \in {"none", "user"}, inner \in {"absent", "user", "otherType", "otherEntry"},
                 model \in {NoValue, "mine"}, window \in {NoValue, 7}, effort \in {NoValue, "high"} :
                 agentFile = [Blank EXCEPT !.own = own, !.inner = inner, !.model = model,
                                           !.window = window, !.effort = effort]
      BY <3>1 DEF Blank, IsFile, Fields
    <3>2. CASE \E is \in {"unparsable", "scalar"} : agentFile = [Blank EXCEPT !.is = is]
      BY <3>2 DEF Blank, IsFile, Fields
    <3> QED BY <3>1, <3>2 DEF FilesInit, FilesFound
  <2> QED BY <2>1 DEF FilesInit, FilesInv, FileFollowsTheRoute
<1>2. FilesInv /\ [FilesNext]_fvars => FilesInv'
  <2> SUFFICES ASSUME FilesInv, [FilesNext]_fvars PROVE FilesInv'
    OBVIOUS
  <2>1. CASE InjectFile
    <3>1. PICK config \in Configs, binding \in Bindings :
            /\ said' = FromConfig(config, binding)
            /\ agentFile' = Rewritten(kind, Read(agentFile), said')
      BY <2>1 DEF InjectFile
    <3>2. IsRoute(said') /\ kind' = kind /\ kind \in Kinds
      BY <2>1, <3>1, RoutesAreSound DEF InjectFile, FilesInv
    <3>3. IsFile(Read(agentFile)) /\ ~Refuses(kind, Read(agentFile))
      BY <2>1 DEF InjectFile, FilesInv, Read, Blank, IsFile, Fields, Refuses
    <3> DEFINE new == Rewritten(kind, Read(agentFile), said')
    <3>4. /\ IsFile(new) /\ ~Refuses(kind, new)
          /\ IF kind \in {"mode", "meta"} THEN new.provider = "atoapi" ELSE
               /\ kind = "codex" => new.provider = "atoapi"
               /\ kind # "codex" \/ new.inner # "otherType" =>
                    new.address = said'.address /\ new.key = said'.key
               /\ (kind # "codex" \/ said'.explicit) => new.model = said'.model
               /\ kind = "codex" =>
                    /\ said'.explicit => new.window = said'.window
                    /\ new.catalogue = Catalogue(said')
      BY <3>2, <3>3, WrittenFollowsTheRoute
    <3>5. /\ IsCatalogue(Catalogue(said'))
          /\ \A m \in Range(said'.models) : m.enabled => NameOf(m) \in Range(Slugs(Catalogue(said')))
      BY <3>2, CatalogueListsAll DEF IsRoute
    <3>6. new = agentFile'
      BY <3>1
    <3> HIDE DEF new
    <3>7. FileFollowsTheRoute'
      BY <3>2, <3>4, <3>5, <3>6 DEF FileFollowsTheRoute, IsCatalogue, Range
    <3> QED BY <3>2, <3>4, <3>6, <3>7 DEF FilesInv, IsFile, Refuses
  <2>2. CASE EditFile
    <3>1. PICK own \in {"user"}, effort \in {NoValue, "low"} :
            agentFile' = [agentFile EXCEPT !.own = own, !.effort = effort]
      BY <2>2 DEF EditFile
    <3>2. kind' = kind /\ said' = said
      BY <2>2 DEF EditFile
    <3>3. /\ IsFile(agentFile')
          /\ agentFile'.address = agentFile.address /\ agentFile'.key = agentFile.key
          /\ agentFile'.model = agentFile.model /\ agentFile'.window = agentFile.window
          /\ agentFile'.catalogue = agentFile.catalogue /\ agentFile'.provider = agentFile.provider
          /\ agentFile'.inner = agentFile.inner
      BY <3>1 DEF FilesInv, IsFile, Fields
    <3>4. FileFollowsTheRoute'
      BY <3>2, <3>3 DEF FilesInv, FileFollowsTheRoute
    <3> QED BY <3>2, <3>3, <3>4 DEF FilesInv, IsFile, IsRoute, Refuses
  <2>3. CASE UNCHANGED fvars
    BY <2>3 DEF fvars, FilesInv, FileFollowsTheRoute, IsFile, IsRoute, Refuses
  <2>4. CASE RefusedFile
    <3>1. said = NoValue /\ said' = said /\ kind' = kind
      BY <2>4 DEF RefusedFile, FilesInv
    <3>2. PICK config \in Configs, binding \in Bindings :
            agentFile' = [agentFile EXCEPT !.catalogue = Catalogue(FromConfig(config, binding))]
      BY <2>4 DEF RefusedFile
    <3> DEFINE catalogue == Catalogue(FromConfig(config, binding))
    <3>3. agentFile' = [agentFile EXCEPT !.catalogue = catalogue]
      BY <3>2
    <3> HIDE DEF catalogue
    <3>4. IsFile(agentFile')
      BY <3>3 DEF FilesInv, IsFile, Fields
    <3> QED BY <3>1, <3>4 DEF FilesInv, FileFollowsTheRoute, IsFile
  <2> QED BY <2>1, <2>2, <2>3, <2>4 DEF FilesNext
<1>3. FilesInv => FileFollowsTheRoute
  BY DEF FilesInv
<1> QED BY <1>1, <1>2, <1>3, PTL DEF FilesSpec
=============================================================================

----------------------------- MODULE Admission -----------------------------
(***************************************************************************)
(* Whether the call of a tool runs: the policy's rules (src/policy.rs),    *)
(* the directories of an agent (src/agent/scope.rs), the verdict of a mode *)
(* (src/agent/security.rs), the decision and what an answer to its prompt  *)
(* grants (src/agent/permission.rs), carried out by a turn                 *)
(* (src/agent/runtime/execution.rs) while owners change the mode, the      *)
(* directories and the configuration (src/agent/runtime/settings.rs).      *)
(*                                                                         *)
(* A decision is made from one snapshot of the channel, and its prompt is  *)
(* published, answered and acted upon later.  A mode change is committed   *)
(* first and answers the pending prompts after that, in two sweeps, while  *)
(* another owner may change the mode again.                                *)
(*                                                                         *)
(* A file is a target, a directory the set of targets below it.  The text  *)
(* of commands, globs and hosts is left out: a call names its targets, and *)
(* Family gives the command prefix or the host that a target belongs to.   *)
(* Claims on prompts are in Escalation; sheets and failed writes are out.  *)
(***************************************************************************)
EXTENDS Naturals, FiniteSets

CONSTANTS Agents, Root, Handlers,
          Targets, Dirs,
          Content,     \* Content[d]: the targets inside d
          GrantDir,    \* GrantDir[t]: scope::grant_directory
          Family, NoFamily,
          Control,     \* targets that configure agents, in any directory
          Credentials, \* targets that are hidden by their names
          HiddenDirs,  \* stavlos's own directories and sandbox.hide
          Calls,       \* the calls of tools
          Makes,       \* Makes[a]: those that a makes
          ReadOnly,    \* the agents with a read-only role
          Configs,     \* configurations the project may have
          FullSandbox, \* Level::Full
          Home, NoDir,
          MaxEvents    \* bound of the model: commands and remembered
                       \* answers of owners, restarts

Verbs == {"allow", "ask", "deny"}
Modes == {"ask", "auto", "yolo"}
Kinds == {"path", "command", "url", "text"}
Rule == [ops : SUBSET STRING, targets : SUBSET Targets, literal : Nat, verb : Verbs]

ASSUME AdmissionAssumption ==
  /\ Root \in Agents /\ Home \in Dirs /\ NoDir \notin Dirs
  /\ Content \in [Dirs -> SUBSET Targets] /\ GrantDir \in [Targets -> Dirs]
  /\ \A t \in Targets : t \in Content[GrantDir[t]]
  /\ HiddenDirs \subseteq Dirs /\ Control \cup Credentials \subseteq Targets
  /\ NoFamily \notin Targets
  /\ \A c \in Calls : c.kind \in Kinds /\ c.values \subseteq Targets /\ c.first \in c.values /\ c.compound \in BOOLEAN
  /\ Makes \in [Agents -> SUBSET Calls] /\ ReadOnly \subseteq Agents
  /\ \A cf \in Configs : cf.dirs \subseteq Dirs /\ cf.default \in {"allow", "deny"}
  /\ \A cf \in Configs : \A layer \in {cf.base} \cup cf.overlays :
       layer \subseteq Rule /\ IsFiniteSet(layer)
  /\ MaxEvents \in Nat

VARIABLES
  mode, permits, dir, added,  \* of ChannelState: mode, permits, dir and dirs
  grants,    \* AgentState.directories of each agent; Inherit; Unborn
  config,    \* State.config
  agent,     \* the turn and the call of each agent
  sweep,     \* sweep[h]: a mode change of an owner that still answers prompts
  events

vars == <<mode, permits, dir, added, grants, config, agent, sweep, events>>
channel == <<mode, permits, dir, added, grants, config>>

Inherit == [inherit |-> TRUE, dirs |-> {}]
Unborn == [inherit |-> FALSE, dirs |-> {NoDir}]
NoAnswer == [value |-> "none", by |-> "none", mode |-> "none", dir |-> NoDir]
Values == {"allow", "allow_always", "allow_prefix", "deny"}
NoDecision == [verb |-> "none", boundary |-> NoDir, control |-> FALSE, bare |-> FALSE,
               egress |-> FALSE, hidden |-> FALSE]
\* stage: "out" of a turn, "idle" in one, then with a call: "decided", its
\* prompt "asked", its answer taken and its directory to be "granted", "run".
Out == [stage |-> "out", call |-> NoFamily, plan |-> CHOOSE cf \in Configs : TRUE,
        mode |-> "ask", dir |-> Home, dirs |-> {}, decision |-> NoDecision, repeat |-> FALSE,
        answer |-> NoAnswer, key |-> NoFamily, count |-> 0, streak |-> 0]

-----------------------------------------------------------------------------
(* The policy                                                              *)

Rank == [v \in {"none"} \cup Verbs |->
          CASE v = "none" -> 0 [] v = "allow" -> 1 [] v = "ask" -> 2 [] OTHER -> 3]
\* The tightest of some verbs.
Tightest(vs) == CHOOSE v \in vs : \A w \in vs : Rank[w] <= Rank[v]

\* Set::lookup: the most specific rule of a layer; among equals, the tightest.
Lookup(layer, op, t) ==
  LET hits == {r \in layer : op \in r.ops /\ t \in r.targets}
      best == {r \in hits : \A s \in hits : s.literal <= r.literal}
  IN IF hits = {} THEN "none" ELSE Tightest({r.verb : r \in best})

\* Layered::decide: what no base rule matches is asked; overlays only tighten.
BaseVerb(cf, op, t) == IF Lookup(cf.base, op, t) = "none" THEN "ask" ELSE Lookup(cf.base, op, t)
Layered(cf, op, t) == Tightest({BaseVerb(cf, op, t)} \cup {Lookup(o, op, t) : o \in cf.overlays})
\* A call is ruled as its worst part.
Ruled(cf, c) == Tightest({Layered(cf, c.op, t) : t \in c.values})

-----------------------------------------------------------------------------
(* Directories                                                             *)

Contains(ds, t) == \E d \in ds : t \in Content[d]
ContainsDir(ds, d) == \E e \in ds : Content[d] \subseteq Content[e]

ChannelDirs == {dir} \cup config.dirs \cup added
\* What is left of an agent's grants: those still inside the working set.
AgentDirs(a) == IF grants[a].inherit THEN ChannelDirs
                ELSE {d \in grants[a].dirs : ContainsDir(ChannelDirs, d)}

\* scope::child_scope: the first directory of the parent unless it asks for others.
ChildScope(parent, requested) ==
  /\ AgentDirs(parent) # {}
  /\ \A d \in requested : ContainsDir(AgentDirs(parent), d)
FirstDir(a) == IF dir \in AgentDirs(a) THEN dir ELSE CHOOSE d \in AgentDirs(a) : TRUE

\* The targets a directory is needed for: paths, and the words of a command
\* that may be paths.
Candidates(c) == IF c.kind \in {"path", "command"} THEN c.values ELSE {}
\* The directory that is offered for the first target outside of ds.
Outside(c, ds) ==
  LET out == {t \in Candidates(c) : ~Contains(ds, t)}
  IN IF out = {} THEN NoDir ELSE GrantDir[CHOOSE t \in out : TRUE]

-----------------------------------------------------------------------------
(* The decision                                                            *)

ModeVerdict(m, sticky, egress, outside) ==
  IF m = "yolo" /\ ~sticky THEN "allow"
  ELSE IF m = "auto" /\ outside THEN "deny"
  ELSE IF m = "auto" /\ ~sticky /\ ~egress THEN "allow"
  ELSE "ask"

ControlFile(c, ds) == c.op = "patch" /\ \E t \in c.values \cap Control : Contains(ds, t)
\* A hidden directory that holds a directory of the channel is not hidden.
HiddenPaths(ds) ==
  Credentials \cup UNION {Content[h] : h \in {h \in HiddenDirs : ~\E d \in ds : Content[d] \subseteq Content[h]}}
HiddenFrom(c, ds) == c.kind = "path" /\ c.values \cap HiddenPaths(ds) # {}
Egress(c) == c.kind = "url" \/ c.op \in {"search", "mcp"}
Covers(c) ==
  \A t \in c.values : \/ [op |-> c.op, on |-> t] \in permits
                      \/ Family[t] # NoFamily /\ [op |-> c.op, on |-> Family[t]] \in permits
HostsAllow(cf, c) == c.kind = "url" /\ \A t \in c.values : Family[t] \in cf.hosts

\* security::judge
Judge(d, ruled, compound, permitted, m) ==
  LET outside == d.boundary # NoDir
      ruledAsk == \/ ruled = "ask"
                  \/ ruled = "allow" /\ (compound \/ d.control \/ d.bare)
      asks == ruledAsk /\ (d.control \/ ~permitted)
  IN IF d.hidden \/ ruled = "deny" THEN "deny"
     ELSE IF ruledAsk /\ d.bare THEN IF outside /\ m = "auto" THEN "deny" ELSE "ask"
     ELSE IF asks \/ outside THEN ModeVerdict(m, d.control, d.egress, outside)
     ELSE "allow"

\* BoundaryEnvironment::decide, from the scope that Scope::capture took.
Decide(a, cf, c) ==
  LET ds == AgentDirs(a)
      d == [verb |-> "deny", boundary |-> Outside(c, ds), control |-> ControlFile(c, ds),
            bare |-> c.kind = "command" /\ cf.sandbox /\ ~FullSandbox,
            egress |-> Egress(c), hidden |-> HiddenFrom(c, ChannelDirs)]
      refused == \/ a \in ReadOnly /\ c.op = "patch"
                 \/ a \in ReadOnly /\ c.op = "shell" /\ ~(cf.sandbox /\ FullSandbox)
                 \/ a # Root /\ (ds = {} \/ d.boundary # NoDir)
      verb == IF refused THEN "deny"
              ELSE Judge(d, Ruled(cf, c), c.compound, Covers(c) \/ HostsAllow(cf, c), mode)
  IN [d EXCEPT !.verb = verb]

StickyForgotten(r) == r.repeat
Sticky(r) == r.repeat \/ r.decision.control \/ r.decision.bare
\* The prompt of a call that asks: what the sweep of a mode looks at.
PromptVerdict(r, m) ==
  IF r.repeat THEN ModeVerdict(m, TRUE, FALSE, FALSE)
  ELSE ModeVerdict(m, Sticky(r), r.decision.egress, r.decision.boundary # NoDir)

\* RepeatCall::repeated, for calls that would run unasked.
Count(r, c) == IF c = r.key THEN IF r.count < 3 THEN r.count + 1 ELSE 3 ELSE 1
Repeated(r, c, m) == Count(r, c) >= 3 /\ m # "yolo"

-----------------------------------------------------------------------------
(* The turn of an agent                                                    *)

Init ==
  /\ mode = "ask" /\ permits = {} /\ dir = Home /\ added = {}
  /\ grants = [a \in Agents |-> IF a = Root THEN Inherit ELSE Unborn]
  /\ config \in Configs
  /\ agent = [a \in Agents |-> Out]
  /\ sweep = [h \in Handlers |-> [at |-> "none", mode |-> "ask"]]
  /\ events = 0

Becomes(a, r) == agent' = [agent EXCEPT ![a] = r]
Idle(r) == [r EXCEPT !.stage = "idle", !.call = NoFamily, !.decision = NoDecision,
                     !.mode = "ask", !.dirs = {}, !.repeat = FALSE, !.answer = NoAnswer]
owners == <<sweep, events>>
Event == events < MaxEvents /\ events' = events + 1

\* begin_turn, and the prepare() of its first call of the model.
BeginTurn(a) ==
  /\ agent[a].stage = "out" /\ grants[a] # Unborn
  /\ Becomes(a, [Out EXCEPT !.stage = "idle", !.plan = config, !.dir = dir])
  /\ UNCHANGED <<channel, owners>>

\* The next call of the model: its tools are judged by the configuration of now.
Prepare(a) ==
  /\ agent[a].stage = "idle"
  /\ Becomes(a, [agent[a] EXCEPT !.plan = config])
  /\ UNCHANGED <<channel, owners>>

EndTurn(a) ==
  /\ agent[a].stage = "idle"
  /\ Becomes(a, Out)
  /\ UNCHANGED <<channel, owners>>

Streak(r, c) == IF mode = "yolo" THEN 0 ELSE IF c = r.key THEN r.streak + 1 ELSE 1

\* execute() and admit() until something is asked, refused or let through.
Start(a, c) ==
  LET r == agent[a]
      d == Decide(a, r.plan, c)
      rep == d.verb = "allow" /\ Repeated(r, c, mode)
      counted == IF d.verb # "allow" THEN r
                 ELSE [r EXCEPT !.key = c, !.count = IF rep THEN 0 ELSE Count(r, c),
                                !.streak = IF rep THEN 0 ELSE Streak(r, c)]
  IN /\ r.stage = "idle" /\ c \in Makes[a]
     /\ Becomes(a, IF d.verb = "deny" THEN r
                   ELSE [counted EXCEPT !.call = c, !.mode = mode, !.dirs = AgentDirs(a),
                           !.decision = d, !.repeat = rep,
                           !.stage = IF d.verb = "ask" \/ rep THEN "decided" ELSE "run"])
     /\ UNCHANGED <<channel, owners>>

\* AskService::request: only from here on does a sweep see the prompt.
Publish(a) ==
  /\ agent[a].stage = "decided"
  /\ Becomes(a, [agent[a] EXCEPT !.stage = "asked"])
  /\ UNCHANGED <<channel, owners>>

Pending(a) == agent[a].stage = "asked" /\ agent[a].answer = NoAnswer
Answer(a, ans) == /\ Pending(a)
                  /\ Becomes(a, [agent[a] EXCEPT !.answer = ans])
                  /\ UNCHANGED <<channel, sweep>>
\* An owner answers, and may name another directory than the one offered.
Remembered == {"allow_always", "allow_prefix"}
Reply(a, v, d) ==
  /\ d # NoDir => v \in Remembered /\ agent[a].decision.boundary # NoDir
  /\ IF v \in Remembered THEN Event ELSE UNCHANGED events
  /\ Answer(a, [NoAnswer EXCEPT !.value = v, !.by = "human", !.dir = d])
NoTimer(a) == FALSE
Default(a) == Answer(a, [NoAnswer EXCEPT !.value = config.default, !.by = "default"])
              /\ UNCHANGED events
\* The turn is cancelled: the prompt is withdrawn, unless its answer won.
Withdraw(a) ==
  /\ Pending(a)
  /\ Becomes(a, Out)
  /\ UNCHANGED <<channel, owners>>

\* What an answer adds to the permits.
Prefix(r) == IF r.decision.bare \/ r.decision.control THEN NoFamily ELSE Family[r.call.first]
PrefixOnly(r) == IF r.repeat \/ r.answer.value \notin Remembered THEN {}
                 ELSE {[op |-> r.call.op, on |-> Prefix(r)]}
Granted(r) ==
  IF r.repeat \/ r.answer.value \notin Remembered THEN {}
  ELSE IF r.answer.value = "allow_prefix" /\ Prefix(r) # NoFamily
       THEN {[op |-> r.call.op, on |-> Prefix(r)]}
       ELSE {[op |-> r.call.op, on |-> t] : t \in r.call.values}
GrantsWhenAllowed(r) == ~r.repeat /\ r.decision.boundary # NoDir
GrantsDirectory(r) ==
  ~r.repeat /\ r.decision.boundary # NoDir /\ r.answer.value # "allow"
Accepted(ans) == ans.value \in {"allow"} \cup Remembered

\* The request returns to admit().
Take(a) ==
  LET r == agent[a]
  IN /\ r.stage = "asked" /\ r.answer # NoAnswer
     /\ IF Accepted(r.answer)
        THEN /\ permits' = permits \cup Granted(r)
             /\ Becomes(a, [r EXCEPT !.stage = IF GrantsDirectory(r) THEN "grant" ELSE "run"])
        ELSE Becomes(a, Idle(r)) /\ UNCHANGED permits
     /\ UNCHANGED <<mode, dir, added, grants, config, owners>>

Added(d) == IF ContainsDir(ChannelDirs, d) THEN added ELSE added \cup {d}
Grant(a) ==
  LET r == agent[a]
      d == IF r.answer.dir = NoDir THEN r.decision.boundary ELSE r.answer.dir
  IN /\ r.stage = "grant"
     /\ added' = Added(d)
     /\ Becomes(a, [r EXCEPT !.stage = "run"])
     /\ UNCHANGED <<mode, permits, dir, grants, config, owners>>

\* The tool runs, in the directories that its agent has by now.
Run(a) ==
  /\ agent[a].stage = "run"
  /\ Becomes(a, Idle(agent[a]))
  /\ UNCHANGED <<channel, owners>>

\* A tool of the root creates an agent with task directories.
Spawn(a, requested) ==
  /\ agent[Root].stage = "idle" /\ grants[a] = Unborn
  /\ ChildScope(Root, requested)
  /\ grants' = [grants EXCEPT ![a] =
       [inherit |-> FALSE, dirs |-> IF requested = {} THEN {FirstDir(Root)} ELSE requested]]
  /\ UNCHANGED <<mode, permits, dir, added, config, agent, owners>>

-----------------------------------------------------------------------------
(* The owners                                                              *)

\* The handler of channel/set_mode commits, and then sweeps for each verdict.
SetMode(h, m) ==
  /\ Event
  /\ sweep[h].at = "none"
  /\ mode' = m
  /\ sweep' = [sweep EXCEPT ![h] = [at |-> "allow", mode |-> m]]
  /\ UNCHANGED <<permits, dir, added, grants, config, agent>>

Swept(h, a) == Pending(a) /\ PromptVerdict(agent[a], sweep[h].mode) = sweep[h].at
Sweep(h) ==
  /\ sweep[h].at # "none"
  /\ agent' = [a \in Agents |->
       IF Swept(h, a)
       THEN [agent[a] EXCEPT !.answer = [NoAnswer EXCEPT !.value = sweep[h].at, !.by = "mode",
                                                         !.mode = sweep[h].mode]]
       ELSE agent[a]]
  /\ sweep' = [sweep EXCEPT ![h] =
       IF @.at = "allow" THEN [@ EXCEPT !.at = "deny"] ELSE [at |-> "none", mode |-> "ask"]]
  /\ UNCHANGED <<channel, events>>

AddDirectory(d) ==
  /\ Event
  /\ added' = Added(d)
  /\ UNCHANGED <<mode, permits, dir, grants, config, agent, sweep>>

RemoveDirectory(d) ==
  /\ Event
  /\ d \in added \ ({dir} \cup config.dirs)
  /\ added' = added \ {d}
  /\ UNCHANGED <<mode, permits, dir, grants, config, agent, sweep>>

\* set_directory: no agent may have a turn, a job or a prompt.
AllIdle == \A a \in Agents : agent[a].stage = "out"
Move(d, cf) ==
  /\ Event
  /\ AllIdle
  /\ d # dir
  /\ dir' = d /\ mode' = "ask" /\ permits' = {} /\ config' = cf
  /\ UNCHANGED <<added, grants, agent, sweep>>

SetConfiguration(cf) ==
  /\ Event
  /\ config' = cf
  /\ UNCHANGED <<mode, permits, dir, added, grants, agent, sweep>>

\* The channel is folded from its log; turns, prompts and sweeps are gone.
Restart ==
  /\ Event
  /\ agent' = [a \in Agents |-> Out]
  /\ sweep' = [h \in Handlers |-> [at |-> "none", mode |-> "ask"]]
  /\ UNCHANGED channel

-----------------------------------------------------------------------------
Requests == SUBSET Dirs
Step(a) ==
  \/ BeginTurn(a) \/ Prepare(a) \/ EndTurn(a)
  \/ \E c \in Calls : Start(a, c)
  \/ Publish(a) \/ Default(a) \/ Withdraw(a) \/ Take(a) \/ Grant(a) \/ Run(a)
  \/ \E v \in Values, d \in Dirs \cup {NoDir} : Reply(a, v, d)
  \/ \E ds \in Requests : Spawn(a, ds)
Owner ==
  \/ \E h \in Handlers : Sweep(h) \/ \E m \in Modes : SetMode(h, m)
  \/ \E d \in Dirs : \/ AddDirectory(d) \/ RemoveDirectory(d)
                     \/ \E cf \in Configs : Move(d, cf)
  \/ \E cf \in Configs : SetConfiguration(cf)
  \/ Restart
Next == (\E a \in Agents : Step(a)) \/ Owner

Spec == Init /\ [][Next]_vars
\* The runtime polls the task of a turn, and the prompt has a timer.
FairSpec ==
  /\ Spec
  /\ \A a \in Agents : WF_vars(Publish(a) \/ Default(a) \/ Take(a) \/ Grant(a) \/ Run(a))

-----------------------------------------------------------------------------
(* Properties                                                              *)

TypeOK ==
  /\ mode \in Modes /\ dir \in Dirs /\ added \subseteq Dirs /\ config \in Configs
  /\ \A p \in permits : p.on \in Targets \cup {Family[t] : t \in Targets} /\ p.on # NoFamily
  /\ \A a \in Agents : grants[a].dirs \subseteq Dirs \/ grants[a] = Unborn
  /\ \A a \in Agents : LET r == agent[a] IN
       /\ r.stage \in {"out", "idle", "decided", "asked", "grant", "run"}
       /\ r.stage \in {"decided", "asked", "grant", "run"} => r.call \in Makes[a]
       /\ r.decision.verb # "deny" /\ r.count \in 0 .. 3
       /\ (r.decision.verb = "ask" \/ r.repeat) => r.stage # "run" \/ Accepted(r.answer)
  /\ \A h \in Handlers : sweep[h].at \in {"none", "allow", "deny"} /\ sweep[h].mode \in Modes
  /\ events \in 0 .. MaxEvents

\* What hides credentials, the rules of every layer and the directories of a
\* task hold for each call that runs, whatever the mode, permits and answers.
NothingForbidden(a, r) ==
  /\ r.call.kind = "path" => r.call.values \cap Credentials = {}
  /\ \A layer \in {r.plan.base} \cup r.plan.overlays, t \in r.call.values :
       Lookup(layer, r.call.op, t) # "deny"
  /\ a # Root /\ r.call.kind \in {"path", "command"} =>
       /\ \A t \in r.call.values : Contains(r.dirs, t)
       /\ \A d \in r.dirs : d \in grants[a].dirs

\* A call on a file that configures agents, or outside a sandbox that should
\* be there, runs only when somebody was asked: no mode, sweep or permit
\* answers for the owner.
StickyIsAsked(r) ==
  r.decision.control \/ r.decision.bare => r.answer.by \in {"human", "default"}

\* A call that nobody was asked about has a rule, a permit or a mode for it.
HasWarrant(r) ==
  LET known == \/ Ruled(r.plan, r.call) = "allow" /\ ~r.call.compound
               \/ Covers(r.call)
               \/ HostsAllow(r.plan, r.call)
      inside == r.decision.boundary = NoDir
  IN /\ r.answer = NoAnswer =>
          \/ r.mode = "yolo"
          \/ inside /\ (known \/ (r.mode = "auto" /\ ~r.decision.egress))
     /\ r.answer.by = "mode" =>
          \/ r.answer.mode = "yolo"
          \/ r.answer.mode = "auto" /\ inside /\ ~r.decision.egress

\* Every call about to run may run: however its decision, its prompt, the
\* sweeps of two owners and their other commands interleave.
RunsAreWarranted ==
  \A a \in Agents : LET r == agent[a] IN
    r.stage = "run" => NothingForbidden(a, r) /\ StickyIsAsked(r) /\ HasWarrant(r)

\* A turn never outlives the directory it began in: what is decided, asked
\* and remembered in it is about the channel's directory of now.
TurnsStay == \A a \in Agents : agent[a].stage # "out" => agent[a].dir = dir

\* Outside yolo, at most two calls in a row that are the same run unasked.
RepeatsAreAsked == \A a \in Agents : agent[a].streak <= 2

\* What is let through is let through rightly, now and for the third time.
CallsAreJudged == RunsAreWarranted /\ TurnsStay /\ RepeatsAreAsked

\* Only people widen what agents may do (src/agent/permission.rs:1): permits
\* come from a remembered answer, directories from that or from an owner's
\* command; modes, sweeps, timers and agents add neither.
ByAnswer(a) == agent[a].answer.by = "human" /\ agent[a].answer.value \in Remembered
OnlyPeopleWiden ==
  [][/\ ~(permits' \subseteq permits) => \E a \in Agents : Take(a) /\ ByAnswer(a)
     /\ ~(added' \subseteq added) => \/ \E a \in Agents : Grant(a) /\ ByAnswer(a)
                                     \/ \E d \in Dirs : AddDirectory(d)]_vars

\* A call that asks is decided in the end, though nobody answers.
CallsEnd == \A a \in Agents : agent[a].stage = "decided" ~> agent[a].stage \in {"idle", "out"}
=============================================================================

--------------------------- MODULE ChannelRuntime ---------------------------
(***************************************************************************)
(* One channel's actors: src/agent/runtime, the fold of src/agent/state.rs *)
(* and the job registry of src/agent/services.rs.  Each agent runs a loop  *)
(* that sleeps until it is woken, takes a turn, and asks again; the owner  *)
(* queues input, cancels, kills, archives, changes the directory and stops *)
(* the channel at any moment.                                              *)
(*                                                                         *)
(* Every action is one critical section of the Core lock.  A decision is   *)
(* appended to the event log before it is folded (Commit); a fact, which   *)
(* happened whether or not it can be written, is folded either way (Fact). *)
(* `mem` is the fold the process acts on, `log` the fold of what is on     *)
(* disk: the two differ by the facts that could not be written.            *)
(*                                                                         *)
(* An inbox is the set of the kinds of input in it: every guard asks only  *)
(* whether a kind is there.  Messages are the subject of module Requests.  *)
(***************************************************************************)
EXTENDS Naturals, FiniteSets

CONSTANTS Agents,
          Root,         \* the main agent
          Parent,       \* Parent[a]: the agent whose turn may spawn a
          Jobs,         \* ids of background commands
          MaxInputs,    \* bound of the model: inputs from outside and reminders
          MaxFaults,    \* bound of the model: appends that fail
          MaxCrashes,   \* bound of the model: restarts of the daemon
          MaxMoves      \* bound of the model: directory changes

ASSUME RuntimeAssumption ==
  /\ Root \in Agents
  /\ Parent \in [Agents \ {Root} -> Agents]
  /\ "unused" \notin Agents /\ "gone" \notin Agents
  /\ {MaxInputs, MaxFaults, MaxCrashes, MaxMoves} \subseteq Nat

VARIABLES
  mem,         \* State.channel: the fold in memory
  log,         \* the same fold over the events on disk
  stopped,     \* State.stopped, or no runtime was restored
  logErr,      \* the agents with an entry in State.log_errors
  wake,        \* wake[a]: the permit of the Notify of a
  pc,          \* pc[a]: where Actor::run of a is
  token,       \* token[a]: Running.turn
  lifetime,    \* the agents whose lifetime token is cancelled
  maintenance, \* maintenance[a]: a manual compaction of a
  registry,    \* registry[a]: JobRegistry.jobs
  process,     \* process[j]: the agent whose task waits for command j
  mover,       \* where set_directory is; `reconfiguring` unless "idle"
  archiver,    \* archive() between its kill and its commit
  spent        \* counters of the model's bounds

folds == <<mem, log>>
vars == <<mem, log, stopped, logErr, wake, pc, token, lifetime, maintenance,
          registry, process, mover, archiver, spent>>

\* Classes of input by event::input_rule: a steer, like a request, wakes its
\* agent and is taken between two calls of a turn; a prompt, a job's end and a
\* reminder wake and wait for the next turn; an info does not wake.
Kinds == {"prompt", "steer", "info", "job", "reminder"}
Wakes == Kinds \ {"info"}
MidTurn == {"steer", "info"}

Places == {"absent", "asleep", "ready", "check", "prepare", "call", "tools",
           "tool", "ending", "answered", "replies", "drop", "exited"}
Fold == [spawned : SUBSET Agents, killed : SUBSET Agents, inTurn : SUBSET Agents,
         inbox : [Agents -> SUBSET Kinds], jobs : [Agents -> SUBSET Jobs],
         compacting : SUBSET Agents, dir : 0 .. MaxMoves, archived : BOOLEAN]

\* An agent and all that work for it, at whatever distance.
Closed(S) == \A b \in Agents \ {Root} : Parent[b] \in S => b \in S
Subtree(a) == {b \in Agents : \A S \in SUBSET Agents : a \in S /\ Closed(S) => b \in S}

Alive(ch) == ch.spawned \ ch.killed
StartsTurn(ch, a) == ch.inbox[a] \cap Wakes # {}
DeadOnly(a) == a \in lifetime
Cancelled(a) == token[a] = "cancelled" \/ a \in lifetime
reconfiguring == mover # "idle"

-----------------------------------------------------------------------------
(* The fold: ChannelState::apply                                           *)

AgentSpawned(ch, a) == [ch EXCEPT !.spawned = @ \cup {a}]
InputQueued(ch, a, kinds) == [ch EXCEPT !.inbox[a] = @ \cup kinds]
InputTaken(ch, a, kinds) == [ch EXCEPT !.inbox[a] = @ \ kinds]
TurnStarted(ch, a) == [ch EXCEPT !.inTurn = @ \cup {a}]
TurnEnded(ch, a) == [ch EXCEPT !.inTurn = @ \ {a}]
JobStarted(ch, a, j) == [ch EXCEPT !.jobs[a] = @ \cup {j}]
JobsEnded(ch, a, js) == [ch EXCEPT !.jobs[a] = @ \ js]
AgentsKilled(ch, as) ==
  [ch EXCEPT !.killed = @ \cup as, !.inTurn = @ \ as,
             !.jobs = [a \in Agents |-> IF a \in as THEN {} ELSE @[a]]]
Compacting(ch, a) == [ch EXCEPT !.compacting = @ \cup {a}]
Compacted(ch, a) == [ch EXCEPT !.compacting = @ \ {a}]
DirectoryChanged(ch) ==
  [ch EXCEPT !.dir = @ + 1,
             !.inbox = [a \in Agents |-> IF a \in Alive(ch) THEN @[a] \cup {"info"} ELSE @[a]]]

-----------------------------------------------------------------------------
(* The journal: Core::commit_locked and Core::fact_locked                  *)

\* What an event makes of the fold in memory and of the one on disk.
Copies == {mem, log}

\* A stopped channel refuses the append; otherwise the log may fail it.
Append(ok) ==
  \/ ok /\ ~stopped /\ UNCHANGED spent
  \/ ~ok /\ stopped /\ UNCHANGED spent
  \/ ~ok /\ ~stopped /\ spent.faults < MaxFaults
     /\ spent' = [spent EXCEPT !.faults = @ + 1]

FoldedAnyway(ok) == ~stopped
Decided(ok) == ok

Commit(ok, F) ==
  /\ Append(ok)
  /\ mem' = IF Decided(ok) THEN F[mem] ELSE mem
  /\ log' = IF ok THEN F[log] ELSE log

Fact(ok, F) ==
  /\ Append(ok)
  /\ mem' = IF stopped THEN mem ELSE F[mem]
  /\ log' = IF ok THEN F[log] ELSE log

\* Core::record: a decision whose failure is remembered.
Record(a, ok, F) ==
  /\ Commit(ok, F)
  /\ logErr' = IF ok THEN logErr ELSE logErr \cup {a}

\* Notify::notify_one for the agents of as.
NotifyAll(as) == wake' = [a \in Agents |-> wake[a] \/ a \in as]
Woken(a, kinds) == IF kinds \cap Wakes # {} /\ a \notin mem.killed THEN {a} ELSE {}

At(a, place) == pc' = [pc EXCEPT ![a] = place]

\* What a step of an agent's own turn leaves alone.
Elsewhere == UNCHANGED <<stopped, lifetime, maintenance, mover, archiver>>
NoJobs == UNCHANGED <<registry, process>>

-----------------------------------------------------------------------------
(* The loop of an agent: Actor::run                                        *)

Wake(a) ==
  /\ pc[a] = "asleep" /\ wake[a]
  /\ wake' = [wake EXCEPT ![a] = FALSE]
  /\ At(a, "ready")
  /\ Elsewhere /\ NoJobs /\ UNCHANGED <<folds, logErr, token, spent>>

\* Either branch of the select, or the test of the inner loop.
Exit(a) ==
  /\ pc[a] \in {"asleep", "ready"} /\ a \in lifetime
  /\ At(a, "exited")
  /\ Elsewhere /\ NoJobs /\ UNCHANGED <<folds, logErr, wake, token, spent>>

BeginWhileMoving(a) ==
  ~stopped /\ a \notin mem.killed /\ a \notin mem.inTurn /\ StartsTurn(mem, a)
MayBegin(a) ==
  /\ ~stopped /\ ~reconfiguring
  /\ a \notin mem.killed /\ a \notin mem.inTurn
  /\ StartsTurn(mem, a)

\* begin_turn takes the whole inbox.  When the append fails the loop goes back
\* to sleep: nothing wakes it again for the input it has left.
BeginTurn(a) ==
  /\ pc[a] = "ready"
  /\ IF ~MayBegin(a)
     THEN /\ At(a, "asleep")
          /\ UNCHANGED <<folds, logErr, token, spent>>
     ELSE \E ok \in BOOLEAN :
          /\ Commit(ok, [ch \in Copies |-> InputTaken(TurnStarted(ch, a), a, mem.inbox[a])])
          /\ At(a, IF ok THEN "check" ELSE "asleep")
          /\ token' = IF ok THEN [token EXCEPT ![a] = "live"] ELSE token
          /\ logErr' = IF ok THEN logErr \ {a} ELSE logErr
  /\ Elsewhere /\ NoJobs /\ UNCHANGED wake

-----------------------------------------------------------------------------
(* A turn: Turn::run                                                       *)

\* The top of the loop: a cancelled turn ends; the role's turn limit or the
\* limit of calls may end it too.
Check(a) ==
  /\ pc[a] = "check"
  /\ \/ At(a, "ending")
     \/ ~Cancelled(a) /\ At(a, "prepare")
  /\ Elsewhere /\ NoJobs /\ UNCHANGED <<folds, logErr, wake, token, spent>>

\* prepare(): a remembered failure of the log ends the turn, else the input
\* that may be taken inside a turn is taken.  The model, the directory or the
\* budget may refuse the call.
Remembered(a) == a \in logErr
Prepare(a) ==
  /\ pc[a] = "prepare"
  /\ \/ /\ Remembered(a)
        /\ logErr' = logErr \ {a}
        /\ At(a, "ending")
        /\ UNCHANGED <<folds, spent>>
     \/ /\ ~Remembered(a)
        /\ mem.inbox[a] \cap MidTurn # {}
        /\ \E ok \in BOOLEAN :
             /\ Commit(ok, [ch \in Copies |-> InputTaken(ch, a, mem.inbox[a] \cap MidTurn)])
             /\ IF ok THEN At(a, "call") \/ At(a, "ending") ELSE At(a, "ending")
        /\ UNCHANGED logErr
     \/ /\ ~Remembered(a)
        /\ mem.inbox[a] \cap MidTurn = {}
        /\ At(a, "call") \/ At(a, "ending")
        /\ UNCHANGED <<folds, logErr, spent>>
  /\ Elsewhere /\ NoJobs /\ UNCHANGED <<wake, token>>

\* The model call returns: its message is recorded, with tools to run or not;
\* or it failed, and what it said before is recorded if there is anything.
CallReturns(a) ==
  /\ pc[a] = "call"
  /\ \/ \E ok \in BOOLEAN :
          /\ Record(a, ok, [ch \in Copies |-> ch])
          /\ IF ok THEN At(a, "tools") \/ At(a, "answered") \/ At(a, "ending")
             ELSE At(a, "ending")
     \/ At(a, "ending") /\ UNCHANGED <<folds, logErr, spent>>
  /\ Elsewhere /\ NoJobs /\ UNCHANGED <<wake, token>>

\* execute(): a tool runs only after its start is recorded.
ToolStarts(a) ==
  /\ pc[a] = "tools" /\ ~Cancelled(a)
  /\ \E ok \in BOOLEAN :
       /\ Record(a, ok, [ch \in Copies |-> ch])
       /\ At(a, IF ok THEN "tool" ELSE "tools")
  /\ Elsewhere /\ NoJobs /\ UNCHANGED <<wake, token>>

ToolFinishes(a) ==
  /\ pc[a] = "tool"
  /\ \E ok \in BOOLEAN : Record(a, ok, [ch \in Copies |-> ch])
  /\ At(a, "tools")
  /\ Elsewhere /\ NoJobs /\ UNCHANGED <<wake, token>>

\* No tool call of the message is left, or the turn is cancelled.
ToolsDone(a) ==
  /\ pc[a] = "tools"
  /\ At(a, "check")
  /\ Elsewhere /\ NoJobs /\ UNCHANGED <<folds, logErr, wake, token, spent>>

\* end(): the fact, and the turn's token in the same critical section.
End(a) ==
  /\ pc[a] \in {"ending", "answered"}
  /\ \E ok \in BOOLEAN :
       /\ Fact(ok, [ch \in Copies |-> TurnEnded(ch, a)])
       /\ logErr' = IF ok \/ stopped THEN logErr ELSE logErr \ {a}
  /\ token' = [token EXCEPT ![a] = "none"]
  /\ At(a, IF pc[a] = "answered" THEN "replies" ELSE "drop")
  /\ Elsewhere /\ NoJobs /\ UNCHANGED wake

\* end_replies(): after the lock was released, a reminder if a reply is owed.
\* Whether one is owed is module Requests's subject: either may happen here.
EndReplies(a) ==
  /\ pc[a] = "replies"
  /\ \/ UNCHANGED <<folds, wake, spent>>
     \/ /\ ~stopped /\ mem.jobs[a] = {} /\ spent.inputs < MaxInputs
        /\ mem' = InputQueued(mem, a, {"reminder"})
        /\ log' = InputQueued(log, a, {"reminder"})
        /\ spent' = [spent EXCEPT !.inputs = @ + 1]
        /\ NotifyAll(Woken(a, {"reminder"}))
     \/ Commit(FALSE, [ch \in Copies |-> ch]) /\ UNCHANGED wake
  /\ At(a, "drop")
  /\ Elsewhere /\ NoJobs /\ UNCHANGED <<logErr, token>>

\* TurnScope is dropped; the inner loop asks again.
DropScope(a) ==
  /\ pc[a] = "drop"
  /\ token' = [token EXCEPT ![a] = "none"]
  /\ At(a, "ready")
  /\ Elsewhere /\ NoJobs /\ UNCHANGED <<folds, logErr, wake, spent>>

-----------------------------------------------------------------------------
(* Tools that change the channel                                           *)

\* A child is spawned with its task; its loop starts after the commit.
Spawn(c) ==
  LET p == Parent[c]
  IN /\ c # Root /\ pc[p] = "tool" /\ c \notin mem.spawned
     /\ ~reconfiguring /\ ~stopped /\ ~mem.archived
     /\ p \in Alive(mem) /\ ~Cancelled(p)
     /\ \E ok \in BOOLEAN :
          /\ Commit(ok, [ch \in Copies |-> InputQueued(AgentSpawned(ch, c), c, {"steer"})])
          /\ IF ok THEN At(c, "asleep") /\ NotifyAll({c}) ELSE UNCHANGED <<pc, wake>>
     /\ Elsewhere /\ NoJobs /\ UNCHANGED <<logErr, token>>

AdoptAnyway(a) == a \notin mem.killed
MayAdopt(a) == token[a] = "live" /\ a \notin lifetime /\ a \notin mem.killed

\* JobRegistry::adopt: the command outlives the turn from here on.
Adopt(a, j) ==
  /\ pc[a] = "tool" /\ process[j] = "unused"
  /\ MayAdopt(a)
  /\ \E ok \in BOOLEAN :
       /\ Commit(ok, [ch \in Copies |-> JobStarted(ch, a, j)])
       /\ registry' = IF ok THEN [registry EXCEPT ![a] = @ \cup {j}] ELSE registry
       /\ process' = [process EXCEPT ![j] = IF ok THEN a ELSE "gone"]
  /\ Elsewhere /\ UNCHANGED <<logErr, wake, pc, token>>

\* JobRegistry::stop, called by the agent's own tool.
StopJob(a, j) ==
  /\ pc[a] = "tool" /\ j \in registry[a]
  /\ registry' = [registry EXCEPT ![a] = @ \ {j}]
  /\ \E ok \in BOOLEAN : Fact(ok, [ch \in Copies |-> JobsEnded(ch, a, {j})])
  /\ Elsewhere /\ UNCHANGED <<logErr, wake, pc, token, process>>

TellNobody(ch, a) == ch
TellJob(ch, a) == InputQueued(ch, a, {"job"})

\* The command exits: JobRegistry::finish records it unless it was stopped.
FinishJob(a, j) ==
  /\ process[j] = a
  /\ process' = [process EXCEPT ![j] = "gone"]
  /\ IF j \in registry[a]
     THEN /\ registry' = [registry EXCEPT ![a] = @ \ {j}]
          /\ \E ok \in BOOLEAN : Fact(ok, [ch \in Copies |-> TellJob(JobsEnded(ch, a, {j}), a)])
          /\ IF stopped THEN UNCHANGED wake ELSE NotifyAll(Woken(a, {"job"}))
     ELSE UNCHANGED <<folds, registry, wake, spent>>
  /\ Elsewhere /\ UNCHANGED <<logErr, pc, token>>

\* Its token, a child of the agent's lifetime, is cancelled: the command is
\* killed and the registry is not asked.
StoppedOnly(a, j) == j \notin registry[a]
JobCancelled(a, j) == j \notin registry[a] \/ a \in lifetime
ReapJob(a, j) ==
  /\ process[j] = a
  /\ JobCancelled(a, j)
  /\ process' = [process EXCEPT ![j] = "gone"]
  /\ Elsewhere /\ UNCHANGED <<folds, logErr, wake, pc, token, registry, spent>>

-----------------------------------------------------------------------------
(* The owner, the clients and the other agents                             *)

\* queue(), post() and message(): input for an agent that is not killed.
Queue(a, kind) ==
  /\ a \in Alive(mem) /\ ~stopped /\ spent.inputs < MaxInputs
  /\ mem' = InputQueued(mem, a, {kind})
  /\ log' = InputQueued(log, a, {kind})
  /\ spent' = [spent EXCEPT !.inputs = @ + 1]
  /\ NotifyAll(Woken(a, {kind}))
  /\ Elsewhere /\ NoJobs /\ UNCHANGED <<logErr, pc, token>>

\* Channel::cancel: the running turn and every background command.
TakeToken(a) == [token EXCEPT ![a] = "none"]
CancelAnyToken(a) == [token EXCEPT ![a] = "cancelled"]
CancelToken(a) == [token EXCEPT ![a] = IF @ = "live" THEN "cancelled" ELSE @]
DrainNothing(a) == {}
Drained(a) == registry[a]
Cancel(a) ==
  /\ a \in mem.spawned
  /\ token' = CancelToken(a)
  /\ registry' = [registry EXCEPT ![a] = {}]
  /\ \E ok \in BOOLEAN : Fact(ok, [ch \in Copies |-> JobsEnded(ch, a, Drained(a))])
  /\ Elsewhere /\ UNCHANGED <<logErr, wake, pc, process>>

JustThisOne(a) == {a} \ mem.killed
Doomed(a) == (Subtree(a) \cap mem.spawned) \ mem.killed

\* Channel::kill: the agent and all below it.  (shutdown() of their jobs then
\* only waits for ReapJob.)
Slay(a) ==
  /\ lifetime' = lifetime \cup Doomed(a)
  /\ IF Doomed(a) = {}
     THEN UNCHANGED <<folds, spent>>
     ELSE \E ok \in BOOLEAN : Fact(ok, [ch \in Copies |-> AgentsKilled(ch, Doomed(a))])
  /\ UNCHANGED <<stopped, logErr, wake, pc, token, maintenance, registry, process, mover>>

Kill(a) == a \in Alive(mem) /\ Slay(a) /\ UNCHANGED archiver

\* archive(): kill the main agent, commit, cancel the channel's lifetime.
ArchiveBegins == archiver = "idle" /\ ~mem.archived /\ Slay(Root) /\ archiver' = "killed"
ArchiveEnds ==
  /\ archiver = "killed"
  /\ \E ok \in BOOLEAN : Commit(ok, [ch \in Copies |-> [ch EXCEPT !.archived = TRUE]])
  /\ lifetime' = Agents
  /\ archiver' = "done"
  /\ UNCHANGED <<stopped, logErr, wake, pc, token, maintenance, registry, process, mover>>

-----------------------------------------------------------------------------
(* Manual compaction: Actor::compact                                       *)

CompactBegins(a) ==
  /\ a \in Alive(mem) /\ ~reconfiguring /\ a \notin mem.inTurn
  /\ a \notin mem.compacting /\ maintenance[a] = "none"
  /\ maintenance' = [maintenance EXCEPT ![a] = "begun"]
  /\ UNCHANGED <<folds, stopped, logErr, wake, pc, token, lifetime, registry,
                 process, mover, archiver, spent>>

CompactStarts(a) ==
  /\ maintenance[a] = "begun"
  /\ \E ok \in BOOLEAN :
       /\ Commit(ok, [ch \in Copies |-> Compacting(ch, a)])
       /\ maintenance' = [maintenance EXCEPT ![a] = IF ok THEN "summarising" ELSE "none"]
  /\ UNCHANGED <<stopped, logErr, wake, pc, token, lifetime, registry, process,
                 mover, archiver>>

\* COMPACTION_DONE is a decision; without it the guard folds COMPACTION_FAILED.
CompactDone(a) ==
  /\ maintenance[a] = "summarising"
  /\ \E ok \in BOOLEAN :
       /\ Record(a, ok, [ch \in Copies |-> Compacted(ch, a)])
       /\ maintenance' = [maintenance EXCEPT ![a] = IF ok THEN "none" ELSE "failing"]
  /\ UNCHANGED <<stopped, wake, pc, token, lifetime, registry, process, mover, archiver>>

CompactFails(a) ==
  /\ maintenance[a] \in {"summarising", "failing"}
  /\ maintenance' = [maintenance EXCEPT ![a] = "none"]
  /\ \E ok \in BOOLEAN : Fact(ok, [ch \in Copies |-> Compacted(ch, a)])
  /\ UNCHANGED <<stopped, logErr, wake, pc, token, lifetime, registry, process,
                 mover, archiver>>

-----------------------------------------------------------------------------
(* The directory: set_directory                                            *)

FoldIsIdle(a) == a \notin mem.inTurn /\ ~StartsTurn(mem, a) /\ mem.jobs[a] = {}
Idle(a) ==
  /\ a \notin mem.inTurn /\ ~StartsTurn(mem, a)
  /\ a \notin mem.compacting
  /\ mem.jobs[a] = {}
  /\ token[a] = "none" /\ maintenance[a] = "none"

MoveBegins ==
  /\ mover = "idle" /\ ~stopped /\ ~mem.archived
  /\ mem.dir < MaxMoves
  /\ \A a \in Alive(mem) : Idle(a)
  /\ mover' = "loading"
  /\ UNCHANGED <<folds, stopped, logErr, wake, pc, token, lifetime, maintenance,
                 registry, process, archiver, spent>>

\* The configuration was loaded with the lock released; or it could not be.
MoveCommits ==
  /\ mover = "loading"
  /\ mover' = "leaving"
  /\ \/ \E ok \in BOOLEAN : Commit(ok, [ch \in Copies |-> DirectoryChanged(ch)])
     \/ UNCHANGED <<folds, spent>>
  /\ UNCHANGED <<stopped, logErr, wake, pc, token, lifetime, maintenance,
                 registry, process, archiver>>

\* The Transition guard is dropped: every agent asks again.
NotifyNobody == UNCHANGED wake
NotifyEverybody == NotifyAll(mem.spawned)
MoveEnds ==
  /\ mover = "leaving"
  /\ mover' = "idle"
  /\ NotifyEverybody
  /\ UNCHANGED <<folds, stopped, logErr, pc, token, lifetime, maintenance,
                 registry, process, archiver, spent>>

-----------------------------------------------------------------------------
(* Stop, crash and restore                                                 *)

Stop ==
  /\ ~stopped
  /\ stopped' = TRUE
  /\ lifetime' = Agents
  /\ UNCHANGED <<folds, logErr, wake, pc, token, maintenance, registry, process,
                 mover, archiver, spent>>

\* recovery_events: an open turn is aborted, a lost job is reported.
Repaired(ch) ==
  [ch EXCEPT !.inTurn = {}, !.compacting = {},
     !.inbox = [a \in Agents |->
        IF a \in Alive(ch) /\ ch.jobs[a] # {} THEN @[a] \cup {"job"} ELSE @[a]],
     !.jobs = [a \in Agents |-> IF a \in Alive(ch) THEN {} ELSE @[a]]]

NotifyRestored(ch) == [a \in Agents |-> a \in Alive(ch) /\ StartsTurn(ch, a)]

\* The daemon restarts: recover() folds the log, restore() commits the repairs
\* and starts the loops.  An archived channel, or one whose repairs cannot be
\* written, gets no runtime.
Restart ==
  LET ch == Repaired(log)
      dead == {a \in Agents : \E b \in log.killed : a \in Subtree(b)}
  IN /\ spent.crashes < MaxCrashes
     /\ \E ok \in BOOLEAN :
          /\ ok \/ (ch # log /\ spent.faults < MaxFaults)   \* no repair, no append
          /\ spent' = [spent EXCEPT !.crashes = @ + 1, !.faults = @ + (IF ok THEN 0 ELSE 1)]
          /\ mem' = IF ok THEN ch ELSE log
          /\ log' = IF ok THEN ch ELSE log
          /\ stopped' = (log.archived \/ ~ok)
          /\ lifetime' = IF log.archived \/ ~ok THEN Agents ELSE dead
          /\ pc' = [a \in Agents |-> IF a \notin log.spawned THEN "absent"
               ELSE IF ok /\ ~log.archived /\ a \in Alive(log) THEN "asleep" ELSE "exited"]
          /\ wake' = NotifyRestored(ch)
     /\ logErr' = {}
     /\ token' = [a \in Agents |-> "none"]
     /\ maintenance' = [a \in Agents |-> "none"]
     /\ registry' = [a \in Agents |-> {}]
     /\ process' = [j \in Jobs |-> IF process[j] = "unused" THEN "unused" ELSE "gone"]
     /\ mover' = "idle"
     /\ archiver' = "idle"

-----------------------------------------------------------------------------
Init ==
  LET ch == [spawned |-> {Root}, killed |-> {}, inTurn |-> {},
             inbox |-> [a \in Agents |-> {}], jobs |-> [a \in Agents |-> {}],
             compacting |-> {}, dir |-> 0, archived |-> FALSE]
  IN /\ mem = ch /\ log = ch
     /\ stopped = FALSE /\ logErr = {}
     /\ wake = [a \in Agents |-> FALSE]
     /\ pc = [a \in Agents |-> IF a = Root THEN "asleep" ELSE "absent"]
     /\ token = [a \in Agents |-> "none"]
     /\ lifetime = {}
     /\ maintenance = [a \in Agents |-> "none"]
     /\ registry = [a \in Agents |-> {}]
     /\ process = [j \in Jobs |-> "unused"]
     /\ mover = "idle" /\ archiver = "idle"
     /\ spent = [inputs |-> 0, faults |-> 0, crashes |-> 0]

\* The steps the scheduler owes an agent; the model and the tools take their
\* own time unless the turn is cancelled.
OwnStep(a) ==
  Wake(a) \/ Exit(a) \/ BeginTurn(a) \/ Check(a) \/ Prepare(a) \/ ToolsDone(a)
    \/ End(a) \/ EndReplies(a) \/ DropScope(a)
Returns(a) == CallReturns(a) \/ ToolFinishes(a)
ToolWork(a) == \E j \in Jobs : Adopt(a, j) \/ StopJob(a, j)

Next ==
  \/ \E a \in Agents :
       \/ OwnStep(a) \/ Returns(a) \/ ToolStarts(a) \/ ToolWork(a)
       \/ Spawn(a)
       \/ \E j \in Jobs : FinishJob(a, j) \/ ReapJob(a, j)
       \/ \E kind \in {"prompt", "steer", "info"} : Queue(a, kind)
       \/ Cancel(a) \/ Kill(a)
       \/ CompactBegins(a) \/ CompactStarts(a) \/ CompactDone(a) \/ CompactFails(a)
  \/ ArchiveBegins \/ ArchiveEnds
  \/ MoveBegins \/ MoveCommits \/ MoveEnds
  \/ Stop \/ Restart

Spec == Init /\ [][Next]_vars

FairSpec ==
  /\ Spec
  /\ \A a \in Agents :
       /\ WF_vars(OwnStep(a)) /\ WF_vars(Exit(a))
       /\ WF_vars(Cancelled(a) /\ Returns(a))
       /\ \A j \in Jobs : WF_vars(ReapJob(a, j))
  /\ WF_vars(MoveCommits) /\ WF_vars(MoveEnds) /\ WF_vars(ArchiveEnds)

-----------------------------------------------------------------------------
(* Properties                                                              *)

\* The state is of its types, and a turn's token belongs to a turn.
TypeOK ==
  /\ mem \in Fold /\ log \in Fold
  /\ stopped \in BOOLEAN /\ logErr \subseteq Agents /\ lifetime \subseteq Agents
  /\ wake \in [Agents -> BOOLEAN]
  /\ pc \in [Agents -> Places]
  /\ token \in [Agents -> {"none", "live", "cancelled"}]
  /\ \A a \in Agents : token[a] # "none" =>
       pc[a] \in {"check", "prepare", "call", "tools", "tool", "ending", "answered"}
  /\ maintenance \in [Agents -> {"none", "begun", "summarising", "failing"}]
  /\ registry \in [Agents -> SUBSET Jobs]
  /\ process \in [Jobs -> Agents \cup {"unused", "gone"}]
  /\ mover \in {"idle", "loading", "leaving"}
  /\ archiver \in {"idle", "killed", "done"}
  /\ spent \in [inputs : 0 .. MaxInputs, faults : 0 .. MaxFaults, crashes : 0 .. MaxCrashes]

\* While the directory changes, from the check that the channel is idle to the
\* last wake-up, no live agent is in a turn, owns a command or is compacted:
\* the lock is released in between (settings.rs:335-416).
IdleWhileMoving ==
  reconfiguring /\ ~stopped =>
    \A a \in Alive(mem) :
      /\ a \notin mem.inTurn /\ token[a] = "none"
      /\ mem.jobs[a] = {} /\ registry[a] = {} /\ maintenance[a] = "none"

\* A turn that the fold shows as running has a token that Channel::cancel
\* finds, and an actor that works on it (turn.rs:111, 682-727).
TurnCancellable ==
  ~stopped => \A a \in mem.inTurn :
    token[a] # "none" /\ pc[a] \in Places \ {"absent", "asleep", "ready", "exited"}

\* The owner's cancellation reaches every command: a cancelled turn has none
\* left and adopts none later (mod.rs:382-403, services.rs:321-324).
CancelledOwnsNoJobs ==
  ~stopped => \A a \in Agents :
    token[a] = "cancelled" => registry[a] = {} /\ mem.jobs[a] = {}

\* The registry that stops commands and the fold that shows them name the same
\* ones, failed writes included (services.rs:312-447).
RegistryAgrees ==
  ~stopped => \A a \in Alive(mem) : registry[a] = mem.jobs[a]

\* Turns, tokens and commands belong to each other, and there are none while
\* the directory changes.
TurnsOwnTheirCommands ==
  TurnCancellable /\ CancelledOwnsNoJobs /\ RegistryAgrees /\ IdleWhileMoving

\* Nobody outlives the agent it works for: a child spawned while its parent is
\* killed is stopped too, or not spawned (mod.rs:138-302, 404-438).  It is also
\* dead in the fold, unless the kill of a child could not be written, its parent
\* was killed after it, and the daemon restarted.
SubtreeDies ==
  \A a \in mem.killed :
    /\ Subtree(a) \cap mem.spawned \subseteq lifetime
    /\ spent.faults = 0 \/ spent.crashes = 0 => Subtree(a) \cap mem.spawned \subseteq mem.killed

\* What a restart must repair is on disk: the log knows every turn, command,
\* agent and directory that the memory knows, and no death the memory does not
\* (journal.rs:113-130, 193-224).
DecisionsAreLogged ==
  /\ mem.inTurn \subseteq log.inTurn
  /\ \A a \in Alive(mem) : mem.jobs[a] \subseteq log.jobs[a]
  /\ mem.spawned = log.spawned /\ log.killed \subseteq mem.killed
  /\ mem.dir = log.dir /\ mem.archived = log.archived

\* Memory, log and the tree of agents agree on who lives and what runs.
FactsAgree == DecisionsAreLogged /\ SubtreeDies

\* A command never disappears: it was stopped by the agent or its owner, its
\* agent is killed, or the agent is told, also of one lost in a restart.
JobIsTold ==
  [][\A a \in Agents : \A j \in mem.jobs[a] \ mem'.jobs[a] :
       \/ a \in mem'.killed
       \/ "job" \in mem'.inbox[a]
       \/ process'[j] = a /\ j \notin registry'[a]]_vars

Slept(a) ==
  /\ pc[a] = "asleep" /\ a \in Alive(mem) /\ a \notin lifetime /\ ~stopped
  /\ StartsTurn(mem, a)

\* No wake-up is lost, whatever the order of input, turns, directory changes
\* and restarts: no live agent sleeps for ever on input that starts a turn.
NoSleepingOnWork == \A a \in Agents : []<>~Slept(a)

\* A cancelled turn ends.
CancelEnds == \A a \in Agents : (token[a] = "cancelled") ~> (token[a] # "cancelled")

\* A killed, archived or stopped agent's loop and its commands' tasks end, so
\* that Channel::stop can wait for them (mod.rs:348-381).
TheDeadLeave ==
  \A a \in Agents : (a \in lifetime) ~>
    \/ a \notin lifetime
    \/ pc[a] \in {"absent", "exited"} /\ \A j \in Jobs : process[j] # a

\* What was told to end ends.
EndsAreReached == CancelEnds /\ TheDeadLeave

\* Whatever is to be done is begun, and whatever is to end ends.
WorkGoesOn == NoSleepingOnWork /\ EndsAreReached
=============================================================================

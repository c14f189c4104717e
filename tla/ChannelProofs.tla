---------------------------- MODULE ChannelProofs ----------------------------
(***************************************************************************)
(* Theorems about one channel's actors (module ChannelRuntime), for any    *)
(* tree of agents, any commands and any number of inputs, failed appends,  *)
(* restarts and directory changes: turns, tokens and commands belong to    *)
(* each other, memory, log and tree agree, and no command disappears       *)
(* without a word.                                                         *)
(***************************************************************************)
EXTENDS ChannelRuntime, TLAPS

-----------------------------------------------------------------------------
(* The inductive invariant                                                 *)

\* Agents are born from the main agent; an agent that is not born has nothing.
Born ==
  /\ mem.killed \subseteq mem.spawned /\ mem.spawned \subseteq Subtree(Root)
  /\ \A a \in Agents \ mem.spawned : pc[a] = "absent" /\ registry[a] = {} /\ mem.jobs[a] = {}
  /\ \A a \in Agents \ log.spawned : log.jobs[a] = {}

\* The dead own no commands.
Buried ==
  /\ \A a \in mem.killed : mem.jobs[a] = {}
  /\ \A a \in log.killed : log.jobs[a] = {}

\* Nobody is alive between the two halves of archive().
NobodyLeft == archiver = "killed" /\ ~stopped => Alive(mem) = {}

\* The task of a registered command waits for it, unless its agent was stopped.
Owned == \A a \in Agents : \A j \in registry[a] : process[j] = a \/ a \in lifetime

\* An agent that is stopped while the channel goes on is killed, or has nothing.
Dying == ~stopped => \A a \in lifetime : a \in mem.killed \/ mem.jobs[a] = {}

\* The configuration is loaded for one more directory.
MoveBounded == mover = "loading" => mem.dir < MaxMoves

\* Only a failed append keeps a death from the log.
KillsLogged == spent.faults = 0 => mem.killed = log.killed

IInv ==
  /\ TypeOK
  /\ Born /\ Buried /\ NobodyLeft /\ Owned /\ Dying /\ MoveBounded /\ KillsLogged
  /\ TurnsOwnTheirCommands /\ FactsAgree

-----------------------------------------------------------------------------
(* The tree of agents                                                      *)

LEMMA SubtreeClosed ==
  ASSUME NEW a \in Agents
  PROVE  a \in Subtree(a) /\ Closed(Subtree(a)) /\ Subtree(a) \subseteq Agents
<1>1. ASSUME NEW b \in Agents \ {Root}, Parent[b] \in Subtree(a) PROVE b \in Subtree(a)
  <2> SUFFICES ASSUME NEW S \in SUBSET Agents, a \in S, Closed(S) PROVE b \in S
    BY DEF Subtree
  <2>1. Parent[b] \in S
    BY <1>1 DEF Subtree
  <2> QED
    BY <2>1 DEF Closed
<1> QED
  BY <1>1 DEF Subtree, Closed

\* Who works for someone in the subtree is in it.
LEMMA SubtreeWithin ==
  ASSUME NEW a \in Agents, NEW b \in Subtree(a)
  PROVE  Subtree(b) \subseteq Subtree(a)
<1>1. a \in Subtree(a) /\ Closed(Subtree(a)) /\ Subtree(a) \in SUBSET Agents
  BY SubtreeClosed
<1> QED
  BY <1>1 DEF Subtree

\* Everyone in a subtree but its root works for someone in it.
LEMMA SubtreeAbove ==
  ASSUME NEW a \in Agents, NEW b \in Subtree(a), b # a
  PROVE  b # Root /\ Parent[b] \in Subtree(a)
<1> DEFINE S == {c \in Agents : c = a \/ (c # Root /\ c \in Subtree(a) /\ Parent[c] \in Subtree(a))}
<1>1. Closed(Subtree(a)) /\ a \in Subtree(a) /\ Subtree(a) \subseteq Agents
  BY SubtreeClosed
<1>2. S \subseteq Subtree(a)
  BY <1>1
<1>3. Closed(S)
  BY <1>1, <1>2 DEF Closed
<1>4. S \in SUBSET Agents /\ a \in S
  OBVIOUS
<1>5. b \in S
  BY <1>3, <1>4 DEF Subtree
<1> QED
  BY <1>5

-----------------------------------------------------------------------------
(* The fold                                                                *)

\* What the invariant says of a fold but for its inboxes and compactions.
SameTurns(new, old) ==
  /\ new.spawned = old.spawned /\ new.killed = old.killed /\ new.inTurn = old.inTurn
  /\ new.jobs = old.jobs /\ new.dir = old.dir /\ new.archived = old.archived

LEMMA QuietFolds ==
  ASSUME NEW ch \in Fold, NEW a \in Agents, NEW kinds \in SUBSET Kinds
  PROVE  /\ InputQueued(ch, a, kinds) \in Fold /\ SameTurns(InputQueued(ch, a, kinds), ch)
         /\ InputTaken(ch, a, kinds) \in Fold /\ SameTurns(InputTaken(ch, a, kinds), ch)
         /\ Compacting(ch, a) \in Fold /\ SameTurns(Compacting(ch, a), ch)
         /\ Compacted(ch, a) \in Fold /\ SameTurns(Compacted(ch, a), ch)
         /\ InputQueued(ch, a, kinds).inbox = [ch.inbox EXCEPT ![a] = @ \cup kinds]
BY DEF InputQueued, InputTaken, Compacting, Compacted, SameTurns, Fold

LEMMA TurnFields ==
  ASSUME NEW ch \in Fold, NEW a \in Agents
  PROVE  /\ TurnStarted(ch, a) \in Fold
         /\ TurnStarted(ch, a).inTurn = ch.inTurn \cup {a}
         /\ TurnStarted(ch, a).spawned = ch.spawned /\ TurnStarted(ch, a).killed = ch.killed
         /\ TurnStarted(ch, a).jobs = ch.jobs
         /\ TurnStarted(ch, a).dir = ch.dir /\ TurnStarted(ch, a).archived = ch.archived
         /\ TurnEnded(ch, a) \in Fold
         /\ TurnEnded(ch, a).inTurn = ch.inTurn \ {a}
         /\ TurnEnded(ch, a).spawned = ch.spawned /\ TurnEnded(ch, a).killed = ch.killed
         /\ TurnEnded(ch, a).jobs = ch.jobs
         /\ TurnEnded(ch, a).dir = ch.dir /\ TurnEnded(ch, a).archived = ch.archived
BY DEF TurnStarted, TurnEnded, Fold

LEMMA JobsEndedFields ==
  ASSUME NEW ch \in Fold, NEW a \in Agents, NEW js \in SUBSET Jobs
  PROVE  LET new == JobsEnded(ch, a, js)
         IN /\ new \in Fold /\ new.jobs = [ch.jobs EXCEPT ![a] = @ \ js]
            /\ new.spawned = ch.spawned /\ new.killed = ch.killed /\ new.inTurn = ch.inTurn
            /\ new.inbox = ch.inbox /\ new.dir = ch.dir /\ new.archived = ch.archived
BY DEF JobsEnded, Fold

LEMMA JobStartedFields ==
  ASSUME NEW ch \in Fold, NEW a \in Agents, NEW j \in Jobs
  PROVE  LET new == JobStarted(ch, a, j)
         IN /\ new \in Fold /\ new.jobs = [ch.jobs EXCEPT ![a] = @ \cup {j}]
            /\ new.spawned = ch.spawned /\ new.killed = ch.killed /\ new.inTurn = ch.inTurn
            /\ new.dir = ch.dir /\ new.archived = ch.archived
BY DEF JobStarted, Fold

LEMMA SpawnFields ==
  ASSUME NEW ch \in Fold, NEW a \in Agents
  PROVE  /\ AgentSpawned(ch, a) \in Fold
         /\ AgentSpawned(ch, a).spawned = ch.spawned \cup {a}
         /\ AgentSpawned(ch, a).killed = ch.killed /\ AgentSpawned(ch, a).inTurn = ch.inTurn
         /\ AgentSpawned(ch, a).jobs = ch.jobs /\ AgentSpawned(ch, a).dir = ch.dir
         /\ AgentSpawned(ch, a).archived = ch.archived
BY DEF AgentSpawned, Fold

LEMMA KillFields ==
  ASSUME NEW ch \in Fold, NEW as \in SUBSET Agents
  PROVE  LET new == AgentsKilled(ch, as)
         IN /\ new \in Fold
            /\ new.spawned = ch.spawned /\ new.killed = ch.killed \cup as
            /\ new.inTurn = ch.inTurn \ as
            /\ new.jobs = [a \in Agents |-> IF a \in as THEN {} ELSE ch.jobs[a]]
            /\ new.inbox = ch.inbox
            /\ new.dir = ch.dir /\ new.archived = ch.archived
BY DEF AgentsKilled, Fold

LEMMA ArchiveFields ==
  ASSUME NEW ch \in Fold
  PROVE  LET new == [ch EXCEPT !.archived = TRUE]
         IN /\ new \in Fold
            /\ new.spawned = ch.spawned /\ new.killed = ch.killed /\ new.inTurn = ch.inTurn
            /\ new.jobs = ch.jobs /\ new.dir = ch.dir /\ new.archived = TRUE
BY DEF Fold

LEMMA MoveFields ==
  ASSUME NEW ch \in Fold, ch.dir < MaxMoves
  PROVE  LET new == DirectoryChanged(ch)
         IN /\ new \in Fold
            /\ new.spawned = ch.spawned /\ new.killed = ch.killed /\ new.inTurn = ch.inTurn
            /\ new.jobs = ch.jobs /\ new.dir = ch.dir + 1 /\ new.archived = ch.archived
<1>1. MaxMoves \in Nat
  BY RuntimeAssumption
<1>2. ch.dir + 1 \in 0 .. MaxMoves
  BY <1>1 DEF Fold
<1>3. [a \in Agents |-> IF a \in Alive(ch) THEN ch.inbox[a] \cup {"info"} ELSE ch.inbox[a]]
        \in [Agents -> SUBSET Kinds]
  BY DEF Fold, Kinds
<1> QED
  BY <1>2, <1>3 DEF DirectoryChanged, Fold

LEMMA RepairFields ==
  ASSUME NEW ch \in Fold
  PROVE  LET new == Repaired(ch)
         IN /\ new \in Fold
            /\ new.spawned = ch.spawned /\ new.killed = ch.killed /\ new.inTurn = {}
            /\ new.jobs = [a \in Agents |-> IF a \in Alive(ch) THEN {} ELSE ch.jobs[a]]
            /\ new.inbox = [a \in Agents |->
                 IF a \in Alive(ch) /\ ch.jobs[a] # {} THEN ch.inbox[a] \cup {"job"} ELSE ch.inbox[a]]
            /\ new.dir = ch.dir /\ new.archived = ch.archived
BY DEF Repaired, Fold, Kinds

-----------------------------------------------------------------------------
(* The journal                                                             *)

\* A decision is folded into both or into neither.
LEMMA Decision ==
  ASSUME NEW ok \in BOOLEAN, NEW F, Commit(ok, F)
  PROVE  /\ ok => ~stopped /\ mem' = F[mem] /\ log' = F[log] /\ spent' = spent
         /\ ~ok => mem' = mem /\ log' = log
         /\ spent' = spent \/ (spent.faults < MaxFaults /\ spent' = [spent EXCEPT !.faults = @ + 1])
BY DEF Commit, Append, Decided

\* A fact is folded into the memory of a running channel, and into the log if
\* it could be written.
LEMMA Factual ==
  ASSUME NEW ok \in BOOLEAN, NEW F, Fact(ok, F)
  PROVE  /\ stopped => mem' = mem /\ log' = log /\ spent' = spent
         /\ ~stopped => /\ mem' = F[mem]
                        /\ \/ log' = F[log] /\ spent' = spent
                           \/ /\ log' = log /\ spent.faults < MaxFaults
                              /\ spent' = [spent EXCEPT !.faults = @ + 1]
BY DEF Fact, Append

\* The counter of failed appends stays in its bounds, and never starts again.
LEMMA Spending ==
  ASSUME TypeOK,
         spent' = spent \/ (spent.faults < MaxFaults /\ spent' = [spent EXCEPT !.faults = @ + 1])
  PROVE  /\ spent' \in [inputs : 0 .. MaxInputs, faults : 0 .. MaxFaults, crashes : 0 .. MaxCrashes]
         /\ spent'.crashes = spent.crashes /\ spent'.inputs = spent.inputs
         /\ spent'.faults = 0 => spent.faults = 0
         /\ spent' # spent => spent'.faults # 0
<1>1. /\ spent \in [inputs : 0 .. MaxInputs, faults : 0 .. MaxFaults, crashes : 0 .. MaxCrashes]
      /\ MaxFaults \in Nat
  BY RuntimeAssumption DEF TypeOK
<1>2. CASE spent' = spent
  BY <1>1, <1>2
<1>3. CASE spent.faults < MaxFaults /\ spent' = [spent EXCEPT !.faults = @ + 1]
  <2>1. spent.faults \in 0 .. MaxFaults
    BY <1>1
  <2>2. spent.faults + 1 \in 0 .. MaxFaults /\ spent.faults + 1 # 0
    BY <1>1, <1>3, <2>1
  <2>3. spent'.faults = spent.faults + 1
    BY <1>1, <1>3
  <2> QED
    BY <1>1, <1>3, <2>2, <2>3
<1> QED
  BY <1>2, <1>3

\* TypeOK but for the folds and the bounds.
TurnPlaces == {"check", "prepare", "call", "tools", "tool", "ending", "answered"}
Rest ==
  /\ stopped \in BOOLEAN /\ logErr \subseteq Agents /\ lifetime \subseteq Agents
  /\ wake \in [Agents -> BOOLEAN]
  /\ pc \in [Agents -> Places]
  /\ token \in [Agents -> {"none", "live", "cancelled"}]
  /\ \A a \in Agents : token[a] # "none" => pc[a] \in TurnPlaces
  /\ maintenance \in [Agents -> {"none", "begun", "summarising", "failing"}]
  /\ registry \in [Agents -> SUBSET Jobs]
  /\ process \in [Jobs -> Agents \cup {"unused", "gone"}]
  /\ mover \in {"idle", "loading", "leaving"}
  /\ archiver \in {"idle", "killed", "done"}
Counters == spent \in [inputs : 0 .. MaxInputs, faults : 0 .. MaxFaults, crashes : 0 .. MaxCrashes]

LEMMA TypeParts == TypeOK <=> mem \in Fold /\ log \in Fold /\ Rest /\ Counters
BY DEF TypeOK, Rest, Counters, TurnPlaces
LEMMA TypePartsNext == TypeOK' <=> mem' \in Fold /\ log' \in Fold /\ Rest' /\ Counters'
BY DEF TypeOK, Rest, Counters, TurnPlaces

-----------------------------------------------------------------------------
(* Steps that change no turn, command or life                              *)

Active == Places \ {"absent", "asleep", "ready", "exited"}

\* No background command leaves the fold in memory.
NoneEnds == mem'.jobs = mem.jobs

LEMMA QuietKeeps ==
  ASSUME IInv, TypeOK', SameTurns(mem', mem), SameTurns(log', log),
         UNCHANGED <<stopped, lifetime, registry, process, archiver>>,
         mover' = mover \/ mover' = "idle",
         spent'.faults = 0 => spent.faults = 0, spent'.crashes = spent.crashes,
         \A a \in Agents : \/ pc'[a] = pc[a]
                           \/ pc[a] # "absent" /\ (a \in mem.inTurn /\ ~stopped => pc'[a] \in Active),
         \A a \in Agents : \/ token'[a] = token[a]
                           \/ token'[a] = "none" /\ (a \in mem.inTurn => stopped),
         \A a \in Agents : maintenance'[a] = "none" \/ maintenance[a] # "none" \/ ~reconfiguring
  PROVE  IInv' /\ NoneEnds
<1>1. Born'
  BY DEF IInv, Born, SameTurns
<1>2. Buried'
  BY DEF IInv, Buried, SameTurns
<1>3. NobodyLeft' /\ Owned' /\ Dying' /\ MoveBounded' /\ KillsLogged'
  BY DEF IInv, NobodyLeft, Owned, Dying, MoveBounded, KillsLogged, SameTurns, Alive
<1>4. TurnCancellable'
  BY DEF IInv, TurnsOwnTheirCommands, TurnCancellable, SameTurns, Active, TypeOK, Fold
<1>5. CancelledOwnsNoJobs' /\ RegistryAgrees'
  BY DEF IInv, TurnsOwnTheirCommands, CancelledOwnsNoJobs, RegistryAgrees, SameTurns, Alive
<1>6. IdleWhileMoving'
  BY DEF IInv, TurnsOwnTheirCommands, IdleWhileMoving, reconfiguring, SameTurns, Alive, TypeOK, Fold
<1>7. DecisionsAreLogged'
  BY DEF IInv, FactsAgree, DecisionsAreLogged, SameTurns, Alive
<1>8. SubtreeDies'
  BY DEF IInv, FactsAgree, SubtreeDies, SameTurns
<1> QED
  BY <1>1, <1>2, <1>3, <1>4, <1>5, <1>6, <1>7, <1>8
     DEF IInv, TurnsOwnTheirCommands, FactsAgree, NoneEnds, SameTurns

LEMMA SameTurnsItself == \A ch : SameTurns(ch, ch)
BY DEF SameTurns

\* A quiet step of the folds, and what it spends.
Quietly ==
  /\ mem' \in Fold /\ log' \in Fold /\ SameTurns(mem', mem) /\ SameTurns(log', log)
  /\ Counters'
  /\ spent'.faults = 0 => spent.faults = 0
  /\ spent'.crashes = spent.crashes

LEMMA NothingQuiet ==
  ASSUME TypeOK, UNCHANGED <<folds, spent>>
  PROVE  Quietly
BY SameTurnsItself, TypeParts DEF Quietly, folds, Counters

LEMMA CommitQuiet ==
  ASSUME TypeOK, NEW ok \in BOOLEAN, NEW F, Commit(ok, F) \/ Fact(ok, F),
         F[mem] \in Fold, F[log] \in Fold, SameTurns(F[mem], mem), SameTurns(F[log], log)
  PROVE  Quietly
<1>1. spent' = spent \/ (spent.faults < MaxFaults /\ spent' = [spent EXCEPT !.faults = @ + 1])
  BY Decision, Factual
<1>2. (mem' = mem \/ mem' = F[mem]) /\ (log' = log \/ log' = F[log])
  BY Decision, Factual
<1> QED
  BY <1>1, <1>2, Spending, SameTurnsItself DEF Quietly, Counters, TypeOK

\* Nothing is folded, whatever the append does.
LEMMA PlainQuiet ==
  ASSUME TypeOK, NEW ok \in BOOLEAN, Commit(ok, [ch \in Copies |-> ch])
  PROVE  Quietly
<1> DEFINE F == [ch \in Copies |-> ch]
<1>1. F[mem] = mem /\ F[log] = log
  BY DEF Copies
<1> HIDE DEF F
<1>2. Commit(ok, F)
  BY DEF F
<1> QED
  BY <1>1, <1>2, CommitQuiet, SameTurnsItself DEF TypeOK

\* Input is queued from outside: it always enters the log.
LEMMA QueueQuiet ==
  ASSUME TypeOK, NEW a \in Agents, NEW kinds \in SUBSET Kinds, spent.inputs < MaxInputs,
         mem' = InputQueued(mem, a, kinds), log' = InputQueued(log, a, kinds),
         spent' = [spent EXCEPT !.inputs = @ + 1]
  PROVE  Quietly
<1>1. mem' \in Fold /\ log' \in Fold /\ SameTurns(mem', mem) /\ SameTurns(log', log)
  BY QuietFolds DEF TypeOK
<1>2. /\ spent \in [inputs : 0 .. MaxInputs, faults : 0 .. MaxFaults, crashes : 0 .. MaxCrashes]
      /\ MaxInputs \in Nat
  BY RuntimeAssumption DEF TypeOK
<1>3. spent.inputs + 1 \in 0 .. MaxInputs
  BY <1>2
<1> QED
  BY <1>1, <1>2, <1>3 DEF Quietly, Counters

LEMMA NotifyTyped ==
  ASSUME NEW as, NotifyAll(as)
  PROVE  wake' \in [Agents -> BOOLEAN]
BY Zenon DEF NotifyAll

\* A step of an agent's own loop that leaves turns and commands alone.
LEMMA LoopQuiet ==
  ASSUME IInv, Quietly, NEW a \in Agents, NEW p \in Places,
         UNCHANGED <<stopped, lifetime, maintenance, mover, archiver, registry, process>>,
         pc[a] # "absent", pc' = [pc EXCEPT ![a] = p],
         a \in mem.inTurn /\ ~stopped => p \in Active,
         token' = token \/ (token' = [token EXCEPT ![a] = "none"] /\ (a \in mem.inTurn => stopped)),
         token'[a] # "none" => p \in TurnPlaces,
         wake' \in [Agents -> BOOLEAN], logErr' \subseteq Agents
  PROVE  TypeOK' /\ IInv' /\ NoneEnds
<1>0. Rest /\ TypeOK
  BY TypeParts DEF IInv
<1>1. Rest'
  BY <1>0 DEF Rest
<1>2. TypeOK'
  BY <1>1, TypePartsNext DEF Quietly
<1>3. \A b \in Agents : \/ pc'[b] = pc[b]
                        \/ pc[b] # "absent" /\ (b \in mem.inTurn /\ ~stopped => pc'[b] \in Active)
  BY <1>0 DEF Rest
<1>4. \A b \in Agents : \/ token'[b] = token[b]
                        \/ token'[b] = "none" /\ (b \in mem.inTurn => stopped)
  BY <1>0 DEF Rest
<1> QED
  BY <1>2, <1>3, <1>4, QuietKeeps DEF Quietly

\* An agent that rests is in no turn, and one whose turn ended is in none.
LEMMA OutOfTurn ==
  ASSUME IInv, NEW a \in Agents, ~stopped,
         pc[a] \in {"absent", "asleep", "ready", "exited", "replies", "drop"}
  PROVE  a \notin mem.inTurn /\ token[a] = "none"
<1>1. token[a] = "none"
  BY DEF IInv, TypeOK
<1> QED
  BY <1>1 DEF IInv, TurnsOwnTheirCommands, TurnCancellable

LEMMA OwnStepsKeep ==
  ASSUME IInv, NEW a \in Agents,
         \/ Wake(a) \/ Exit(a) \/ Check(a) \/ Prepare(a) \/ CallReturns(a) \/ ToolStarts(a)
         \/ ToolFinishes(a) \/ ToolsDone(a) \/ EndReplies(a) \/ DropScope(a)
  PROVE  IInv' /\ NoneEnds
<1>0. TypeOK /\ mem \in Fold /\ log \in Fold /\ Rest
  BY TypeParts DEF IInv
<1>1. /\ wake \in [Agents -> BOOLEAN] /\ logErr \subseteq Agents
      /\ token[a] # "none" => pc[a] \in TurnPlaces
  BY <1>0 DEF Rest
<1> USE DEF Places, TurnPlaces, Active, At, Elsewhere, NoJobs
<1>2. CASE Wake(a)
  BY <1>0, <1>1, <1>2, NothingQuiet, OutOfTurn, LoopQuiet DEF Wake
<1>3. CASE Exit(a)
  BY <1>0, <1>1, <1>3, NothingQuiet, OutOfTurn, LoopQuiet DEF Exit
<1>4. CASE Check(a)
  BY <1>0, <1>1, <1>4, NothingQuiet, LoopQuiet DEF Check
<1>5. CASE ToolsDone(a)
  BY <1>0, <1>1, <1>5, NothingQuiet, LoopQuiet DEF ToolsDone
<1>6. CASE DropScope(a)
  <2>1. a \in mem.inTurn => stopped
    BY <1>6, OutOfTurn DEF DropScope
  <2>2. token'[a] = "none"
    BY <1>0, <1>6 DEF DropScope, Rest
  <2> QED
    BY <1>0, <1>1, <1>6, <2>1, <2>2, NothingQuiet, LoopQuiet DEF DropScope
<1>7. CASE ToolFinishes(a)
  <2>1. Quietly
    BY <1>0, <1>7, PlainQuiet DEF ToolFinishes, Record
  <2> QED
    BY <1>0, <1>1, <1>7, <2>1, LoopQuiet DEF ToolFinishes, Record
<1>8. CASE ToolStarts(a)
  <2>1. Quietly
    BY <1>0, <1>8, PlainQuiet DEF ToolStarts, Record
  <2>2. PICK p \in {"tool", "tools"} : pc' = [pc EXCEPT ![a] = p]
    BY <1>8 DEF ToolStarts
  <2> QED
    BY <1>0, <1>1, <1>8, <2>1, <2>2, LoopQuiet DEF ToolStarts, Record
<1>9. CASE CallReturns(a)
  <2>1. Quietly
    BY <1>0, <1>9, PlainQuiet, NothingQuiet DEF CallReturns, Record
  <2>2. PICK p \in {"tools", "answered", "ending"} : pc' = [pc EXCEPT ![a] = p]
    BY <1>9 DEF CallReturns
  <2>3. logErr' \subseteq Agents
    BY <1>1, <1>9 DEF CallReturns, Record
  <2> QED
    BY <1>0, <1>1, <1>9, <2>1, <2>2, <2>3, LoopQuiet DEF CallReturns
<1>10. CASE Prepare(a)
  <2>1. Quietly
    <3>1. CASE UNCHANGED <<folds, spent>>
      BY <1>0, <3>1, NothingQuiet
    <3>2. CASE \E ok \in BOOLEAN :
                 Commit(ok, [ch \in Copies |-> InputTaken(ch, a, mem.inbox[a] \cap MidTurn)])
      <4> DEFINE taken == mem.inbox[a] \cap MidTurn
                 F == [ch \in Copies |-> InputTaken(ch, a, taken)]
      <4>1. taken \in SUBSET Kinds
        BY DEF MidTurn, Kinds
      <4>2. F[mem] = InputTaken(mem, a, taken) /\ F[log] = InputTaken(log, a, taken)
        BY DEF Copies
      <4>3. PICK ok \in BOOLEAN : Commit(ok, F)
        BY <3>2
      <4> HIDE DEF F, taken
      <4>4. F[mem] \in Fold /\ F[log] \in Fold /\ SameTurns(F[mem], mem) /\ SameTurns(F[log], log)
        <5>1. ASSUME NEW ch \in Fold
              PROVE  InputTaken(ch, a, taken) \in Fold /\ SameTurns(InputTaken(ch, a, taken), ch)
          BY <4>1, QuietFolds
        <5> QED
          BY <1>0, <4>2, <5>1
      <4> QED
        BY <1>0, <4>3, <4>4, CommitQuiet
    <3> QED
      BY <1>10, <3>1, <3>2 DEF Prepare
  <2>2. PICK p \in {"call", "ending"} : pc' = [pc EXCEPT ![a] = p]
    BY <1>10 DEF Prepare
  <2>3. logErr' \subseteq Agents
    BY <1>1, <1>10 DEF Prepare
  <2> QED
    BY <1>0, <1>1, <1>10, <2>1, <2>2, <2>3, LoopQuiet DEF Prepare
<1>11. CASE EndReplies(a)
  <2>1. Quietly /\ wake' \in [Agents -> BOOLEAN]
    <3>1. CASE UNCHANGED <<folds, wake, spent>>
      BY <1>0, <1>1, <3>1, NothingQuiet
    <3>2. CASE Commit(FALSE, [ch \in Copies |-> ch]) /\ UNCHANGED wake
      <4>1. Quietly
        BY <1>0, <3>2, PlainQuiet
      <4> QED
        BY <1>1, <3>2, <4>1
    <3>3. CASE /\ spent.inputs < MaxInputs
               /\ mem' = InputQueued(mem, a, {"reminder"})
               /\ log' = InputQueued(log, a, {"reminder"})
               /\ spent' = [spent EXCEPT !.inputs = @ + 1]
               /\ NotifyAll(Woken(a, {"reminder"}))
      <4>1. {"reminder"} \in SUBSET Kinds
        BY DEF Kinds
      <4> QED
        BY <1>0, <3>3, <4>1, QueueQuiet, NotifyTyped
    <3> QED
      BY <1>11, <3>1, <3>2, <3>3 DEF EndReplies
  <2>3. a \in mem.inTurn => stopped
    BY <1>11, OutOfTurn DEF EndReplies
  <2>4. token'[a] = "none"
    BY <1>1, <1>11 DEF EndReplies
  <2> QED
    BY <1>0, <1>1, <1>11, <2>1, <2>3, <2>4, LoopQuiet DEF EndReplies
<1> QED
  BY <1>2, <1>3, <1>4, <1>5, <1>6, <1>7, <1>8, <1>9, <1>10, <1>11

\* Input from outside, and compaction: no loop moves.
LEMMA OutsideKeeps ==
  ASSUME IInv, NEW a \in Agents,
         \/ \E kind \in {"prompt", "steer", "info"} : Queue(a, kind)
         \/ CompactBegins(a) \/ CompactStarts(a) \/ CompactDone(a) \/ CompactFails(a)
  PROVE  IInv' /\ NoneEnds
<1>0. TypeOK /\ mem \in Fold /\ log \in Fold /\ Rest
  BY TypeParts DEF IInv
<1>1. ASSUME Quietly, UNCHANGED <<stopped, lifetime, registry, process, archiver, mover, pc, token>>,
             wake' \in [Agents -> BOOLEAN], logErr' \subseteq Agents,
             maintenance' = maintenance
               \/ \E m \in {"none", "begun", "summarising", "failing"} :
                    maintenance' = [maintenance EXCEPT ![a] = m]
                    /\ (m = "none" \/ maintenance[a] # "none" \/ ~reconfiguring)
      PROVE  IInv' /\ NoneEnds
  <2>1. Rest'
    BY <1>0, <1>1 DEF Rest
  <2>2. TypeOK'
    BY <1>1, <2>1, TypePartsNext DEF Quietly
  <2>3. \A b \in Agents : maintenance'[b] = "none" \/ maintenance[b] # "none" \/ ~reconfiguring
    BY <1>0, <1>1 DEF Rest
  <2> QED
    BY <1>1, <2>2, <2>3, QuietKeeps DEF Quietly
<1>2. wake \in [Agents -> BOOLEAN] /\ logErr \subseteq Agents
  BY <1>0 DEF Rest
<1>3. ASSUME NEW kind \in {"prompt", "steer", "info"}, Queue(a, kind)
      PROVE  IInv' /\ NoneEnds
  <2>1. {kind} \in SUBSET Kinds
    BY DEF Kinds
  <2>2. Quietly
    BY <1>0, <1>3, <2>1, QueueQuiet DEF Queue
  <2>3. wake' \in [Agents -> BOOLEAN]
    BY <1>3, NotifyTyped DEF Queue
  <2> QED
    BY <1>1, <1>2, <1>3, <2>2, <2>3 DEF Queue, Elsewhere, NoJobs
<1>4. CASE CompactBegins(a)
  BY <1>0, <1>1, <1>2, <1>4, NothingQuiet DEF CompactBegins
<1>5. ASSUME NEW ok \in BOOLEAN,
             \/ Commit(ok, [ch \in Copies |-> Compacting(ch, a)])
             \/ Commit(ok, [ch \in Copies |-> Compacted(ch, a)])
             \/ Fact(ok, [ch \in Copies |-> Compacted(ch, a)])
      PROVE  Quietly
  <2>1. ASSUME NEW ch \in Fold
        PROVE  /\ Compacting(ch, a) \in Fold /\ SameTurns(Compacting(ch, a), ch)
               /\ Compacted(ch, a) \in Fold /\ SameTurns(Compacted(ch, a), ch)
    BY QuietFolds
  <2> DEFINE F == [ch \in Copies |-> Compacting(ch, a)]
             G == [ch \in Copies |-> Compacted(ch, a)]
  <2>2. /\ F[mem] = Compacting(mem, a) /\ F[log] = Compacting(log, a)
        /\ G[mem] = Compacted(mem, a) /\ G[log] = Compacted(log, a)
    BY DEF Copies
  <2>3. Commit(ok, F) \/ Commit(ok, G) \/ Fact(ok, G)
    BY <1>5
  <2> HIDE DEF F, G
  <2>4. /\ F[mem] \in Fold /\ F[log] \in Fold /\ SameTurns(F[mem], mem) /\ SameTurns(F[log], log)
        /\ G[mem] \in Fold /\ G[log] \in Fold /\ SameTurns(G[mem], mem) /\ SameTurns(G[log], log)
    BY <1>0, <2>1, <2>2
  <2> QED
    BY <1>0, <2>3, <2>4, CommitQuiet
<1>6. CASE CompactStarts(a)
  <2>1. Quietly
    BY <1>5, <1>6 DEF CompactStarts
  <2> QED
    BY <1>1, <1>2, <1>6, <2>1 DEF CompactStarts
<1>7. CASE CompactDone(a)
  <2>1. Quietly
    BY <1>5, <1>7 DEF CompactDone, Record
  <2>2. logErr' \subseteq Agents
    BY <1>2, <1>7 DEF CompactDone, Record
  <2> QED
    BY <1>1, <1>2, <1>7, <2>1, <2>2 DEF CompactDone
<1>8. CASE CompactFails(a)
  <2>1. Quietly
    BY <1>5, <1>8 DEF CompactFails
  <2> QED
    BY <1>1, <1>2, <1>8, <2>1 DEF CompactFails
<1> QED
  BY <1>3, <1>4, <1>6, <1>7, <1>8

-----------------------------------------------------------------------------
(* Turns                                                                   *)

\* begin_turn(): never while the directory changes; the token comes with it.
LEMMA BeginTurnKeeps ==
  ASSUME IInv, NEW a \in Agents, BeginTurn(a)
  PROVE  IInv' /\ NoneEnds
<1>0. TypeOK /\ mem \in Fold /\ log \in Fold /\ Rest
  BY TypeParts DEF IInv
<1>1. pc[a] = "ready" /\ Elsewhere /\ NoJobs /\ UNCHANGED wake
  BY DEF BeginTurn
<1>2. CASE UNCHANGED <<folds, logErr, token, spent>> /\ At(a, "asleep")
  BY <1>0, <1>1, <1>2, NothingQuiet, OutOfTurn, LoopQuiet DEF Rest, Places, TurnPlaces, At, Elsewhere, NoJobs
<1>3. ASSUME MayBegin(a), NEW ok \in BOOLEAN,
             Commit(ok, [ch \in Copies |-> InputTaken(TurnStarted(ch, a), a, mem.inbox[a])]),
             At(a, IF ok THEN "check" ELSE "asleep"),
             token' = IF ok THEN [token EXCEPT ![a] = "live"] ELSE token,
             logErr' = IF ok THEN logErr \ {a} ELSE logErr
      PROVE  IInv' /\ NoneEnds
  <2> DEFINE F == [ch \in Copies |-> InputTaken(TurnStarted(ch, a), a, mem.inbox[a])]
  <2>1. CASE ~ok
    <3>1. mem' = mem /\ log' = log
      BY <1>3, <2>1, Decision
    <3>2. spent' = spent \/ (spent.faults < MaxFaults /\ spent' = [spent EXCEPT !.faults = @ + 1])
      BY <1>3, Decision
    <3>3. Quietly
      BY <1>0, <3>1, <3>2, Spending, SameTurnsItself DEF Quietly, Counters
    <3> QED
      BY <1>0, <1>1, <1>3, <2>1, <3>3, OutOfTurn, LoopQuiet DEF Rest, Places, TurnPlaces, At, Elsewhere, NoJobs
  <2>2. CASE ok
    <3>1. Commit(ok, F)
      BY <1>3
    <3>2. F[mem] = InputTaken(TurnStarted(mem, a), a, mem.inbox[a])
          /\ F[log] = InputTaken(TurnStarted(log, a), a, mem.inbox[a])
      BY DEF Copies
    <3> HIDE DEF F
    <3>3. mem' = F[mem] /\ log' = F[log] /\ spent' = spent /\ ~stopped
      BY <2>2, <3>1, Decision
    <3>4. ASSUME NEW ch \in Fold
          PROVE  LET new == InputTaken(TurnStarted(ch, a), a, mem.inbox[a])
                 IN /\ new \in Fold /\ new.inTurn = ch.inTurn \cup {a}
                    /\ new.spawned = ch.spawned /\ new.killed = ch.killed /\ new.jobs = ch.jobs
                    /\ new.dir = ch.dir /\ new.archived = ch.archived
      <4>1. ch.inTurn \cup {a} \in SUBSET Agents /\ mem.inbox[a] \in SUBSET Kinds
        BY <1>0 DEF Fold
      <4>2. PICK mid \in Fold : /\ mid = TurnStarted(ch, a)
                                /\ mid.inTurn = ch.inTurn \cup {a}
                                /\ mid.spawned = ch.spawned /\ mid.killed = ch.killed
                                /\ mid.jobs = ch.jobs /\ mid.dir = ch.dir /\ mid.archived = ch.archived
        BY TurnFields
      <4>3. InputTaken(mid, a, mem.inbox[a]) \in Fold /\ SameTurns(InputTaken(mid, a, mem.inbox[a]), mid)
        BY <4>1, QuietFolds
      <4> QED
        BY <4>2, <4>3 DEF SameTurns
    <3>5. /\ mem' \in Fold /\ mem'.inTurn = mem.inTurn \cup {a}
          /\ mem'.spawned = mem.spawned /\ mem'.killed = mem.killed /\ mem'.jobs = mem.jobs
          /\ mem'.dir = mem.dir /\ mem'.archived = mem.archived
      BY <1>0, <3>2, <3>3, <3>4
    <3>6. /\ log' \in Fold /\ log'.inTurn = log.inTurn \cup {a}
          /\ log'.spawned = log.spawned /\ log'.killed = log.killed /\ log'.jobs = log.jobs
          /\ log'.dir = log.dir /\ log'.archived = log.archived
      BY <1>0, <3>2, <3>3, <3>4
    <3>7. /\ pc' = [pc EXCEPT ![a] = "check"] /\ token' = [token EXCEPT ![a] = "live"]
          /\ logErr' \subseteq Agents /\ mover = "idle" /\ mover' = mover
          /\ UNCHANGED <<stopped, lifetime, maintenance, archiver, registry, process, wake>>
      BY <1>0, <1>1, <1>3, <2>2 DEF At, Elsewhere, NoJobs, MayBegin, reconfiguring, Rest
    <3>8. TypeOK'
      <4>1. Rest'
        BY <1>0, <3>7 DEF Rest, Places, TurnPlaces
      <4> QED
        BY <1>0, <3>3, <3>5, <3>6, <4>1, TypePartsNext, TypeParts DEF Counters
    <3>9. \A b \in Agents : /\ b # a => pc'[b] = pc[b] /\ token'[b] = token[b]
                            /\ pc'[a] = "check" /\ token'[a] = "live"
      BY <1>0, <3>7 DEF Rest
    <3>10. Born' /\ Buried'
      BY <1>1, <3>5, <3>6, <3>7, <3>9 DEF IInv, Born, Buried
    <3>11. NobodyLeft' /\ Owned' /\ Dying' /\ MoveBounded' /\ KillsLogged'
      BY <3>3, <3>5, <3>6, <3>7 DEF IInv, NobodyLeft, Owned, Dying, MoveBounded, KillsLogged, Alive
    <3>12. TurnCancellable'
      BY <1>0, <3>5, <3>7, <3>9 DEF IInv, TurnsOwnTheirCommands, TurnCancellable, Places, Fold
    <3>13. CancelledOwnsNoJobs' /\ RegistryAgrees' /\ IdleWhileMoving'
      BY <3>5, <3>7, <3>9 DEF IInv, TurnsOwnTheirCommands, CancelledOwnsNoJobs, RegistryAgrees,
                              IdleWhileMoving, reconfiguring, Alive
    <3>14. DecisionsAreLogged'
      BY <3>5, <3>6 DEF IInv, FactsAgree, DecisionsAreLogged, Alive
    <3>15. SubtreeDies'
      BY <3>3, <3>5, <3>7 DEF IInv, FactsAgree, SubtreeDies
    <3> QED
      BY <3>5, <3>8, <3>10, <3>11, <3>12, <3>13, <3>14, <3>15
         DEF IInv, TurnsOwnTheirCommands, FactsAgree, NoneEnds
  <2> QED
    BY <2>1, <2>2
<1> QED
  BY <1>2, <1>3 DEF BeginTurn

LEMMA EndKeeps ==
  ASSUME IInv, NEW a \in Agents, End(a)
  PROVE  IInv' /\ NoneEnds
<1>0. TypeOK /\ mem \in Fold /\ log \in Fold /\ Rest
  BY TypeParts DEF IInv
<1>1. PICK ok \in BOOLEAN : /\ Fact(ok, [ch \in Copies |-> TurnEnded(ch, a)])
                            /\ logErr' = IF ok \/ stopped THEN logErr ELSE logErr \ {a}
  BY DEF End
<1>2. PICK p \in {"replies", "drop"} : pc' = [pc EXCEPT ![a] = p]
  BY DEF End, At
<1>3. /\ pc[a] \in {"ending", "answered"} /\ token' = [token EXCEPT ![a] = "none"]
      /\ UNCHANGED <<stopped, lifetime, maintenance, mover, archiver, registry, process, wake>>
  BY DEF End, Elsewhere, NoJobs
<1>4. logErr' \subseteq Agents /\ wake' \in [Agents -> BOOLEAN]
  BY <1>0, <1>1, <1>3 DEF Rest
<1>5. CASE stopped
  <2>1. mem' = mem /\ log' = log /\ spent' = spent
    BY <1>1, <1>5, Factual
  <2>2. Quietly
    BY <1>0, <2>1, NothingQuiet DEF folds
  <2>3. p \in Places /\ p \in Active /\ token'[a] = "none"
    BY <1>0, <1>3 DEF Places, Active, Rest
  <2> QED
    BY <1>2, <1>3, <1>4, <1>5, <2>2, <2>3, LoopQuiet
<1>6. CASE ~stopped
  <2> DEFINE F == [ch \in Copies |-> TurnEnded(ch, a)]
  <2>1. F[mem] = TurnEnded(mem, a) /\ F[log] = TurnEnded(log, a)
    BY DEF Copies
  <2>2. Fact(ok, F)
    BY <1>1
  <2> HIDE DEF F
  <2>3. /\ mem' = F[mem]
        /\ \/ log' = F[log] /\ spent' = spent
           \/ /\ log' = log /\ spent.faults < MaxFaults
              /\ spent' = [spent EXCEPT !.faults = @ + 1]
    BY <1>6, <2>2, Factual
  <2>4. ASSUME NEW ch \in Fold
        PROVE  LET new == TurnEnded(ch, a)
               IN /\ new \in Fold /\ new.inTurn = ch.inTurn \ {a}
                  /\ new.spawned = ch.spawned /\ new.killed = ch.killed /\ new.jobs = ch.jobs
                  /\ new.dir = ch.dir /\ new.archived = ch.archived
    BY TurnFields
  <2>5. /\ mem' \in Fold /\ mem'.inTurn = mem.inTurn \ {a}
        /\ mem'.spawned = mem.spawned /\ mem'.killed = mem.killed /\ mem'.jobs = mem.jobs
        /\ mem'.dir = mem.dir /\ mem'.archived = mem.archived
    BY <1>0, <2>1, <2>3, <2>4
  <2>6. /\ log' \in Fold /\ (log'.inTurn = log.inTurn \/ log'.inTurn = log.inTurn \ {a})
        /\ log'.spawned = log.spawned /\ log'.killed = log.killed /\ log'.jobs = log.jobs
        /\ log'.dir = log.dir /\ log'.archived = log.archived
    BY <1>0, <2>1, <2>3, <2>4
  <2>7. /\ Counters' /\ spent'.crashes = spent.crashes
        /\ spent'.faults = 0 => spent.faults = 0
    BY <1>0, <2>3, Spending DEF Counters
  <2>8. TypeOK'
    <3>1. Rest'
      BY <1>0, <1>2, <1>3, <1>4 DEF Rest, Places, TurnPlaces
    <3> QED
      BY <2>5, <2>6, <2>7, <3>1, TypePartsNext
  <2>9. \A b \in Agents : /\ b # a => pc'[b] = pc[b] /\ token'[b] = token[b]
                          /\ token'[a] = "none"
    BY <1>0, <1>2, <1>3 DEF Rest
  <2>10. Born' /\ Buried'
    BY <1>3, <2>5, <2>6, <2>9 DEF IInv, Born, Buried
  <2>11. NobodyLeft' /\ Owned' /\ Dying' /\ MoveBounded' /\ KillsLogged'
    BY <1>3, <2>5, <2>6, <2>7 DEF IInv, NobodyLeft, Owned, Dying, MoveBounded, KillsLogged, Alive
  <2>12. TurnCancellable'
    BY <1>0, <1>3, <2>5, <2>9 DEF IInv, TurnsOwnTheirCommands, TurnCancellable, Fold
  <2>13. CancelledOwnsNoJobs' /\ RegistryAgrees' /\ IdleWhileMoving'
    BY <1>3, <2>5, <2>9 DEF IInv, TurnsOwnTheirCommands, CancelledOwnsNoJobs, RegistryAgrees,
                            IdleWhileMoving, reconfiguring, Alive
  <2>14. DecisionsAreLogged'
    BY <2>5, <2>6 DEF IInv, FactsAgree, DecisionsAreLogged, Alive
  <2>15. SubtreeDies'
    BY <1>3, <2>5, <2>7 DEF IInv, FactsAgree, SubtreeDies
  <2> QED
    BY <2>5, <2>8, <2>10, <2>11, <2>12, <2>13, <2>14, <2>15
       DEF IInv, TurnsOwnTheirCommands, FactsAgree, NoneEnds
<1> QED
  BY <1>5, <1>6

-----------------------------------------------------------------------------
(* Births                                                                  *)

LEMMA SpawnKeeps ==
  ASSUME IInv, NEW c \in Agents, Spawn(c)
  PROVE  IInv' /\ NoneEnds
<1>0. TypeOK /\ mem \in Fold /\ log \in Fold /\ Rest
  BY TypeParts DEF IInv
<1> DEFINE p == Parent[c]
<1>1. /\ c # Root /\ pc[p] = "tool" /\ c \notin mem.spawned /\ mover = "idle" /\ ~stopped
      /\ p \in Alive(mem) /\ p \notin lifetime
      /\ UNCHANGED <<stopped, lifetime, maintenance, mover, archiver, registry, process, logErr, token>>
  BY DEF Spawn, reconfiguring, Cancelled, Elsewhere, NoJobs
<1>2. PICK ok \in BOOLEAN :
        /\ Commit(ok, [ch \in Copies |-> InputQueued(AgentSpawned(ch, c), c, {"steer"})])
        /\ IF ok THEN At(c, "asleep") /\ NotifyAll({c}) ELSE UNCHANGED <<pc, wake>>
  BY DEF Spawn
<1>3. spent' = spent \/ (spent.faults < MaxFaults /\ spent' = [spent EXCEPT !.faults = @ + 1])
  BY <1>2, Decision
<1>4. CASE ~ok
  <2>1. mem' = mem /\ log' = log /\ UNCHANGED <<pc, wake>>
    BY <1>2, <1>4, Decision
  <2>2. Quietly
    BY <1>0, <1>3, <2>1, Spending, SameTurnsItself DEF Quietly, Counters
  <2>3. TypeOK'
    BY <1>0, <1>1, <2>1, <2>2, TypePartsNext DEF Rest, Quietly
  <2> QED
    BY <1>1, <2>1, <2>2, <2>3, QuietKeeps DEF Quietly
<1>5. CASE ok
  <2> DEFINE F == [ch \in Copies |-> InputQueued(AgentSpawned(ch, c), c, {"steer"})]
  <2>1. /\ F[mem] = InputQueued(AgentSpawned(mem, c), c, {"steer"})
        /\ F[log] = InputQueued(AgentSpawned(log, c), c, {"steer"})
    BY DEF Copies
  <2>2. Commit(ok, F)
    BY <1>2
  <2> HIDE DEF F
  <2>3. mem' = F[mem] /\ log' = F[log] /\ spent' = spent
    BY <1>5, <2>2, Decision
  <2>4. ASSUME NEW ch \in Fold
        PROVE  LET new == InputQueued(AgentSpawned(ch, c), c, {"steer"})
               IN /\ new \in Fold /\ new.spawned = ch.spawned \cup {c} /\ new.inTurn = ch.inTurn
                  /\ new.killed = ch.killed /\ new.jobs = ch.jobs
                  /\ new.dir = ch.dir /\ new.archived = ch.archived
    <3>1. {"steer"} \in SUBSET Kinds
      BY DEF Kinds
    <3>2. PICK mid \in Fold : /\ mid = AgentSpawned(ch, c) /\ mid.spawned = ch.spawned \cup {c}
                              /\ mid.inTurn = ch.inTurn /\ mid.killed = ch.killed
                              /\ mid.jobs = ch.jobs /\ mid.dir = ch.dir /\ mid.archived = ch.archived
      BY SpawnFields
    <3>3. InputQueued(mid, c, {"steer"}) \in Fold /\ SameTurns(InputQueued(mid, c, {"steer"}), mid)
      BY <3>1, QuietFolds
    <3> QED
      BY <3>2, <3>3 DEF SameTurns
  <2>5. /\ mem' \in Fold /\ mem'.spawned = mem.spawned \cup {c} /\ mem'.inTurn = mem.inTurn
        /\ mem'.killed = mem.killed /\ mem'.jobs = mem.jobs
        /\ mem'.dir = mem.dir /\ mem'.archived = mem.archived
    BY <1>0, <2>1, <2>3, <2>4
  <2>6. /\ log' \in Fold /\ log'.spawned = log.spawned \cup {c} /\ log'.inTurn = log.inTurn
        /\ log'.killed = log.killed /\ log'.jobs = log.jobs
        /\ log'.dir = log.dir /\ log'.archived = log.archived
    BY <1>0, <2>1, <2>3, <2>4
  <2>7. pc' = [pc EXCEPT ![c] = "asleep"] /\ wake' \in [Agents -> BOOLEAN]
    BY <1>2, <1>5, NotifyTyped DEF At
  <2>8. pc[c] = "absent" /\ registry[c] = {} /\ mem.jobs[c] = {} /\ token[c] = "none" /\ c \notin mem.inTurn
    <3>1. pc[c] = "absent" /\ registry[c] = {} /\ mem.jobs[c] = {}
      BY <1>1 DEF IInv, Born
    <3> QED
      BY <1>1, <3>1, OutOfTurn
  <2>9. TypeOK'
    <3>1. Rest'
      BY <1>0, <1>1, <2>7, <2>8 DEF Rest, Places
    <3> QED
      BY <1>0, <2>3, <2>5, <2>6, <3>1, TypePartsNext, TypeParts DEF Counters
  <2>10. \A b \in Agents : b # c => pc'[b] = pc[b]
    BY <2>7
\* The child works for its parent, who works for the main agent.
  <2>11. p \in Agents /\ p \in mem.spawned /\ p \notin mem.killed
    BY <1>0, <1>1 DEF Alive, Fold
  <2>12. Born'
    <3>1. c \in Subtree(Root)
      BY <1>1, <2>11, SubtreeClosed, RuntimeAssumption DEF IInv, Born, Closed
    <3> QED
      BY <1>1, <2>5, <2>6, <2>10, <3>1 DEF IInv, Born
  <2>13. Buried' /\ Owned' /\ Dying' /\ MoveBounded' /\ KillsLogged'
    BY <1>1, <2>3, <2>5, <2>6 DEF IInv, Buried, Owned, Dying, MoveBounded, KillsLogged
  <2>14. NobodyLeft'
    BY <1>1, <2>11 DEF IInv, NobodyLeft, Alive
  <2>15. TurnCancellable'
    BY <1>0, <1>1, <2>5, <2>8, <2>10 DEF IInv, TurnsOwnTheirCommands, TurnCancellable, Fold
  <2>16. CancelledOwnsNoJobs' /\ RegistryAgrees' /\ IdleWhileMoving'
    BY ZenonT(40), <1>1, <2>5, <2>8 DEF IInv, TurnsOwnTheirCommands, CancelledOwnsNoJobs, RegistryAgrees,
                            IdleWhileMoving, reconfiguring, Alive
  <2>17. DecisionsAreLogged'
    BY <2>5, <2>6, <2>8 DEF IInv, FactsAgree, DecisionsAreLogged, Alive
\* A killed agent whose subtree the child enters has its parent in it.
  <2>18. SubtreeDies'
    <3>1. ASSUME NEW a \in mem.killed PROVE c \notin Subtree(a)
      <4>1. a \in Agents /\ a # c
        BY <1>0, <1>1 DEF IInv, Born, Fold
      <4> SUFFICES ASSUME c \in Subtree(a) PROVE FALSE
        OBVIOUS
      <4>2. p \in Subtree(a)
        BY <4>1, SubtreeAbove
      <4> QED
        BY <1>1, <2>11, <4>2 DEF IInv, FactsAgree, SubtreeDies
    <3> QED
      BY <1>1, <2>3, <2>5, <3>1 DEF IInv, FactsAgree, SubtreeDies
  <2> QED
    BY <2>5, <2>9, <2>12, <2>13, <2>14, <2>15, <2>16, <2>17, <2>18
       DEF IInv, TurnsOwnTheirCommands, FactsAgree, NoneEnds
<1> QED
  BY <1>4, <1>5

-----------------------------------------------------------------------------
(* Background commands                                                     *)

\* JobRegistry::adopt: only a turn that is not cancelled has a command to keep.
LEMMA AdoptKeeps ==
  ASSUME IInv, NEW a \in Agents, NEW j \in Jobs, Adopt(a, j)
  PROVE  IInv'
<1>0. TypeOK /\ mem \in Fold /\ log \in Fold /\ Rest
  BY TypeParts DEF IInv
<1>1. /\ pc[a] = "tool" /\ process[j] = "unused"
      /\ token[a] = "live" /\ a \notin lifetime /\ a \notin mem.killed
      /\ UNCHANGED <<stopped, lifetime, maintenance, mover, archiver, logErr, wake, pc, token>>
  BY DEF Adopt, MayAdopt, Elsewhere
<1>2. PICK ok \in BOOLEAN :
        /\ Commit(ok, [ch \in Copies |-> JobStarted(ch, a, j)])
        /\ registry' = IF ok THEN [registry EXCEPT ![a] = @ \cup {j}] ELSE registry
        /\ process' = [process EXCEPT ![j] = IF ok THEN a ELSE "gone"]
  BY DEF Adopt
<1>3. spent' = spent \/ (spent.faults < MaxFaults /\ spent' = [spent EXCEPT !.faults = @ + 1])
  BY <1>2, Decision
<1>4. /\ Counters' /\ spent'.crashes = spent.crashes
      /\ spent'.faults = 0 => spent.faults = 0
  BY <1>0, <1>3, Spending DEF Counters
<1>5. a \in mem.spawned /\ (stopped \/ mover = "idle")
  <2>1. a \in mem.spawned
    BY <1>1 DEF IInv, Born
  <2> QED
    BY <1>1, <2>1 DEF IInv, TurnsOwnTheirCommands, IdleWhileMoving, reconfiguring, Alive
\* The command belonged to nobody.
<1>6. \A b \in Agents : j \in registry[b] => b \in lifetime
  BY <1>1, RuntimeAssumption DEF IInv, Owned
<1>7. /\ registry' \in [Agents -> SUBSET Jobs] /\ process' \in [Jobs -> Agents \cup {"unused", "gone"}]
      /\ \A i \in Jobs : i # j => process'[i] = process[i]
      /\ \A b \in Agents : b # a => registry'[b] = registry[b]
      /\ registry'[a] = IF ok THEN registry[a] \cup {j} ELSE registry[a]
      /\ ok => process'[j] = a
  BY <1>0, <1>2 DEF Rest
<1>8. /\ mem' \in Fold /\ mem'.jobs = IF ok THEN [mem.jobs EXCEPT ![a] = @ \cup {j}] ELSE mem.jobs
      /\ mem'.spawned = mem.spawned /\ mem'.killed = mem.killed /\ mem'.inTurn = mem.inTurn
      /\ mem'.dir = mem.dir /\ mem'.archived = mem.archived
      /\ log' \in Fold /\ log'.jobs = IF ok THEN [log.jobs EXCEPT ![a] = @ \cup {j}] ELSE log.jobs
      /\ log'.spawned = log.spawned /\ log'.killed = log.killed /\ log'.inTurn = log.inTurn
      /\ log'.dir = log.dir /\ log'.archived = log.archived
  <2> DEFINE F == [ch \in Copies |-> JobStarted(ch, a, j)]
  <2>1. F[mem] = JobStarted(mem, a, j) /\ F[log] = JobStarted(log, a, j)
    BY DEF Copies
  <2>2. Commit(ok, F)
    BY <1>2
  <2> HIDE DEF F
  <2>3. (ok => mem' = F[mem] /\ log' = F[log]) /\ (~ok => mem' = mem /\ log' = log)
    BY <2>2, Decision
  <2>4. ASSUME NEW ch \in Fold
        PROVE  LET new == JobStarted(ch, a, j)
               IN /\ new \in Fold /\ new.jobs = [ch.jobs EXCEPT ![a] = @ \cup {j}]
                  /\ new.spawned = ch.spawned /\ new.killed = ch.killed /\ new.inTurn = ch.inTurn
                  /\ new.dir = ch.dir /\ new.archived = ch.archived
    BY JobStartedFields
  <2>5. CASE ok
    BY <1>0, <2>1, <2>3, <2>4, <2>5
  <2>6. CASE ~ok
    BY <1>0, <2>3, <2>6
  <2> QED
    BY <2>5, <2>6
<1>9. TypeOK'
  <2>1. Rest'
    BY <1>0, <1>1, <1>7 DEF Rest
  <2> QED
    BY <1>4, <1>8, <2>1, TypePartsNext
<1>10. /\ \A b \in Agents : b # a => mem'.jobs[b] = mem.jobs[b] /\ log'.jobs[b] = log.jobs[b]
       /\ mem'.jobs[a] = IF ok THEN mem.jobs[a] \cup {j} ELSE mem.jobs[a]
       /\ log'.jobs[a] = IF ok THEN log.jobs[a] \cup {j} ELSE log.jobs[a]
  BY <1>0, <1>8 DEF Fold
<1>11. Born'
  <2>1. mem.spawned = log.spawned
    BY DEF IInv, FactsAgree, DecisionsAreLogged
  <2> QED
    BY <1>0, <1>1, <1>5, <1>7, <1>8, <1>10, <2>1 DEF IInv, Born
<1>12. Buried'
  <2>1. mem.killed \subseteq Agents /\ log.killed \subseteq mem.killed
    BY <1>0 DEF IInv, FactsAgree, DecisionsAreLogged, Fold
  <2> QED
    BY <1>1, <1>8, <1>10, <2>1 DEF IInv, Buried
<1>13. NobodyLeft' /\ MoveBounded' /\ KillsLogged'
  BY <1>1, <1>4, <1>8 DEF IInv, NobodyLeft, MoveBounded, KillsLogged, Alive
<1>14. Owned'
  <2>1. ASSUME NEW b \in Agents, NEW i \in registry'[b] PROVE process'[i] = b \/ b \in lifetime
    <3>1. CASE i = j
      BY <1>6, <1>7, <2>1, <3>1
    <3>2. CASE i # j
      <4>1. i \in registry[b] /\ i \in Jobs
        BY <1>0, <1>7, <2>1, <3>2 DEF Rest
      <4> QED
        BY <1>7, <3>2, <4>1 DEF IInv, Owned
    <3> QED
      BY <3>1, <3>2
  <2> QED
    BY <1>1, <2>1 DEF Owned
<1>15. Dying'
  BY <1>0, <1>1, <1>8, <1>10 DEF IInv, Dying, Rest
<1>16. TurnCancellable'
  BY <1>1, <1>8 DEF IInv, TurnsOwnTheirCommands, TurnCancellable
<1>17. CancelledOwnsNoJobs'
  BY <1>1, <1>7, <1>10 DEF IInv, TurnsOwnTheirCommands, CancelledOwnsNoJobs
<1>18. RegistryAgrees'
  <2>1. ASSUME ~stopped, NEW b \in Alive(mem) PROVE registry'[b] = mem'.jobs[b]
    <3>1. registry[b] = mem.jobs[b] /\ b \in Agents
      BY <1>0, <2>1 DEF IInv, TurnsOwnTheirCommands, RegistryAgrees, Alive, Fold
    <3> QED
      BY <1>7, <1>10, <3>1
  <2> QED
    BY <1>1, <1>8, <2>1 DEF RegistryAgrees, Alive
<1>19. IdleWhileMoving'
  BY <1>1, <1>5 DEF IdleWhileMoving, reconfiguring
<1>20. DecisionsAreLogged'
  BY <1>0, <1>8, <1>10 DEF IInv, FactsAgree, DecisionsAreLogged, Alive, Fold
<1>21. SubtreeDies'
  BY <1>1, <1>4, <1>8 DEF IInv, FactsAgree, SubtreeDies
<1> QED
  BY <1>9, <1>11, <1>12, <1>13, <1>14, <1>15, <1>16, <1>17, <1>18, <1>19, <1>20, <1>21
     DEF IInv, TurnsOwnTheirCommands, FactsAgree

\* A fold from which commands of an agent are gone.
JobsLess(new, old, a, js) ==
  /\ new \in Fold /\ new.jobs = [old.jobs EXCEPT ![a] = @ \ js]
  /\ new.spawned = old.spawned /\ new.killed = old.killed /\ new.inTurn = old.inTurn
  /\ new.dir = old.dir /\ new.archived = old.archived

\* Commands of an agent end: in its registry, in memory, and on disk if the
\* fact could be written.
JobsEnd(a, js) ==
  /\ registry' = [registry EXCEPT ![a] = @ \ js]
  /\ stopped => mem' = mem /\ log' = log /\ spent' = spent
  /\ ~stopped => /\ JobsLess(mem', mem, a, js)
                 /\ \/ JobsLess(log', log, a, js) /\ spent' = spent
                    \/ /\ log' = log /\ spent.faults < MaxFaults
                       /\ spent' = [spent EXCEPT !.faults = @ + 1]

LEMMA JobsEndKeeps ==
  ASSUME IInv, NEW a \in Agents, NEW js \in SUBSET Jobs, JobsEnd(a, js),
         UNCHANGED <<stopped, lifetime, maintenance, mover, archiver, logErr, pc>>,
         wake' \in [Agents -> BOOLEAN],
         process' = process \/ \E j \in js : process' = [process EXCEPT ![j] = "gone"] /\ process[j] = a,
         token' = token \/ /\ token' = CancelToken(a)
                           /\ registry[a] \subseteq js /\ a \in mem.spawned
  PROVE  IInv'
<1>0. TypeOK /\ mem \in Fold /\ log \in Fold /\ Rest
  BY TypeParts DEF IInv
<1>1. spent' = spent \/ (spent.faults < MaxFaults /\ spent' = [spent EXCEPT !.faults = @ + 1])
  BY DEF JobsEnd
<1>2. /\ Counters' /\ spent'.crashes = spent.crashes
      /\ spent'.faults = 0 => spent.faults = 0
  BY <1>0, <1>1, Spending DEF Counters
<1>3. /\ registry' \in [Agents -> SUBSET Jobs]
      /\ \A b \in Agents : b # a => registry'[b] = registry[b]
      /\ registry'[a] = registry[a] \ js
  BY <1>0 DEF JobsEnd, Rest
<1>4. /\ process' \in [Jobs -> Agents \cup {"unused", "gone"}]
      /\ \A i \in Jobs : process'[i] = process[i] \/ (i \in js /\ process[i] = a)
  BY <1>0 DEF Rest
<1>5. /\ token' \in [Agents -> {"none", "live", "cancelled"}]
      /\ \A b \in Agents : /\ token'[b] = "none" <=> token[b] = "none"
                           /\ token'[b] = "cancelled" =>
                                token[b] = "cancelled" \/ (b = a /\ registry[a] \subseteq js /\ a \in mem.spawned)
  BY <1>0 DEF Rest, CancelToken
<1>6. /\ mem' \in Fold
      /\ mem'.spawned = mem.spawned /\ mem'.killed = mem.killed /\ mem'.inTurn = mem.inTurn
      /\ mem'.dir = mem.dir /\ mem'.archived = mem.archived
      /\ \A b \in Agents : /\ b # a => mem'.jobs[b] = mem.jobs[b]
                           /\ mem'.jobs[a] = IF stopped THEN mem.jobs[a] ELSE mem.jobs[a] \ js
  <2>1. CASE stopped
    BY <1>0, <2>1 DEF JobsEnd
  <2>2. CASE ~stopped
    <3>1. JobsLess(mem', mem, a, js)
      BY <2>2 DEF JobsEnd
    <3> QED
      BY <1>0, <2>2, <3>1 DEF JobsLess, Fold
  <2> QED
    BY <2>1, <2>2
<1>7. /\ log' \in Fold
      /\ log'.spawned = log.spawned /\ log'.killed = log.killed /\ log'.inTurn = log.inTurn
      /\ log'.dir = log.dir /\ log'.archived = log.archived
      /\ \A b \in Agents : /\ b # a => log'.jobs[b] = log.jobs[b]
                           /\ \/ log'.jobs[a] = log.jobs[a]
                              \/ log'.jobs[a] = log.jobs[a] \ js /\ ~stopped
  <2>1. CASE log' = log
    BY <1>0, <2>1
  <2>2. CASE JobsLess(log', log, a, js) /\ ~stopped
    BY <1>0, <2>2 DEF JobsLess, Fold
  <2> QED
    BY <2>1, <2>2 DEF JobsEnd
<1>8. TypeOK'
  <2>1. Rest'
    BY <1>0, <1>3, <1>4, <1>5 DEF Rest
  <2> QED
    BY <1>2, <1>6, <1>7, <2>1, TypePartsNext
<1>9. Born'
  <2>1. \A b \in Agents : /\ mem'.jobs[b] \subseteq mem.jobs[b] /\ registry'[b] \subseteq registry[b]
                          /\ log'.jobs[b] \subseteq log.jobs[b]
    BY <1>3, <1>6, <1>7
  <2> QED
    BY <1>6, <1>7, <2>1 DEF IInv, Born
<1>10. Buried'
  <2>1. \A b \in Agents : mem'.jobs[b] \subseteq mem.jobs[b] /\ log'.jobs[b] \subseteq log.jobs[b]
    BY <1>6, <1>7
  <2>2. mem.killed \subseteq Agents /\ log.killed \subseteq Agents
    BY <1>0 DEF Fold
  <2> QED
    BY <1>6, <1>7, <2>1, <2>2 DEF IInv, Buried
<1>11. NobodyLeft' /\ MoveBounded' /\ KillsLogged'
  BY <1>2, <1>6, <1>7 DEF IInv, NobodyLeft, MoveBounded, KillsLogged, Alive
<1>12. Owned'
  <2>1. ASSUME NEW b \in Agents, NEW i \in registry'[b] PROVE process'[i] = b \/ b \in lifetime
    <3>1. i \in registry[b] /\ i \in Jobs /\ (b = a => i \notin js)
      BY <1>0, <1>3 DEF Rest
    <3>2. process[i] = b \/ b \in lifetime
      BY <3>1 DEF IInv, Owned
    <3>3. process'[i] = process[i] \/ (i \in js /\ process[i] = a)
      BY <1>4, <3>1
    <3> QED
      BY <3>1, <3>2, <3>3
  <2> QED
    BY <2>1 DEF Owned
<1>13. Dying'
  BY <1>0, <1>6 DEF IInv, Dying, Rest
<1>14. TurnCancellable'
  BY <1>0, <1>5, <1>6 DEF IInv, TurnsOwnTheirCommands, TurnCancellable, Fold
<1>15. CancelledOwnsNoJobs'
  <2>1. ASSUME ~stopped, NEW b \in Agents, token'[b] = "cancelled"
        PROVE  registry'[b] = {} /\ mem'.jobs[b] = {}
    <3>1. CASE token[b] = "cancelled"
      <4>1. registry[b] = {} /\ mem.jobs[b] = {}
        BY <2>1, <3>1 DEF IInv, TurnsOwnTheirCommands, CancelledOwnsNoJobs
      <4> QED
        BY <1>3, <1>6, <4>1
    <3>2. CASE b = a /\ registry[a] \subseteq js /\ a \in mem.spawned
      <4>1. mem.jobs[a] = registry[a] \/ mem.jobs[a] = {}
        BY <2>1, <3>2 DEF IInv, TurnsOwnTheirCommands, RegistryAgrees, Buried, Alive
      <4> QED
        BY <1>3, <1>6, <2>1, <3>2, <4>1
    <3> QED
      BY <1>5, <2>1, <3>1, <3>2
  <2> QED
    BY <2>1 DEF CancelledOwnsNoJobs
<1>16. RegistryAgrees'
  BY <1>0, <1>3, <1>6 DEF IInv, TurnsOwnTheirCommands, RegistryAgrees, Alive, Fold
<1>17. IdleWhileMoving'
  <2>1. ASSUME reconfiguring, ~stopped, NEW b \in Alive(mem)
        PROVE  /\ b \notin mem.inTurn /\ token'[b] = "none"
               /\ mem'.jobs[b] = {} /\ registry'[b] = {} /\ maintenance[b] = "none"
    <3>1. /\ b \notin mem.inTurn /\ token[b] = "none" /\ b \in Agents
          /\ mem.jobs[b] = {} /\ registry[b] = {} /\ maintenance[b] = "none"
      BY <1>0, <2>1 DEF IInv, TurnsOwnTheirCommands, IdleWhileMoving, Alive, Fold
    <3> QED
      BY <1>3, <1>5, <1>6, <3>1
  <2> QED
    BY <1>6, <2>1 DEF IdleWhileMoving, reconfiguring, Alive
<1>18. DecisionsAreLogged'
  <2>1. \A b \in Alive(mem) : mem.jobs[b] \subseteq log.jobs[b] /\ b \in Agents
    BY <1>0 DEF IInv, FactsAgree, DecisionsAreLogged, Alive, Fold
  <2>2. \A b \in Alive(mem) : mem'.jobs[b] \subseteq log'.jobs[b]
    BY <1>6, <1>7, <2>1
  <2> QED
    BY <1>6, <1>7, <2>2 DEF IInv, FactsAgree, DecisionsAreLogged, Alive
<1>19. SubtreeDies'
  BY <1>2, <1>6 DEF IInv, FactsAgree, SubtreeDies
<1> QED
  BY <1>8, <1>9, <1>10, <1>11, <1>12, <1>13, <1>14, <1>15, <1>16, <1>17, <1>18, <1>19
     DEF IInv, TurnsOwnTheirCommands, FactsAgree

LEMMA JobStepsKeep ==
  ASSUME IInv, NEW a \in Agents,
         \/ \E j \in Jobs : StopJob(a, j) \/ FinishJob(a, j) \/ ReapJob(a, j)
         \/ Cancel(a)
  PROVE  IInv'
<1>0. /\ TypeOK /\ mem \in Fold /\ log \in Fold /\ Rest
      /\ wake \in [Agents -> BOOLEAN] /\ registry[a] \in SUBSET Jobs
  BY TypeParts DEF IInv, Rest
<1>1. ASSUME NEW js \in SUBSET Jobs, NEW ch \in Fold
      PROVE  /\ JobsLess(JobsEnded(ch, a, js), ch, a, js)
             /\ JobsLess(TellJob(JobsEnded(ch, a, js), a), ch, a, js)
  <2>1. PICK new \in Fold : new = JobsEnded(ch, a, js)
                            /\ JobsLess(new, ch, a, js)
    BY JobsEndedFields DEF JobsLess
  <2>2. {"job"} \in SUBSET Kinds
    BY DEF Kinds
  <2>3. InputQueued(new, a, {"job"}) \in Fold /\ SameTurns(InputQueued(new, a, {"job"}), new)
    BY <2>2, QuietFolds
  <2> QED
    BY <2>1, <2>3 DEF JobsLess, SameTurns, TellJob
<1>2. ASSUME NEW js \in SUBSET Jobs, NEW ok \in BOOLEAN,
             registry' = [registry EXCEPT ![a] = @ \ js],
             \/ Fact(ok, [ch \in Copies |-> JobsEnded(ch, a, js)])
             \/ Fact(ok, [ch \in Copies |-> TellJob(JobsEnded(ch, a, js), a)])
      PROVE  JobsEnd(a, js)
  <2> DEFINE F == [ch \in Copies |-> JobsEnded(ch, a, js)]
             G == [ch \in Copies |-> TellJob(JobsEnded(ch, a, js), a)]
  <2>1. /\ F[mem] = JobsEnded(mem, a, js) /\ F[log] = JobsEnded(log, a, js)
        /\ G[mem] = TellJob(JobsEnded(mem, a, js), a) /\ G[log] = TellJob(JobsEnded(log, a, js), a)
    BY DEF Copies
  <2>2. Fact(ok, F) \/ Fact(ok, G)
    BY <1>2
  <2> HIDE DEF F, G
  <2>3. /\ JobsLess(F[mem], mem, a, js) /\ JobsLess(F[log], log, a, js)
        /\ JobsLess(G[mem], mem, a, js) /\ JobsLess(G[log], log, a, js)
    BY <1>0, <1>1, <2>1
  <2>4. PICK H : Fact(ok, H) /\ JobsLess(H[mem], mem, a, js) /\ JobsLess(H[log], log, a, js)
    BY <2>2, <2>3
  <2> QED
    BY <1>2, <2>4, Factual DEF JobsEnd
<1>3. ASSUME NEW j \in Jobs, StopJob(a, j)
      PROVE  IInv'
  <2>1. JobsEnd(a, {j})
    BY <1>2, <1>3 DEF StopJob
  <2> QED
    BY <1>0, <1>3, <2>1, JobsEndKeeps DEF StopJob, Elsewhere
<1>4. ASSUME NEW j \in Jobs, FinishJob(a, j), j \in registry[a]
      PROVE  IInv'
  <2>1. JobsEnd(a, {j})
    BY <1>2, <1>4 DEF FinishJob
  <2>2. wake' \in [Agents -> BOOLEAN]
    BY <1>0, <1>4, NotifyTyped DEF FinishJob
  <2> QED
    BY <1>4, <2>1, <2>2, JobsEndKeeps DEF FinishJob, Elsewhere
\* The task ends and its command is not in the registry, or will not matter.
<1>5. ASSUME NEW j \in Jobs, process[j] = a, process' = [process EXCEPT ![j] = "gone"],
             j \notin registry[a] \/ a \in lifetime, Elsewhere,
             UNCHANGED <<folds, logErr, wake, pc, token, registry, spent>>
      PROVE  IInv'
  <2>1. Rest'
    BY <1>0, <1>5 DEF Rest, Elsewhere
  <2>2. TypeOK'
    BY <1>0, <1>5, <2>1, TypeParts, TypePartsNext DEF folds, Counters
  <2>3. Owned'
    <3>1. ASSUME NEW b \in Agents, NEW i \in registry[b] PROVE process'[i] = b \/ b \in lifetime
      <4>1. (process[i] = b \/ b \in lifetime) /\ i \in Jobs
        BY <1>0 DEF IInv, Owned, Rest
      <4>2. CASE i = j
        BY <1>5, <4>1, <4>2
      <4>3. CASE i # j
        BY <1>0, <1>5, <4>1, <4>3 DEF Rest
      <4> QED
        BY <4>2, <4>3
    <3> QED
      BY <1>5, <3>1 DEF Owned, Elsewhere
  <2>4. /\ Born' /\ Buried' /\ NobodyLeft' /\ Dying' /\ MoveBounded' /\ KillsLogged'
        /\ TurnsOwnTheirCommands' /\ FactsAgree'
    BY <1>5 DEF IInv, folds, Elsewhere, Born, Buried, NobodyLeft, Dying, MoveBounded, KillsLogged,
                TurnsOwnTheirCommands, TurnCancellable, CancelledOwnsNoJobs, RegistryAgrees,
                IdleWhileMoving, reconfiguring, FactsAgree, DecisionsAreLogged, SubtreeDies, Alive
  <2> QED
    BY <2>2, <2>3, <2>4 DEF IInv
<1>6. ASSUME NEW j \in Jobs, FinishJob(a, j), j \notin registry[a]
      PROVE  IInv'
  BY <1>5, <1>6 DEF FinishJob
<1>7. ASSUME NEW j \in Jobs, ReapJob(a, j)
      PROVE  IInv'
  BY <1>5, <1>7 DEF ReapJob, JobCancelled
<1>8. CASE Cancel(a)
  <2> DEFINE js == registry[a]
  <2>1. registry' = [registry EXCEPT ![a] = @ \ js]
    BY <1>8 DEF Cancel
  <2>2. \E ok \in BOOLEAN : Fact(ok, [ch \in Copies |-> JobsEnded(ch, a, js)])
    BY <1>8 DEF Cancel, Drained
  <2>3. JobsEnd(a, js)
    <3> HIDE DEF js
    <3>1. js \in SUBSET Jobs
      BY <1>0 DEF js
    <3> QED
      BY <1>2, <2>1, <2>2, <3>1
  <2> QED
    BY <1>0, <1>8, <2>3, JobsEndKeeps DEF Cancel, Elsewhere
<1> QED
  BY <1>3, <1>4, <1>6, <1>7, <1>8

-----------------------------------------------------------------------------
(* Deaths                                                                  *)

\* A fold in which agents are killed, or nobody is.
Killed(new, old, as) ==
  /\ new \in Fold /\ new.spawned = old.spawned /\ new.killed = old.killed \cup as
  /\ new.inTurn = old.inTurn \ as
  /\ \A b \in Agents : new.jobs[b] = IF b \in as THEN {} ELSE old.jobs[b]
  /\ new.dir = old.dir /\ new.archived = old.archived

LEMMA SlayShape ==
  ASSUME TypeOK, NEW a \in Agents, Slay(a)
  PROVE  \E D \in SUBSET Agents :
           /\ D = (Subtree(a) \cap mem.spawned) \ mem.killed
           /\ lifetime' = lifetime \cup D
           /\ stopped => mem' = mem /\ log' = log /\ spent' = spent
           /\ ~stopped => /\ Killed(mem', mem, D)
                          /\ \/ Killed(log', log, D) /\ spent' = spent
                             \/ /\ log' = log /\ spent.faults < MaxFaults
                                /\ spent' = [spent EXCEPT !.faults = @ + 1]
<1>0. mem \in Fold /\ log \in Fold
  BY DEF TypeOK
<1>1. PICK D : D = Doomed(a)
  OBVIOUS
<1>2. D \in SUBSET Agents /\ D = (Subtree(a) \cap mem.spawned) \ mem.killed
  BY <1>1, SubtreeClosed DEF Doomed
<1>3. lifetime' = lifetime \cup D
  BY <1>1 DEF Slay
<1>4. CASE D = {}
  <2>1. mem' = mem /\ log' = log /\ spent' = spent
    BY <1>1, <1>4 DEF Slay, folds
  <2>2. Killed(mem, mem, D) /\ Killed(log, log, D)
    BY <1>0, <1>4 DEF Killed
  <2> QED
    BY <1>2, <1>3, <2>1, <2>2
<1>5. CASE D # {}
  <2> DEFINE F == [ch \in Copies |-> AgentsKilled(ch, D)]
  <2>1. F[mem] = AgentsKilled(mem, D) /\ F[log] = AgentsKilled(log, D)
    BY DEF Copies
  <2>2. PICK ok \in BOOLEAN : Fact(ok, F)
    BY <1>1, <1>5 DEF Slay
  <2> HIDE DEF F
  <2>3. ASSUME NEW ch \in Fold PROVE Killed(AgentsKilled(ch, D), ch, D)
    <3>1. PICK new : new = AgentsKilled(ch, D)
      OBVIOUS
    <3>2. /\ new \in Fold /\ new.spawned = ch.spawned /\ new.killed = ch.killed \cup D
          /\ new.inTurn = ch.inTurn \ D
          /\ new.jobs = [b \in Agents |-> IF b \in D THEN {} ELSE ch.jobs[b]]
          /\ new.dir = ch.dir /\ new.archived = ch.archived
      BY <1>2, <3>1, KillFields
    <3> QED
      BY <3>1, <3>2 DEF Killed
  <2>4. Killed(F[mem], mem, D) /\ Killed(F[log], log, D)
    BY <1>0, <2>1, <2>3
  <2> QED
    BY <1>2, <1>3, <2>2, <2>4, Factual
<1> QED
  BY <1>4, <1>5

LEMMA SlayKeeps ==
  ASSUME IInv, NEW a \in Agents, Slay(a),
         archiver' = archiver \/ (archiver' = "killed" /\ a = Root)
  PROVE  IInv'
<1>0. TypeOK /\ mem \in Fold /\ log \in Fold /\ Rest
  BY TypeParts DEF IInv
<1>1. PICK D \in SUBSET Agents :
        /\ D = (Subtree(a) \cap mem.spawned) \ mem.killed
        /\ lifetime' = lifetime \cup D
        /\ stopped => mem' = mem /\ log' = log /\ spent' = spent
        /\ ~stopped => /\ Killed(mem', mem, D)
                       /\ \/ Killed(log', log, D) /\ spent' = spent
                          \/ /\ log' = log /\ spent.faults < MaxFaults
                             /\ spent' = [spent EXCEPT !.faults = @ + 1]
  BY <1>0, SlayShape
<1>2. UNCHANGED <<stopped, logErr, wake, pc, token, maintenance, registry, process, mover>>
  BY DEF Slay
<1>3. spent' = spent \/ (spent.faults < MaxFaults /\ spent' = [spent EXCEPT !.faults = @ + 1])
  BY <1>1
<1>4. /\ Counters' /\ spent'.crashes = spent.crashes
      /\ spent'.faults = 0 => spent.faults = 0
      /\ spent' # spent => spent'.faults # 0
  BY <1>0, <1>3, Spending DEF Counters
<1>5. mem' \in Fold /\ log' \in Fold
  BY <1>0, <1>1 DEF Killed
<1>6. TypeOK'
  <2>1. Rest'
    BY <1>0, <1>1, <1>2 DEF Rest
  <2> QED
    BY <1>4, <1>5, <2>1, TypePartsNext
<1>7. CASE stopped
  <2>1. mem' = mem /\ log' = log /\ spent' = spent
    BY <1>1, <1>7
  <2>2. /\ Born' /\ Buried' /\ MoveBounded' /\ KillsLogged' /\ NobodyLeft' /\ Dying' /\ Owned'
        /\ TurnsOwnTheirCommands' /\ FactsAgree'
    BY <1>1, <1>2, <1>7, <2>1
       DEF IInv, Born, Buried, NobodyLeft, Dying, MoveBounded, KillsLogged, Owned,
           TurnsOwnTheirCommands, TurnCancellable, CancelledOwnsNoJobs, RegistryAgrees,
           IdleWhileMoving, reconfiguring, FactsAgree, DecisionsAreLogged, SubtreeDies, Alive
  <2> QED
    BY <1>6, <2>2 DEF IInv
<1>8. CASE ~stopped
  <2>1. Killed(mem', mem, D) /\ (Killed(log', log, D) \/ log' = log)
    BY <1>1, <1>8
  <2>2. /\ mem'.spawned = mem.spawned /\ mem'.killed = mem.killed \cup D /\ mem'.inTurn = mem.inTurn \ D
        /\ \A b \in Agents : mem'.jobs[b] = IF b \in D THEN {} ELSE mem.jobs[b]
        /\ mem'.dir = mem.dir /\ mem'.archived = mem.archived
        /\ D \subseteq mem.spawned
    BY <1>1, <2>1 DEF Killed
  <2>3. /\ log'.spawned = log.spawned /\ log'.killed \subseteq log.killed \cup D
        /\ log.inTurn \ D \subseteq log'.inTurn
        /\ \A b \in Agents \ D : log'.jobs[b] = log.jobs[b]
        /\ \A b \in Agents : /\ log'.jobs[b] \subseteq log.jobs[b]
                             /\ b \in log'.killed => b \in log.killed \/ log'.jobs[b] = {}
        /\ log'.dir = log.dir /\ log'.archived = log.archived
    BY <2>1 DEF Killed
  <2>4. /\ mem.killed \subseteq Agents /\ log.killed \subseteq Agents
        /\ mem.spawned \subseteq Agents /\ mem.inTurn \subseteq Agents
    BY <1>0 DEF Fold
  <2>5. Alive(mem') \subseteq Alive(mem) /\ Alive(mem) \subseteq Agents /\ \A b \in Alive(mem') : b \notin D
    BY <2>2, <2>4 DEF Alive
  <2>6. Born'
    BY <1>2, <2>2, <2>3 DEF IInv, Born
  <2>7. Buried'
    <3>1. \A b \in mem'.killed : mem'.jobs[b] = {}
      BY <2>2, <2>4 DEF IInv, Buried
    <3>2. \A b \in log'.killed : log'.jobs[b] = {}
      <4>1. ASSUME NEW b \in log'.killed PROVE log'.jobs[b] = {}
        <5>1. b \in Agents
          BY <2>3, <2>4
        <5>2. b \in log.killed => log.jobs[b] = {}
          BY DEF IInv, Buried
        <5>3. log'.jobs[b] \subseteq log.jobs[b] /\ (b \in log.killed \/ log'.jobs[b] = {})
          BY <2>3, <4>1, <5>1
        <5> QED
          BY <5>2, <5>3
      <4> QED
        BY <4>1
    <3> QED
      BY <3>1, <3>2 DEF Buried
\* Archiving kills the main agent, whom everyone works for.
  <2>8. NobodyLeft'
    <3>1. CASE archiver' = archiver
      BY <1>2, <2>5, <3>1 DEF IInv, NobodyLeft
    <3>2. CASE a = Root
      BY <1>1, <2>2, <3>2 DEF IInv, Born, NobodyLeft, Alive
    <3> QED
      BY <3>1, <3>2
  <2>9. Owned' /\ MoveBounded'
    BY <1>1, <1>2, <2>2 DEF IInv, Owned, MoveBounded
  <2>10. Dying'
    <3>1. ASSUME NEW b \in lifetime' PROVE b \in mem'.killed \/ mem'.jobs[b] = {}
      <4>1. CASE b \in D
        BY <2>2, <4>1
      <4>2. CASE b \notin D
        <5>1. b \in lifetime /\ b \in Agents
          BY <1>0, <1>1, <3>1, <4>2 DEF Rest
        <5> QED
          BY <1>8, <2>2, <4>2, <5>1 DEF IInv, Dying
      <4> QED
        BY <4>1, <4>2
    <3> QED
      BY <3>1 DEF Dying
  <2>11. KillsLogged'
    <3>1. ASSUME spent'.faults = 0 PROVE mem'.killed = log'.killed
      <4>1. spent' = spent /\ spent.faults = 0
        BY <1>4, <3>1
      <4>2. Killed(log', log, D)
        BY <1>0, <1>1, <1>4, <1>8, <3>1, <4>1 DEF TypeOK
      <4> QED
        BY <2>2, <4>1, <4>2 DEF IInv, KillsLogged, Killed
    <3> QED
      BY <3>1 DEF KillsLogged
  <2>12. TurnCancellable' /\ CancelledOwnsNoJobs'
    BY <1>2, <2>2 DEF IInv, TurnsOwnTheirCommands, TurnCancellable, CancelledOwnsNoJobs
  <2>13. RegistryAgrees' /\ IdleWhileMoving'
    BY <1>2, <2>2, <2>5 DEF IInv, TurnsOwnTheirCommands, RegistryAgrees, IdleWhileMoving, reconfiguring
  <2>14. DecisionsAreLogged'
    BY <2>2, <2>3, <2>5 DEF IInv, FactsAgree, DecisionsAreLogged
  <2>15. SubtreeDies'
    <3>1. /\ \A k \in mem.killed : Subtree(k) \cap mem.spawned \subseteq lifetime
          /\ \A k \in mem.killed : k \in mem.spawned /\ k \in lifetime
      <4>1. \A k \in mem.killed : Subtree(k) \cap mem.spawned \subseteq lifetime
        BY DEF IInv, FactsAgree, SubtreeDies
      <4> QED
        BY <2>4, <4>1, SubtreeClosed DEF IInv, Born
    <3>2. ASSUME NEW k \in D, NEW b \in Subtree(k) \cap mem.spawned
          PROVE  b \in mem.killed \cup D
      <4>1. Subtree(k) \subseteq Subtree(a)
        BY <1>1, SubtreeWithin
      <4> QED
        BY <1>1, <3>2, <4>1
    <3>3. ASSUME NEW k \in mem.killed \cup D, NEW b \in Subtree(k) \cap mem.spawned
          PROVE  /\ b \in lifetime'
                 /\ spent'.faults = 0 \/ spent'.crashes = 0 => b \in mem.killed \cup D
      <4>1. CASE k \in D
        BY <1>1, <3>1, <3>2, <3>3, <4>1
      <4>2. CASE k \in mem.killed
        <5>1. b \in lifetime'
          BY <1>1, <3>1, <3>3, <4>2
        <5>2. spent.faults = 0 \/ spent.crashes = 0 => b \in mem.killed
          BY <3>3, <4>2 DEF IInv, FactsAgree, SubtreeDies
        <5> QED
          BY <1>4, <5>1, <5>2
      <4> QED
        BY <3>3, <4>1, <4>2
    <3> QED
      BY <2>2, <3>3 DEF SubtreeDies
  <2> QED
    BY <1>6, <2>6, <2>7, <2>8, <2>9, <2>10, <2>11, <2>12, <2>13, <2>14, <2>15
       DEF IInv, TurnsOwnTheirCommands, FactsAgree
<1> QED
  BY <1>7, <1>8

LEMMA ArchiveEndsKeeps ==
  ASSUME IInv, ArchiveEnds
  PROVE  IInv' /\ NoneEnds
<1>0. TypeOK /\ mem \in Fold /\ log \in Fold /\ Rest /\ Counters
  BY TypeParts DEF IInv
<1> DEFINE F == [ch \in Copies |-> [ch EXCEPT !.archived = TRUE]]
<1>1. F[mem] = [mem EXCEPT !.archived = TRUE] /\ F[log] = [log EXCEPT !.archived = TRUE]
  BY DEF Copies
<1>2. PICK ok \in BOOLEAN : Commit(ok, F)
  BY DEF ArchiveEnds
<1> HIDE DEF F
<1>3. /\ lifetime' = Agents /\ archiver' = "done" /\ archiver = "killed"
      /\ UNCHANGED <<stopped, logErr, wake, pc, token, maintenance, registry, process, mover>>
  BY DEF ArchiveEnds
<1>4. /\ F[mem] \in Fold /\ F[log] \in Fold
      /\ F[mem].spawned = mem.spawned /\ F[mem].killed = mem.killed /\ F[mem].inTurn = mem.inTurn
      /\ F[mem].jobs = mem.jobs /\ F[mem].dir = mem.dir /\ F[mem].archived = TRUE
      /\ F[log].spawned = log.spawned /\ F[log].killed = log.killed /\ F[log].inTurn = log.inTurn
      /\ F[log].jobs = log.jobs /\ F[log].dir = log.dir /\ F[log].archived = TRUE
  BY <1>0, <1>1, ArchiveFields
<1>5. \/ ok /\ mem' = F[mem] /\ log' = F[log]
      \/ ~ok /\ mem' = mem /\ log' = log
  BY <1>2, Decision
<1>6. spent' = spent \/ (spent.faults < MaxFaults /\ spent' = [spent EXCEPT !.faults = @ + 1])
  BY <1>2, Decision
<1>7. /\ Counters' /\ spent'.crashes = spent.crashes
      /\ spent'.faults = 0 => spent.faults = 0
  BY <1>0, <1>6, Spending DEF Counters
<1>8. /\ mem' \in Fold /\ log' \in Fold
      /\ mem'.spawned = mem.spawned /\ mem'.killed = mem.killed /\ mem'.inTurn = mem.inTurn
      /\ mem'.jobs = mem.jobs /\ mem'.dir = mem.dir
      /\ log'.spawned = log.spawned /\ log'.killed = log.killed /\ log'.inTurn = log.inTurn
      /\ log'.jobs = log.jobs /\ log'.dir = log.dir
      /\ mem.archived = log.archived => mem'.archived = log'.archived
  BY <1>0, <1>4, <1>5
<1>9. TypeOK'
  <2>1. Rest'
    BY <1>0, <1>3 DEF Rest
  <2> QED
    BY <1>7, <1>8, <2>1, TypePartsNext
<1>10. Born' /\ Buried' /\ NobodyLeft' /\ Owned' /\ MoveBounded' /\ KillsLogged'
  <2>1. registry \in [Agents -> SUBSET Jobs] /\ lifetime \subseteq Agents
    BY <1>0 DEF Rest
  <2> QED
    BY <1>3, <1>7, <1>8, <2>1
       DEF IInv, Born, Buried, NobodyLeft, Owned, MoveBounded, KillsLogged
\* Everyone is killed already, if born.
<1>11. Dying'
  <2>1. ASSUME ~stopped, NEW a \in Agents PROVE a \in mem.killed \/ mem.jobs[a] = {}
    <3>1. Alive(mem) = {}
      BY <1>3, <2>1 DEF IInv, NobodyLeft
    <3> QED
      BY <3>1 DEF IInv, Born, Alive
  <2> QED
    BY <1>3, <1>8, <2>1 DEF Dying
<1>12. TurnsOwnTheirCommands'
  BY <1>3, <1>8
     DEF IInv, TurnsOwnTheirCommands, TurnCancellable, CancelledOwnsNoJobs, RegistryAgrees,
         IdleWhileMoving, reconfiguring, Alive
<1>13. DecisionsAreLogged'
  BY <1>8 DEF IInv, FactsAgree, DecisionsAreLogged, Alive
<1>14. SubtreeDies'
  <2>1. mem.spawned \subseteq Agents
    BY <1>0 DEF Fold
  <2> QED
    BY <1>3, <1>7, <1>8, <2>1 DEF IInv, FactsAgree, SubtreeDies
<1> QED
  BY <1>8, <1>9, <1>10, <1>11, <1>12, <1>13, <1>14 DEF IInv, FactsAgree, NoneEnds

LEMMA StopKeeps ==
  ASSUME IInv, Stop
  PROVE  IInv' /\ NoneEnds
<1>0. TypeOK /\ mem \in Fold /\ log \in Fold /\ Rest /\ Counters
  BY TypeParts DEF IInv
<1>1. /\ stopped' = TRUE /\ lifetime' = Agents
      /\ UNCHANGED <<mem, log, logErr, wake, pc, token, maintenance, registry, process,
                     mover, archiver, spent>>
  BY DEF Stop, folds
<1>2. TypeOK'
  <2>1. Rest'
    BY <1>0, <1>1 DEF Rest
  <2> QED
    BY <1>0, <1>1, <2>1, TypePartsNext DEF Counters
<1>3. Born' /\ Buried' /\ NobodyLeft' /\ Owned' /\ Dying' /\ MoveBounded' /\ KillsLogged'
  BY <1>1 DEF IInv, Born, Buried, NobodyLeft, Owned, Dying, MoveBounded, KillsLogged
<1>4. TurnsOwnTheirCommands'
  BY <1>1 DEF TurnsOwnTheirCommands, TurnCancellable, CancelledOwnsNoJobs, RegistryAgrees,
              IdleWhileMoving
<1>5. FactsAgree'
  <2>1. mem.spawned \subseteq Agents
    BY <1>0 DEF Fold
  <2> QED
    BY <1>1, <2>1 DEF IInv, FactsAgree, DecisionsAreLogged, SubtreeDies, Alive
<1> QED
  BY <1>1, <1>2, <1>3, <1>4, <1>5 DEF IInv, NoneEnds

-----------------------------------------------------------------------------
(* The directory changes                                                   *)

LEMMA MoveKeeps ==
  ASSUME IInv, MoveBegins \/ MoveCommits \/ MoveEnds
  PROVE  IInv' /\ NoneEnds
<1>0. TypeOK /\ mem \in Fold /\ log \in Fold /\ Rest /\ Counters
  BY TypeParts DEF IInv
\* Whoever is idle has nothing in the registry either.
<1>1. CASE MoveBegins
  <2>1. /\ mover' = "loading" /\ ~stopped /\ mem.dir < MaxMoves
        /\ \A a \in Alive(mem) : Idle(a)
        /\ UNCHANGED <<mem, log, stopped, logErr, wake, pc, token, lifetime, maintenance,
                       registry, process, archiver, spent>>
    BY <1>1 DEF MoveBegins, folds
  <2>2. TypeOK'
    <3>1. Rest'
      BY <1>0, <2>1 DEF Rest
    <3> QED
      BY <1>0, <2>1, <3>1, TypePartsNext DEF Counters
  <2>3. /\ Born' /\ Buried' /\ NobodyLeft' /\ Owned' /\ Dying' /\ MoveBounded' /\ KillsLogged'
        /\ TurnCancellable' /\ CancelledOwnsNoJobs' /\ RegistryAgrees' /\ FactsAgree'
    BY <2>1 DEF IInv, Born, Buried, NobodyLeft, Owned, Dying, MoveBounded, KillsLogged,
                TurnsOwnTheirCommands, TurnCancellable, CancelledOwnsNoJobs, RegistryAgrees,
                FactsAgree, DecisionsAreLogged, SubtreeDies, Alive
  <2>4. IdleWhileMoving'
    <3>1. \A a \in Alive(mem) : registry[a] = mem.jobs[a]
      BY <2>1 DEF IInv, TurnsOwnTheirCommands, RegistryAgrees
    <3> QED
      BY <2>1, <3>1 DEF IdleWhileMoving, Idle, Alive
  <2> QED
    BY <2>1, <2>2, <2>3, <2>4 DEF IInv, TurnsOwnTheirCommands, NoneEnds
<1>2. CASE MoveCommits
  <2>1. /\ mover' = "leaving" /\ mover = "loading"
        /\ UNCHANGED <<stopped, logErr, wake, pc, token, lifetime, maintenance,
                       registry, process, archiver>>
    BY <1>2 DEF MoveCommits
  <2>2. mem.dir < MaxMoves /\ log.dir < MaxMoves
    BY <2>1 DEF IInv, MoveBounded, FactsAgree, DecisionsAreLogged
  <2> DEFINE F == [ch \in Copies |-> DirectoryChanged(ch)]
  <2>3. F[mem] = DirectoryChanged(mem) /\ F[log] = DirectoryChanged(log)
    BY DEF Copies
  <2>4. \/ \E ok \in BOOLEAN : Commit(ok, F)
        \/ UNCHANGED <<mem, log, spent>>
    BY <1>2 DEF MoveCommits, folds
  <2> HIDE DEF F
  <2>5. /\ F[mem] \in Fold /\ F[log] \in Fold
        /\ F[mem].spawned = mem.spawned /\ F[mem].killed = mem.killed /\ F[mem].inTurn = mem.inTurn
        /\ F[mem].jobs = mem.jobs /\ F[mem].dir = mem.dir + 1 /\ F[mem].archived = mem.archived
        /\ F[log].spawned = log.spawned /\ F[log].killed = log.killed /\ F[log].inTurn = log.inTurn
        /\ F[log].jobs = log.jobs /\ F[log].dir = log.dir + 1 /\ F[log].archived = log.archived
    BY <1>0, <2>2, <2>3, MoveFields
  <2>6. \/ mem' = F[mem] /\ log' = F[log]
        \/ mem' = mem /\ log' = log
    BY <2>4, Decision
  <2>7. spent' = spent \/ (spent.faults < MaxFaults /\ spent' = [spent EXCEPT !.faults = @ + 1])
    BY <2>4, Decision
  <2>8. /\ Counters' /\ spent'.crashes = spent.crashes
        /\ spent'.faults = 0 => spent.faults = 0
    BY <1>0, <2>7, Spending DEF Counters
  <2>9. /\ mem' \in Fold /\ log' \in Fold
        /\ mem'.spawned = mem.spawned /\ mem'.killed = mem.killed /\ mem'.inTurn = mem.inTurn
        /\ mem'.jobs = mem.jobs /\ mem'.archived = mem.archived
        /\ log'.spawned = log.spawned /\ log'.killed = log.killed /\ log'.inTurn = log.inTurn
        /\ log'.jobs = log.jobs /\ log'.archived = log.archived
        /\ mem.dir = log.dir => mem'.dir = log'.dir
    BY <1>0, <2>5, <2>6
  <2>10. TypeOK'
    <3>1. Rest'
      BY <1>0, <2>1 DEF Rest
    <3> QED
      BY <2>8, <2>9, <3>1, TypePartsNext
  <2>11. Born' /\ Buried' /\ NobodyLeft' /\ Owned' /\ Dying' /\ MoveBounded' /\ KillsLogged'
    BY <2>1, <2>8, <2>9
       DEF IInv, Born, Buried, NobodyLeft, Owned, Dying, MoveBounded, KillsLogged, Alive
  <2>12. TurnsOwnTheirCommands'
    BY <2>1, <2>9
       DEF IInv, TurnsOwnTheirCommands, TurnCancellable, CancelledOwnsNoJobs, RegistryAgrees,
           IdleWhileMoving, reconfiguring, Alive
  <2>13. FactsAgree'
    BY <2>1, <2>8, <2>9 DEF IInv, FactsAgree, DecisionsAreLogged, SubtreeDies, Alive
  <2> QED
    BY <2>9, <2>10, <2>11, <2>12, <2>13 DEF IInv, NoneEnds
<1>3. CASE MoveEnds
  <2>1. /\ mover' = "idle" /\ UNCHANGED <<mem, log, stopped, logErr, pc, token, lifetime,
                                          maintenance, registry, process, archiver, spent>>
        /\ wake' \in [Agents -> BOOLEAN]
    <3>1. wake \in [Agents -> BOOLEAN]
      BY <1>0 DEF Rest
    <3> QED
      BY <1>3, <3>1, NotifyTyped DEF MoveEnds, NotifyEverybody, folds
  <2>2. TypeOK'
    <3>1. Rest'
      BY <1>0, <2>1 DEF Rest
    <3> QED
      BY <1>0, <2>1, <3>1, TypePartsNext DEF Counters
  <2>3. /\ Born' /\ Buried' /\ NobodyLeft' /\ Owned' /\ Dying' /\ MoveBounded' /\ KillsLogged'
        /\ TurnsOwnTheirCommands' /\ FactsAgree'
    BY <2>1 DEF IInv, Born, Buried, NobodyLeft, Owned, Dying, MoveBounded, KillsLogged,
                TurnsOwnTheirCommands, TurnCancellable, CancelledOwnsNoJobs, RegistryAgrees,
                IdleWhileMoving, reconfiguring,
                FactsAgree, DecisionsAreLogged, SubtreeDies, Alive
  <2> QED
    BY <2>1, <2>2, <2>3 DEF IInv, NoneEnds
<1> QED
  BY <1>1, <1>2, <1>3

-----------------------------------------------------------------------------
(* The daemon restarts                                                     *)

\* What the process then knows is what was on disk, repaired or not.
Restored(ok) ==
  /\ mem' \in Fold /\ log' = mem'
  /\ mem'.spawned = log.spawned /\ mem'.killed = log.killed
  /\ mem'.dir = log.dir /\ mem'.archived = log.archived
  /\ ok => /\ mem'.inTurn = {}
           /\ \A a \in Agents : mem'.jobs[a] = IF a \in Alive(log) THEN {} ELSE log.jobs[a]
           /\ \A a \in Alive(log) : log.jobs[a] # {} => "job" \in mem'.inbox[a]
  /\ ~ok => mem' = log

\* Every loop, token, command and directory change begins again.
Renewed ==
  /\ wake' \in [Agents -> BOOLEAN] /\ pc' \in [Agents -> Places] /\ logErr' = {}
  /\ \A a \in Agents \ log.spawned : pc'[a] = "absent"
  /\ token' = [a \in Agents |-> "none"] /\ maintenance' = [a \in Agents |-> "none"]
  /\ registry' = [a \in Agents |-> {}]
  /\ process' \in [Jobs -> Agents \cup {"unused", "gone"}]
  /\ mover' = "idle" /\ archiver' = "idle"

LEMMA RestartShape ==
  ASSUME TypeOK, Restart
  PROVE  /\ Renewed
         /\ \E ok \in BOOLEAN :
              /\ Restored(ok)
              /\ stopped' = (log.archived \/ ~ok)
              /\ lifetime' = IF stopped' THEN Agents
                             ELSE {a \in Agents : \E b \in log.killed : a \in Subtree(b)}
              /\ spent' = [spent EXCEPT !.crashes = @ + 1, !.faults = @ + (IF ok THEN 0 ELSE 1)]
              /\ spent.crashes < MaxCrashes /\ (ok \/ spent.faults < MaxFaults)
<1>0. log \in Fold /\ process \in [Jobs -> Agents \cup {"unused", "gone"}]
  BY DEF TypeOK
<1>1. PICK ch : ch = Repaired(log)
  OBVIOUS
<1>2. /\ ch \in Fold /\ ch.spawned = log.spawned /\ ch.killed = log.killed /\ ch.inTurn = {}
      /\ ch.jobs = [a \in Agents |-> IF a \in Alive(log) THEN {} ELSE log.jobs[a]]
      /\ ch.inbox = [a \in Agents |->
           IF a \in Alive(log) /\ log.jobs[a] # {} THEN log.inbox[a] \cup {"job"} ELSE log.inbox[a]]
      /\ ch.dir = log.dir /\ ch.archived = log.archived
  BY <1>0, <1>1, RepairFields
<1>3. Alive(log) \subseteq Agents
  BY <1>0 DEF Alive, Fold
<1>4. Renewed
  <2>1. wake' \in [Agents -> BOOLEAN]
    BY Zenon DEF Restart, NotifyRestored
  <2>2. pc' \in [Agents -> Places] /\ \A a \in Agents \ log.spawned : pc'[a] = "absent"
    <3>1. \E ok : pc' = [a \in Agents |-> IF a \notin log.spawned THEN "absent"
               ELSE IF ok /\ ~log.archived /\ a \in Alive(log) THEN "asleep" ELSE "exited"]
      BY DEF Restart
    <3> QED
      BY <3>1 DEF Places
  <2>3. process' \in [Jobs -> Agents \cup {"unused", "gone"}]
    BY <1>0 DEF Restart
  <2> QED
    BY <2>1, <2>2, <2>3 DEF Restart, Renewed
<1>5. PICK ok \in BOOLEAN :
        /\ ok \/ spent.faults < MaxFaults
        /\ spent' = [spent EXCEPT !.crashes = @ + 1, !.faults = @ + (IF ok THEN 0 ELSE 1)]
        /\ mem' = IF ok THEN ch ELSE log
        /\ log' = IF ok THEN ch ELSE log
        /\ stopped' = (log.archived \/ ~ok)
        /\ lifetime' = IF log.archived \/ ~ok THEN Agents
                       ELSE {a \in Agents : \E b \in log.killed : a \in Subtree(b)}
  BY <1>1 DEF Restart
<1>6. Restored(ok)
  BY <1>0, <1>5, <1>2, <1>3 DEF Restored
<1>7. spent.crashes < MaxCrashes
  BY DEF Restart
<1> QED
  BY <1>4, <1>5, <1>6, <1>7

LEMMA RestartKeeps ==
  ASSUME IInv, Restart
  PROVE  IInv'
<1>0. TypeOK /\ mem \in Fold /\ log \in Fold /\ Counters /\ mem.spawned = log.spawned
  BY TypeParts DEF IInv, FactsAgree, DecisionsAreLogged
<1>1. Renewed
  BY <1>0, RestartShape
<1>2. PICK ok \in BOOLEAN :
        /\ Restored(ok)
        /\ stopped' = (log.archived \/ ~ok)
        /\ lifetime' = IF stopped' THEN Agents
                       ELSE {a \in Agents : \E b \in log.killed : a \in Subtree(b)}
        /\ spent' = [spent EXCEPT !.crashes = @ + 1, !.faults = @ + (IF ok THEN 0 ELSE 1)]
        /\ spent.crashes < MaxCrashes /\ (ok \/ spent.faults < MaxFaults)
  BY <1>0, RestartShape
<1>3. /\ MaxFaults \in Nat /\ MaxCrashes \in Nat
      /\ spent \in [inputs : 0 .. MaxInputs, faults : 0 .. MaxFaults, crashes : 0 .. MaxCrashes]
  BY <1>0, RuntimeAssumption DEF Counters
<1>4. /\ spent'.crashes = spent.crashes + 1 /\ spent'.inputs = spent.inputs
      /\ spent'.faults = spent.faults + (IF ok THEN 0 ELSE 1)
  BY <1>2, <1>3
<1>5. Counters' /\ spent'.crashes # 0 /\ (spent'.faults = 0 => spent.faults = 0)
  <2>1. /\ spent.crashes \in 0 .. MaxCrashes /\ spent.faults \in 0 .. MaxFaults
        /\ spent.inputs \in 0 .. MaxInputs
    BY <1>3
  <2>2. spent'.crashes \in 0 .. MaxCrashes /\ spent'.crashes # 0
    BY <1>2, <1>3, <1>4, <2>1
  <2>3. spent'.faults \in 0 .. MaxFaults /\ (spent'.faults = 0 => spent.faults = 0)
    BY <1>2, <1>3, <1>4, <2>1
  <2>4. spent' = [inputs |-> spent'.inputs, faults |-> spent'.faults, crashes |-> spent'.crashes]
    BY <1>2, <1>3
  <2> QED
    BY <1>4, <2>1, <2>2, <2>3, <2>4 DEF Counters
<1>6. /\ mem' \in Fold /\ log' = mem'
      /\ mem'.spawned = log.spawned /\ mem'.killed = log.killed
      /\ ok => mem'.inTurn = {}
      /\ ~ok => mem' = log
      /\ \A a \in Agents : ok => mem'.jobs[a] = IF a \in Alive(log) THEN {} ELSE log.jobs[a]
  BY <1>2 DEF Restored
<1>7. stopped' \in BOOLEAN /\ lifetime' \subseteq Agents /\ (~stopped' => ok)
  BY <1>2
<1>8. TypeOK'
  <2>1. Rest'
    BY <1>1, <1>7 DEF Rest, Renewed
  <2> QED
    BY <1>5, <1>6, <2>1, TypePartsNext
<1>9. log.killed \subseteq mem.killed /\ mem.killed \subseteq mem.spawned /\ mem.spawned \subseteq Agents
  BY <1>0 DEF IInv, Born, FactsAgree, DecisionsAreLogged, Fold
\* No repair finds a command of the dead, or of the unborn.
<1>10. \A a \in Agents : a \notin Alive(log) => log.jobs[a] = {}
  BY <1>0 DEF IInv, Born, Buried, Alive
<1>11. \A a \in Agents : ok => mem'.jobs[a] = {}
  BY <1>6, <1>10
<1>12. \A a \in Agents : a \notin Alive(log) => mem'.jobs[a] = {}
  BY <1>6, <1>10
<1>13. Born'
  <2>1. mem'.killed \subseteq mem'.spawned /\ mem'.spawned \subseteq Subtree(Root)
    BY <1>0, <1>6, <1>9 DEF IInv, Born
  <2> QED
    BY <1>1, <1>6, <1>12, <2>1 DEF Born, Renewed, Alive
<1>14. Buried'
  BY <1>0, <1>6, <1>9, <1>12 DEF Buried, Alive, Fold
<1>15. NobodyLeft' /\ Owned' /\ MoveBounded' /\ KillsLogged'
  BY <1>1, <1>6 DEF NobodyLeft, Owned, MoveBounded, KillsLogged, Renewed
<1>16. Dying'
  BY <1>7, <1>11 DEF Dying
<1>17. TurnsOwnTheirCommands'
  <2>1. TurnCancellable'
    BY <1>6, <1>7 DEF TurnCancellable
  <2>2. CancelledOwnsNoJobs' /\ IdleWhileMoving'
    BY <1>1 DEF CancelledOwnsNoJobs, IdleWhileMoving, reconfiguring, Renewed
  <2>3. RegistryAgrees'
    <3>1. Alive(mem') \subseteq Agents
      BY <1>6, <1>9, <1>0 DEF Alive
    <3> QED
      BY <1>1, <1>7, <1>11, <3>1 DEF RegistryAgrees, Renewed
  <2> QED
    BY <2>1, <2>2, <2>3 DEF TurnsOwnTheirCommands
<1>18. DecisionsAreLogged'
  BY <1>6 DEF DecisionsAreLogged
\* A child outlives its killed parent in the log only if its kill was lost.
<1>19. SubtreeDies'
  <2>1. ASSUME NEW a \in log.killed, NEW b \in Subtree(a) \cap log.spawned
        PROVE  b \in lifetime'
    BY <1>0, <1>2, <1>9, <2>1
  <2>2. ASSUME NEW a \in log.killed, NEW b \in Subtree(a) \cap log.spawned, spent.faults = 0
        PROVE  b \in log.killed
    <3>1. a \in mem.killed /\ mem.killed = log.killed
      BY <1>9, <2>2 DEF IInv, KillsLogged
    <3> QED
      BY <1>0, <2>2, <3>1 DEF IInv, FactsAgree, SubtreeDies
  <2> QED
    BY <1>5, <1>6, <2>1, <2>2 DEF SubtreeDies
<1> QED
  BY <1>8, <1>13, <1>14, <1>15, <1>16, <1>17, <1>18, <1>19 DEF IInv, FactsAgree

-----------------------------------------------------------------------------
(* No command disappears without a word                                    *)

\* The step of JobIsTold.
CommandsTold ==
  \A a \in Agents : \A j \in mem.jobs[a] \ mem'.jobs[a] :
    \/ a \in mem'.killed
    \/ "job" \in mem'.inbox[a]
    \/ process'[j] = a /\ j \notin registry'[a]

LEMMA NoneEndsTells == NoneEnds => CommandsTold
BY DEF NoneEnds, CommandsTold

LEMMA AdoptTells ==
  ASSUME IInv, NEW a \in Agents, NEW j \in Jobs, Adopt(a, j)
  PROVE  CommandsTold
<1>0. mem \in Fold
  BY DEF IInv, TypeOK
<1> DEFINE F == [ch \in Copies |-> JobStarted(ch, a, j)]
<1>1. F[mem] = JobStarted(mem, a, j)
  BY DEF Copies
<1>2. PICK ok \in BOOLEAN : Commit(ok, F)
  BY DEF Adopt
<1> HIDE DEF F
<1>3. mem' = F[mem] \/ mem' = mem
  BY <1>2, Decision
<1>4. F[mem].jobs = [mem.jobs EXCEPT ![a] = @ \cup {j}]
  BY <1>0, <1>1, JobStartedFields
<1>5. \A b \in Agents : mem.jobs[b] \subseteq mem'.jobs[b]
  BY <1>0, <1>3, <1>4 DEF Fold
<1> QED
  BY <1>5 DEF CommandsTold

\* The agent stops a command, or the owner all of them: its task is told, for
\* it waits unless the agent was stopped; then the agent is killed.
LEMMA StopTells ==
  ASSUME IInv, NEW a \in Agents, NEW js \in SUBSET Jobs, js \subseteq registry[a],
         registry' = [registry EXCEPT ![a] = @ \ js], process' = process,
         NEW ok \in BOOLEAN, Fact(ok, [ch \in Copies |-> JobsEnded(ch, a, js)])
  PROVE  CommandsTold
<1>0. mem \in Fold /\ Rest
  BY TypeParts DEF IInv
<1> DEFINE F == [ch \in Copies |-> JobsEnded(ch, a, js)]
<1>1. F[mem] = JobsEnded(mem, a, js)
  BY DEF Copies
<1>2. Fact(ok, F)
  OBVIOUS
<1> HIDE DEF F
<1>3. F[mem].jobs = [mem.jobs EXCEPT ![a] = @ \ js] /\ F[mem].killed = mem.killed
  BY <1>0, <1>1, JobsEndedFields
<1>4. CASE stopped
  BY <1>2, <1>4, Factual DEF CommandsTold
<1>5. CASE ~stopped
  <2>1. mem' = F[mem]
    BY <1>2, <1>5, Factual
  <2>2. /\ \A b \in Agents : b # a => mem'.jobs[b] = mem.jobs[b]
        /\ mem'.jobs[a] = mem.jobs[a] \ js /\ mem'.killed = mem.killed
    BY <1>0, <1>3, <2>1 DEF Fold
  <2>3. ASSUME NEW j \in js, j \in mem.jobs[a]
        PROVE  a \in mem'.killed \/ (process'[j] = a /\ j \notin registry'[a])
    <3>1. process[j] = a \/ a \in lifetime
      BY <2>3 DEF IInv, Owned
    <3>2. a \in lifetime => a \in mem.killed
      BY <1>5, <2>3 DEF IInv, Dying
    <3>3. j \notin registry'[a]
      BY <1>0, <2>3 DEF Rest
    <3> QED
      BY <2>2, <3>1, <3>2, <3>3
  <2> QED
    BY <2>2, <2>3 DEF CommandsTold
<1> QED
  BY <1>4, <1>5

\* The command exits: its end is queued in the same fact.
LEMMA FinishTells ==
  ASSUME IInv, NEW a \in Agents, NEW j \in Jobs, FinishJob(a, j)
  PROVE  CommandsTold
<1>0. mem \in Fold
  BY DEF IInv, TypeOK
<1>1. CASE j \notin registry[a]
  BY <1>1 DEF FinishJob, CommandsTold, folds
<1>2. CASE j \in registry[a]
  <2> DEFINE F == [ch \in Copies |-> TellJob(JobsEnded(ch, a, {j}), a)]
  <2>1. F[mem] = TellJob(JobsEnded(mem, a, {j}), a)
    BY DEF Copies
  <2>2. PICK ok \in BOOLEAN : Fact(ok, F)
    BY <1>2 DEF FinishJob
  <2> HIDE DEF F
  <2>3. mem' = F[mem] \/ mem' = mem
    BY <2>2, Factual
  <2>4. PICK mid : mid = JobsEnded(mem, a, {j})
    OBVIOUS
  <2>5. mid \in Fold /\ mid.jobs = [mem.jobs EXCEPT ![a] = @ \ {j}]
    <3>1. {j} \in SUBSET Jobs
      OBVIOUS
    <3> QED
      BY <1>0, <2>4, <3>1, JobsEndedFields
  <2>6. {"job"} \in SUBSET Kinds
    BY DEF Kinds
  <2>7. PICK new : new = InputQueued(mid, a, {"job"})
    OBVIOUS
  <2>8. new \in Fold /\ new.jobs = mid.jobs /\ new.inbox = [mid.inbox EXCEPT ![a] = @ \cup {"job"}]
    BY <2>5, <2>6, <2>7, QuietFolds DEF SameTurns
  <2>9. /\ \A b \in Agents : b # a => new.jobs[b] = mem.jobs[b]
        /\ "job" \in new.inbox[a]
    BY <1>0, <2>5, <2>8 DEF Fold
  <2>10. mem' = new \/ mem' = mem
    BY <2>1, <2>3, <2>4, <2>7 DEF TellJob
  <2> QED
    BY <2>9, <2>10 DEF CommandsTold
<1> QED
  BY <1>1, <1>2

LEMMA SlayTells ==
  ASSUME IInv, NEW a \in Agents, Slay(a)
  PROVE  CommandsTold
<1>1. PICK D \in SUBSET Agents : mem' = mem \/ Killed(mem', mem, D)
  <2>1. TypeOK
    BY DEF IInv
  <2> QED
    BY <2>1, SlayShape
<1> QED
  BY <1>1 DEF CommandsTold, Killed

\* A restart reports every command of a live agent that the memory knew: the
\* log knows it too.
LEMMA RestartTells ==
  ASSUME IInv, Restart
  PROVE  CommandsTold
<1>0. TypeOK /\ mem \in Fold
  BY DEF IInv, TypeOK
<1>1. PICK ok \in BOOLEAN : Restored(ok)
  BY <1>0, RestartShape
<1>2. ASSUME NEW a \in Agents, NEW j \in mem.jobs[a]
      PROVE  a \in Alive(log) /\ j \in log.jobs[a]
  <2>1. a \in Alive(mem)
    BY <1>2 DEF IInv, Born, Buried, Alive
  <2> QED
    BY <1>2, <2>1 DEF IInv, FactsAgree, DecisionsAreLogged, Alive
<1>3. CASE ok
  BY <1>1, <1>2, <1>3 DEF CommandsTold, Restored
<1>4. CASE ~ok
  BY <1>1, <1>2, <1>4 DEF CommandsTold, Restored
<1> QED
  BY <1>3, <1>4

-----------------------------------------------------------------------------
(* The theorems                                                            *)

LEMMA StartKeeps == Init => IInv
<1> SUFFICES ASSUME Init PROVE IInv
  OBVIOUS
<1>1. Root \in Agents /\ {MaxInputs, MaxFaults, MaxCrashes, MaxMoves} \subseteq Nat
  BY RuntimeAssumption
<1>2. PICK ch : /\ mem = ch /\ log = ch
                /\ ch = [spawned |-> {Root}, killed |-> {}, inTurn |-> {},
                         inbox |-> [a \in Agents |-> {}], jobs |-> [a \in Agents |-> {}],
                         compacting |-> {}, dir |-> 0, archived |-> FALSE]
  BY DEF Init
<1>3. /\ ch \in Fold
      /\ ch.spawned = {Root} /\ ch.killed = {} /\ ch.inTurn = {}
      /\ ch.jobs = [a \in Agents |-> {}] /\ ch.dir = 0
  <2>1. 0 \in 0 .. MaxMoves
    BY <1>1
  <2> QED
    BY <1>1, <1>2, <2>1 DEF Fold
<1>4. Rest
  <2>1. wake = [a \in Agents |-> FALSE]
    BY DEF Init
  <2>2. wake \in [Agents -> BOOLEAN]
    BY <2>1
  <2> QED
    BY <2>2 DEF Init, Rest, Places
<1>5. Counters
  BY <1>1 DEF Init, Counters
<1>6. TypeOK
  BY <1>2, <1>3, <1>4, <1>5, TypeParts
<1>7. Born
  <2>1. Root \in Subtree(Root)
    BY <1>1, SubtreeClosed
  <2> QED
    BY <1>2, <1>3, <2>1 DEF Init, Born
<1>8. Buried /\ NobodyLeft /\ Owned /\ Dying /\ MoveBounded /\ KillsLogged
  BY <1>2, <1>3 DEF Init, Buried, NobodyLeft, Owned, Dying, MoveBounded, KillsLogged
<1>9. TurnsOwnTheirCommands
  BY <1>2, <1>3 DEF Init, TurnsOwnTheirCommands, TurnCancellable, CancelledOwnsNoJobs,
                    RegistryAgrees, IdleWhileMoving, reconfiguring, Alive
<1>10. FactsAgree
  BY <1>2, <1>3 DEF FactsAgree, DecisionsAreLogged, SubtreeDies
<1> QED
  BY <1>6, <1>7, <1>8, <1>9, <1>10 DEF IInv

LEMMA StepKeeps ==
  ASSUME IInv, Next
  PROVE  IInv' /\ CommandsTold
<1>1. ASSUME NEW a \in Agents, OwnStep(a) \/ Returns(a) \/ ToolStarts(a)
      PROVE  IInv' /\ NoneEnds
  <2>1. CASE BeginTurn(a)
    BY <2>1, BeginTurnKeeps
  <2>2. CASE End(a)
    BY <2>2, EndKeeps
  <2> QED
    BY <1>1, <2>1, <2>2, OwnStepsKeep DEF OwnStep, Returns
<1>2. ASSUME NEW a \in Agents, NEW j \in Jobs, Adopt(a, j)
      PROVE  IInv' /\ CommandsTold
  BY <1>2, AdoptKeeps, AdoptTells
<1>3. ASSUME NEW a \in Agents, NEW j \in Jobs, StopJob(a, j) \/ FinishJob(a, j) \/ ReapJob(a, j)
      PROVE  IInv' /\ CommandsTold
  <2>1. IInv'
    BY <1>3, JobStepsKeep
  <2>2. CASE StopJob(a, j)
    BY <2>1, <2>2, StopTells DEF StopJob
  <2>3. CASE FinishJob(a, j)
    BY <2>1, <2>3, FinishTells
  <2>4. CASE ReapJob(a, j)
    BY <2>1, <2>4, NoneEndsTells DEF ReapJob, NoneEnds, folds
  <2> QED
    BY <1>3, <2>2, <2>3, <2>4
<1>4. ASSUME NEW a \in Agents, Cancel(a)
      PROVE  IInv' /\ CommandsTold
  <2>1. IInv'
    BY <1>4, JobStepsKeep
  <2>2. PICK js : js = registry[a]
    OBVIOUS
  <2>3. js \in SUBSET Jobs
    BY <2>2, TypeParts DEF IInv, Rest
  <2>4. /\ registry' = [registry EXCEPT ![a] = @ \ js] /\ process' = process
        /\ \E ok \in BOOLEAN : Fact(ok, [ch \in Copies |-> JobsEnded(ch, a, js)])
    BY <1>4, <2>2 DEF Cancel, Drained
  <2> QED
    BY <2>1, <2>2, <2>3, <2>4, StopTells
<1>5. ASSUME NEW a \in Agents, Spawn(a)
      PROVE  IInv' /\ NoneEnds
  BY <1>5, SpawnKeeps
<1>6. ASSUME NEW a \in Agents,
             \/ \E kind \in {"prompt", "steer", "info"} : Queue(a, kind)
             \/ CompactBegins(a) \/ CompactStarts(a) \/ CompactDone(a) \/ CompactFails(a)
      PROVE  IInv' /\ NoneEnds
  BY <1>6, OutsideKeeps
<1>7. ASSUME NEW a \in Agents, Kill(a)
      PROVE  IInv' /\ CommandsTold
  BY <1>7, SlayKeeps, SlayTells DEF Kill
<1>8. CASE ArchiveBegins
  BY <1>8, SlayKeeps, SlayTells, RuntimeAssumption DEF ArchiveBegins
<1>9. CASE ArchiveEnds \/ MoveBegins \/ MoveCommits \/ MoveEnds \/ Stop
  BY <1>9, ArchiveEndsKeeps, MoveKeeps, StopKeeps, NoneEndsTells
<1>10. CASE Restart
  BY <1>10, RestartKeeps, RestartTells
<1> QED
  BY <1>1, <1>2, <1>3, <1>4, <1>5, <1>6, <1>7, <1>8, <1>9, <1>10, NoneEndsTells DEF Next, ToolWork

LEMMA StutterKeeps ==
  ASSUME IInv, UNCHANGED vars
  PROVE  IInv' /\ CommandsTold
<1>1. IInv'
  BY DEF IInv, vars, folds, TypeOK, Born, Buried, NobodyLeft, Owned, Dying, MoveBounded, KillsLogged,
         TurnsOwnTheirCommands, TurnCancellable, CancelledOwnsNoJobs, RegistryAgrees,
         IdleWhileMoving, reconfiguring, FactsAgree, DecisionsAreLogged, SubtreeDies, Alive
<1> QED
  BY <1>1, NoneEndsTells DEF vars, folds, NoneEnds

LEMMA Inductive == Spec => []IInv
<1>1. IInv /\ [Next]_vars => IInv'
  BY StepKeeps, StutterKeeps
<1> QED
  BY <1>1, StartKeeps, PTL DEF Spec

\* In every reachable state the folds, loops, tokens, commands and counters
\* are of their types, and a turn's token belongs to a turn.
THEOREM TypeCorrect == Spec => []TypeOK
<1>1. IInv => TypeOK
  BY DEF IInv
<1> QED
  BY <1>1, Inductive, PTL

\* Every turn that the fold shows can be cancelled and has an actor, a
\* cancelled turn has and adopts no command, the registry and the fold name
\* the same commands, and nobody works while the directory changes.
THEOREM TurnsCorrect == Spec => []TurnsOwnTheirCommands
<1>1. IInv => TurnsOwnTheirCommands
  BY DEF IInv
<1> QED
  BY <1>1, Inductive, PTL

\* What a restart must repair is on disk, whichever appends failed, and nobody
\* outlives the agent it works for.
THEOREM FactsCorrect == Spec => []FactsAgree
<1>1. IInv => FactsAgree
  BY DEF IInv
<1> QED
  BY <1>1, Inductive, PTL

\* A command leaves the fold only when its agent is killed, is told of it, or
\* stopped it and its task knows.
THEOREM JobsCorrect == Spec => JobIsTold
<1>1. IInv /\ [Next]_vars => [CommandsTold]_vars
  BY StepKeeps
<1>2. [][CommandsTold]_vars => JobIsTold
  BY PTL DEF JobIsTold, CommandsTold
<1> QED
  BY <1>1, <1>2, Inductive, PTL DEF Spec
=============================================================================

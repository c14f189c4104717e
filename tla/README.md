# TLA+ models of stavlos

stavlos is an agent harness: a daemon that runs agents in channels, keeps
everything that happens in an event log, asks its owner for permission, and serves
terminal, browser and Discord clients. This directory holds models of the parts of
it where the order of events matters, the configurations that check them with TLC,
and proofs that TLAPS checks.

Paths below are those of the repository (`src/` is its source directory).
`PROJECT.json` holds the machine-readable side: for every definition the source
lines it stands for, for every property a change of the code that breaks it
(`mutants`), the hazards and the finding. Operators that a model never uses itself
(`FoldedAnyway` beside `Decided`, `TellNobody` beside `TellJob`) are those changes:
each is a plausible bug, and each makes the property it is paired with fail.

## 1. Inventory

| Part | State it keeps | Operations | Talks to |
|---|---|---|---|
| Event log `eventlog.rs` | SQLite tables (events, channels, usage, trust), a bounded request queue, one writer thread | append, barrier, close, read, set_trust | journal, hub, owner |
| Hub and queues `daemon/hub.rs`, `daemon/queue.rs` | per connection: subscriptions, replay lock, bounded outbound queue | subscribe, unsubscribe, deliver, disconnect | log (commit callback, barrier), server |
| Prompts `escalation.rs` | pending prompts with generation and claim | begin, claim, reply, resolve, answer_where, release_client, timers | tools (waiters), clients |
| Journal and fold `agent/journal.rs`, `agent/state.rs` | the fold of a channel's events, stop flag, remembered write errors, budget | commit (decision), fact, record, reserve_call, finish_call | log |
| Actors `agent/runtime/*` | a loop, a turn token, a lifetime token and a wake-up permit per agent | begin_turn, run, execute, end, spawn, cancel, kill, archive, set_directory, compact, stop, restore | journal, model, tools, prompts |
| Jobs `agent/services.rs` | background commands of each agent | adopt, stop, finish, drain_for_cancel, shutdown | journal, processes |
| Conversation `agent/context.rs`, `project.rs` | the history of an agent, its summaries and notes | fold, with_notes, compact | journal, model |
| Requests `agent/routing.rs`, `agent/state.rs` | who owes whom a reply, inboxes, reminders | message, accept, end_replies, report_turn_limit | actors |
| Shared boards `daemon/boards.rs` | mirrored boards of two channels | commit_pair under two locks | journal |
| Models `agent/pick.rs`, `model/*` | plans and their limits, stream state | pick, move off a limit, park, resume, stream, retry | HTTP |
| Permissions `agent/permission.rs`, `agent/scope.rs`, `agent/security.rs`, `policy.rs` | mode, permits, directories | decide, ask, remember, sweep | prompts |
| MCP `agent/mcp.rs` | running servers, idle timers | start, share, call, stop | processes |
| Daemon `daemon/owner.rs`, `handlers.rs`, `server.rs`, `client.rs` | channels, connections, requests in flight | create, recover, dispatch, trust, shut down | everything |
| Project configuration `config/*`, `daemon/configuration.rs` | files of a project, who trusted which bytes | load, trust, set, edit | prompts, actors |
| Streams `daemon/stream.rs` | unsent deltas | merge, flush | hub |
| Logins `daemon/logins.rs`, `oauth/*`, `auth.rs` | flows, tokens | begin, poll, refresh | HTTP, files |
| Discord `discord/*` | prompt store, board cursors, a worker per channel | poll, mirror, post, settle, recover | HTTP, daemon |
| Processes `proc.rs`, `ownedchild.rs`, `sandbox/*` | process groups | spawn, stop, reap | kernel |
| Terminal `tui/*` | a view per channel, prompts, requests under way | reconcile, subscribe, /history, bind | daemon |
| Tools `tools/*`, browser API `crates/api`, CLI `app/*` | files | pure or I/O | daemon |

What makes them hard, and what must hold:

* **Event log.** Requests of many callers share a transaction; one of them may be
  refused, SQLite may fail, a commit may have an unknown result, the process may
  end. Rows must stay gapless per channel and in order, a request enters whole or
  not at all and once, callers hear the truth, `close` loses nobody.
* **Subscriptions.** History is replayed outside the writer thread while rows are
  committed; the client is slow, leaves or unsubscribes. A subscriber sees each
  row once, in order, and a live one misses none.
* **Prompts.** Two clients, timers, mode changes, cancellation and dropped futures
  race for one prompt. Exactly one of them resolves it and the caller gets that.
* **Actors.** Tasks sleep on a one-permit `Notify`; cancel, kill, archive, a
  directory change, job exits, failed writes and restarts arrive between any two
  critical sections. No wake-up is lost, a turn can always be cancelled, the
  directory never changes under work, no command is forgotten, the log knows what
  a restart must repair.
* **Requests.** A debt is open from the commit that queues it, held once it is
  taken, and may be answered, forgotten, settled by the turn limit or reminded of
  in between. It stays answerable, is answered once, and reminders are bounded.
* **Limits.** Agents of a channel share a budget; what is known of a provider's plan
  is read, polled, learnt from an error and lost in a restart, out of order. The
  budget holds, and the parked resume when they may, and not for ever.
* **Admission.** A call is decided from one snapshot of the channel, asked about and
  carried out later, while two owners change the mode, the directories and the
  configuration. What runs may run, and only people widen what agents may do.
* **Project trust.** Loads, trust, edits and moves overtake each other. Only the bytes
  somebody trusted are used, and in the directory they were trusted for.
* **Discord.** A remote call that is cut off may have happened; links break, gateways
  repeat, both processes restart with two files between them. Chat keeps its order,
  messages are not posted twice, cards of prompts come to tell the truth.
* **Terminal.** Replies and notifications come in any order, tagged with the scope
  they were asked in. The view has no gap, and comes to agree with the daemon.

The hazards of the code, each at its line, are in `PROJECT.json` with the properties
that would catch them going wrong.

## 2. Modules

| Module | Models | Model-checked by | Proofs |
|---|---|---|---|
| `OrderedLog` | what the journal promises, abstractly | refinement of `EventLog` | `EventLogProofs` |
| `EventLog` | `eventlog.rs` | `MCEventLog` | `EventLogProofs` |
| `Subscriptions` | `hub.rs`, `queue.rs` over that promise | `MCSubscriptions` | `SubscriptionsProofs` |
| `Escalation` | `escalation.rs` | `MCEscalation` | `ClientProofs` |
| `ChannelRuntime` | `agent/runtime`, `journal.rs`, the fold, `services.rs` | `MCChannelRuntime` | `ChannelProofs` |
| `Requests` | requests and reminders of `routing.rs`, `state.rs` | `MCRequests` | `RequestsProofs` |
| `ProviderLimits` | budget, plans, parking: `journal.rs`, `turn.rs`, `settings.rs`, `pick.rs`, `registry.rs` | `MCLimits` | `ServicesProofs` |
| `Admission` | `permission.rs`, `scope.rs`, `security.rs`, `policy.rs`, `execution.rs` | `MCAdmission` | `AdmissionProofs` |
| `ProjectTrust` | `config/snapshot.rs`, `owner.rs`, `configuration.rs`, `settings.rs` | `MCProjectTrust` | `TrustProofs` |
| `DiscordBridge` | `discord/*` of one channel | `MCDiscord` | `ServicesProofs` |
| `Terminal` | `tui/controller/*`, `client.rs` of one person | `MCTerminal` | `ClientProofs` |

`MC...` modules give the constants of a small instance their values; a proof module
extends the component's module and holds for all values.

How they fit together: `EventLog` is shown to implement `OrderedLog`; `Subscriptions`
takes the journal at that promise. `Terminal` takes the daemon at what `Subscriptions`
and `Escalation` promise: a subscription stops, replays and goes live, and a prompt is
listed, announced and recorded. `Admission` publishes prompts and takes answers as
`Escalation` gives them. `Requests`, `ProviderLimits` and `Admission` refine places of
the loop in `ChannelRuntime` that it leaves open: what an input says, what a model
call returns, whether a tool runs.

### EventLog and OrderedLog

Callers put requests on a bounded channel (`Submit`, with the sender's lock;
`TakeSender` and `SendClose` for the two halves of `close`). The writer drains a
batch (`Drain`), writes the appends before the next barrier in one transaction
(`BeginGroup`, `Insert`, `NextAppend`, `Commit`), tells the callback (`Deliver`)
and then the callers (`Acknowledge`). A refused group is written append by append
(`Abort`, `BeginSingle`); a failed `COMMIT` may or may not have reached the disk
(`CommitUncertain`) and is not retried. `Reopen` is a crash and a restart at any
point. A transaction is the pair `txEvents`, `txNames`, and numbering is the code's
`SELECT max(seq)` over the transaction's own view. The constraint
`UNIQUE(channel, seq)` of the schema is left out on purpose: the numbering by itself
has to keep it. Usage rows, titles, `set_trust` and queries are left out.

`OrderedLog` says what a client may rely on: an append-only log in submission
order, gapless, requests whole and at most once, rows published in order, answers
in order, success only for what is logged and published. `ImplementsOrderedLog` is
the refinement; the mapping is `Promise` at the end of `EventLog`.

### Subscriptions

The journal is taken at its promise: `Commit` adds a group of rows and starts the
callback, `Deliver` is one client's `deliver` of one row. A subscribe call waits for
the client's replay lock, stops live delivery to the earlier call, reads pages and
replays them into the queue, and turns live inside a barrier that finds nothing
left. `hidden` rows are those of a commit of unknown outcome: they are in the table
and never reach the callback. The feed of web clients is not modelled.

### Escalation

A request is named by its generation. Whoever removes a prompt from the map does it
under the lock and sends after it is released: `sending` holds what is between. A
disconnected client may have one dispatched request left that runs after
`release_client`. Notifications to clients change nothing in the manager and are not
modelled.

### ChannelRuntime

One action is one critical section of the `Core` lock. A decision is appended before
it is folded, a fact is folded also when the append fails, so there are two folds:
`mem`, what the process acts on, and `log`, what is on disk. `Restart` starts again
from `log` with the repairs of `recovery_events`. `pc` is where `Actor::run` of each
agent is, `token` its running turn, `lifetime` the agents whose lifetime token is
cancelled, `registry` and `process` the two sides of a background command, `mover`
and `archiver` the two owner calls that release the lock half way. Who works for an
agent, at whatever distance, is the least set closed under `Parent` (`Subtree`).

Abstractions: an inbox is the set of the kinds of input in it; what an input says is
`Requests`' subject. Prompts are `Escalation`'s. Whether the model, the budget or a
tool fails is a choice. Compaction inside a turn is part of `Prepare`. A restart whose
repairs cannot be written leaves the channel without a runtime, as in `recover`.

### Requests

A request is open to those who owe it and held by those who took it. `Ask`,
`Respond` and `Post` are `message` and `accept_prepared`; the loop keeps the places
between which others get the lock. Agents are siblings; appends succeed; background
jobs are left out (the code reminds nobody who has one running), reminders are
configured on. `told`, `answered` and `forgotten` are history and constrain nothing.

### ProviderLimits

The model calls of one channel. `Reserve` takes a call from the budget under the
lock and counts its tokens when it returns; `calls` and `tokens` outlive turns and
restarts. A plan is what the tracker knows of it: until when it refuses (`limited`)
and until when it is full (`full`, `Never` when the provider does not say). It is
learnt from errors, from headers and from polls, whose replies may be older than what
is known (`PollReads`, `PollReturns`), and read back from `plan-usage.json` after a
restart (`kept`). At a limit a turn moves to another model of its role or ends and
parks; the daemon's tick looks at the market first and takes the lock afterwards
(`TickReads`, `TickCommits`). Instants are a few numbers. The pace that orders open
models is left out: any of them may be first.

### Admission

One call at a time per agent: decided from a snapshot (`Decide`), its prompt published
(`Publish`), answered by a person, a timer or a sweep, the answer taken and remembered
(`Take`), a directory granted (`Grant`), run (`Run`). A mode change is committed first
and sweeps the pending prompts twice afterwards, during which another owner may act.
Files are targets, directories sets of targets, and the rules of a policy are lists of
operations, targets and verbs in layers; the text of commands, globs and hosts is left
out. A child has directories of its task that its turn's calls must stay within.

### ProjectTrust

The content of a directory is a version of each of its files, and its hash is the
content. A worker of the daemon carries one call through its places: load, trust (log,
remember, resolve, walk over the channels), refuse, edit under the editor's lock, move a
channel, recover. Between any two of them other workers act, people answer prompts, and
files change on disk. `logged` is history: what was ever saved as trusted.

### DiscordBridge

The bridge of one channel. One step is one remote call with the code up to the next
await; one that is cut off may or may not have happened. The link is attached,
bound, subscribed and lost; a bounded queue feeds a serial worker (`job`), which mirrors
events, keeps one card per prompt and carries messages and clicks back. The prompt
store and the board cursor are files and survive; everything else starts `Fresh`.
`DaemonRestart` loses prompts that were not recorded, and the notices on their way.
`BridgeInit`, `BridgeNext`, `BridgeSpec`, `BridgeTypeOK`, `StartOver`, `ReplyRefused` and
`Unoccupied` have long names because `ServicesProofs` extends this module and `ProviderLimits`.

### Terminal

One task owns the view; its requests carry the scope they were made in, and replies
that come in another scope are dropped as the code drops them. Notifications are a
queue, replies a set. `Bind` changes the channel and keeps the old view in `visited`,
`History` reads further back, a directory change makes a new scope of the same channel.
`been` and `returns` belong to the bounds: the channels that were in view, and how often
the person came back to one of them. `TerminalSpec`, `FairTerminal` and `TerminalTypeOK`
have long names because `ClientProofs` extends this module and `Escalation`.

## 3. Runs

Bounds are named by the constants. `discord` checks for deadlock. The other runs do
not: a bounded model stops when its submissions, inputs or commands are used up, and a
journal stops when it is closed.

| Run | Checks | Bounds |
|---|---|---|
| `event_log` | `LogIsSound`, `ReportsAreTrue`, `ImplementsOrderedLog`, `Answered` | 2 channels, 2 names, 4 submissions, 1 SQLite failure, 1 crash, queue and batch of 3 |
| `subscriptions` | `GetsTheLog`, `SubscribeReturns` | 1 client, 2 calls, 2 channels of 2 rows, pages of 1, queue of 3 |
| `escalation` | `PromptsAreSound`, `ClaimsWork`, `RequestReturns` | 2 requests under 1 id, 2 clients |
| `channel_runtime` | `TurnsOwnTheirCommands`, `FactsAgree`, `JobIsTold` | an agent with 1 command and up to 2 inputs, 1 failed append, 1 restart, 1 move, three of these in all; or with a child and 1 input, 1 move (`Together`) |
| `channel_live` | `WorkGoesOn` | 1 agent, 1 command, 1 input, 1 restart, 1 move |
| `requests` | `DebtsAreSound`, `EveryDebtReminded`, `AnsweredOnce` | 2 agents and the user, 2 requests, 2 cancels, kills or restarts |
| `requests_forgotten` | finds the violation of section 5 | the same with 1 stop |
| `limits` | `SpendingBounded`, `LimitsAreTrue`, `ParkedResumes` | 2 agents, 2 providers, 3 calls, tokens of 1, 1 move, 1 resume, 3 instants, 3 events |
| `admission` | `CallsAreJudged`, `OnlyPeopleWiden`, `CallsEnd` | an agent and its child, 2 owners, 5 targets, 2 directories, 6 calls, 2 configurations, 2 commands; one turn at a time (`InTurns`) |
| `project` | `TrustIsKept`, `TrustActs` | 2 workers, 2 directories, 2 channels, 4 contents, 2 prompts, 2 commands or 1 change (`Small`) |
| `discord` | `MirrorIsTrue`, `CardsAreTrue`, `DiscordSettles` | 1 prompt, 1 message, queue of 2; chat, inputs and faults (2), 2 in all; overloads are not bounded |
| `terminal` | `NothingSkipped`, `ViewSettles` | 2 channels, 1 prompt, 1 event or step, 1 directory change, a first look of 1 event |

Every passing run also checks the type invariant of its module, except
`channel_live`, whose module's invariants are those of `channel_runtime`.

Properties that are conjunctions, so that one run of TLC and one theorem speak of
what belongs together:

* `LogIsSound` is `SequencesGapless` and `CloseIsLast`; `ReportsAreTrue` is
  `AnswersAreTrue`, `BarrierSeparates` and `LastSeqAgrees`.
* `GetsTheLog` is `Contiguous`, `NoInterleaving`, `LiveIsComplete`, `LockHeldByReplay`.
* `PromptsAreSound` is `ResolvedOnce`, `NoStalePrompt`, `ReplyWins`, `OwnCause`;
  `ClaimsWork` is `ClaimProtects` and `DeadClaimEnds`.
* `TurnsOwnTheirCommands` is `TurnCancellable`, `CancelledOwnsNoJobs`, `RegistryAgrees`,
  `IdleWhileMoving`; `FactsAgree` is `DecisionsAreLogged` and `SubtreeDies`; `WorkGoesOn`
  is `NoSleepingOnWork`, `CancelEnds` and `TheDeadLeave`.
* `DebtsAreSound` is `OpenIsReachable` and `NudgesBounded`.
* `SpendingBounded` is `BudgetKept` and `ResumesBounded`; `LimitsAreTrue` is
  `ResumeIsTrue` and `LimitRemembered`.
* `CallsAreJudged` is `RunsAreWarranted`, `TurnsStay`, `RepeatsAreAsked`.
* `TrustIsKept` is `OnlyTrustedBytes`, `OfItsDirectory`, `PromptsCount`; `TrustActs` is
  `AllowActs` and `CallEnds`.
* `MirrorIsTrue` is `BoardInOrder` and `PostedOnce`; `CardsAreTrue` is `ResultWillCome`
  and `FinalIsTrue`; `DiscordSettles` is `OnlyGapsOverload`, and `CardsSettle`,
  `OpenIsShown`, `BoardCatchesUp` once links hold.
* `ViewSettles` is `LoadingEnds`, `PromptsShown`, `CardsSettle`.

Why these bounds are enough to be interesting. Four submissions allow a group of two
appends of which one is refused, a barrier and a close behind it, and a request that
arrives meanwhile; the payloads clash on a name across channels, so the group and the
single path both happen. Two subscribe calls are the fewest that can interleave; a
queue of 3 overflows, and pages of one row make every replay take several turns of
the loop. Two requests under one id are the fewest that could be confused. One agent
with one command meets every pair of owner call, job exit, write failure and restart;
the tree needs two, and `Together` leaves out what the agent alone already covers. Two
requests cover a broadcast, an answer that asks in turn, and a debt that is forgotten
while its input lies in an inbox; `NudgesBounded` needs four turns in a row of one
agent, which the run reaches. One resume is enough to run out of them, three calls for
two agents to race for the last, three instants for a limit to come, be read late and
pass. The six calls differ in what decides them (a rule, a permit, a mode, a control
file, a directory, a hidden file); two owners are the fewest whose sweeps overlap, and
agents meet only through the channel, so one turn at a time meets everything an owner
does. Two workers are the fewest that overtake each other between a load and its use.
Two faults are the fewest that break a recovery; a queue of 2 overflows with a snapshot
and an event. A trust prompt is not combined with a board (`MCInit`), since it differs
from others only in never being logged. `requests` uses symmetry of agents: its module
chooses no member of the set, and the run checks no liveness.

What the small instances leave out is what the theorems of section 4 are for: they
speak of all sizes, trees, configurations and bounds, and without `Together`, `InTurns`
and `Small`.

### Fairness

* `EventLog`: weak fairness of the writer thread and of the thread that closes. Nobody
  has to submit.
* `Subscriptions`: weak fairness of the callback, of the socket writer (a write ends or
  times out, which closes the queue) and of a dispatched request; strong fairness of
  getting the replay lock, which tokio's mutex hands over in the order it was asked
  for, and of the barrier, which the journal runs in submission order. Because rows
  are bounded, `SubscribeReturns` says that calls return once commits pause: with rows
  for ever a slow replay may never catch up, and the code does not promise it.
* `Escalation`: timers fire, futures are polled, whoever removed a prompt goes on to
  send it. Clients owe nothing.
* `ChannelRuntime`: weak fairness of each agent's own steps. `Exit` has a fairness of
  its own: `tokio::select!` polls its branches in random order, so a ready cancellation
  is not passed over for ever. A model call or a tool need not return unless the turn is
  cancelled, when `Turn::call` and the tools' tokens return it. `ReapJob` is fair because a
  cancelled token kills the process group, and the second halves of the owner's calls
  because they only wait for the disk.
* `ProviderLimits`: turns run and their calls return (`stream.rs` has a time-out for each
  wait), the timer ticks, time passes. Nobody has to poll, write or restart.
* `Admission`: the runtime polls a turn's task, and a prompt has a timer.
* `ProjectTrust`: each worker goes on with its call, and an answered or withdrawn prompt
  reaches whoever waits for it. Nobody has to answer.
* `DiscordBridge`: the connection task, the worker with its five-second tick, and the daemon's
  records go on, and remote calls return. Faults are bounded, overloads are not: nothing in the
  code makes the worker faster than a replay, so `DiscordSettles` does not assume it. It promises
  agreement where links hold in the end (`LinksHold`), and that they hold unless the events a
  new link has to deliver are more than the queue takes (`Gap > QueueSize`). People owe nothing.
* `Terminal`: the daemon and the terminal go on while they have something to do.

## 4. Proofs

The theorems hold for every value of the constants that the `ASSUME`s of the modules
allow; TLC evaluates those assumptions in every run. They are safety theorems: every
one rests on an inductive invariant, one lemma per action or place of the code, and a
last step that puts them together with temporal logic. Each invariant was first checked
by TLC on an instance of the run.

| Module | Theorems | Inductive invariant |
|---|---|---|
| `EventLogProofs` | `TypeCorrect`, `GaplessCorrect`, `CloseCorrect`, `SoundCorrect`, `ReportsCorrect`, `Refines` | `GaplessInv`, `CloseInv`, `RInv` |
| `SubscriptionsProofs` | `TypeCorrect`, `LogDelivered` | `IInv`, eleven parts |
| `ClientProofs` | of `Escalation`: `TypeCorrect`, `SoundCorrect`, `ClaimCorrect`; of `Terminal`: `ViewTyped`, `ViewHasNoGap` | `IInv`, nine parts; `ViewInv`: `Types`, `Known`, `Stay` |
| `ChannelProofs` | `TypeCorrect`, `TurnsCorrect`, `FactsCorrect`, `JobsCorrect` | `IInv`, ten parts |
| `RequestsProofs` | `TypeCorrect`, `ReachableCorrect`, `NudgesCorrect`, `DebtsCorrect`, `RemindedCorrect`, `AnsweredCorrect` | `TypeOK`, `OpenIsReachable`, `Nudged`, `Told`, `RestsReminded`, `DrawnOnce` |
| `ServicesProofs` | of `ProviderLimits`: `TypeCorrect`, `SpendingCorrect`, `LimitsCorrect`; of `DiscordBridge`: `BridgeTyping`, `MirrorCorrect`, `CardsCorrect` | `IInv`, four parts; `BridgeInv`, eleven parts |
| `AdmissionProofs` | `TypeCorrect`, `JudgedCorrect`, `WidenCorrect` | `IInv`, three parts |
| `TrustProofs` | `TypeCorrect`, `TrustCorrect` | `IInv`, seven parts |

**EventLogProofs.** `SequencesGapless` is not inductive: it speaks of the table, while the
next commit copies the transaction's view over it. `GaplessInv` adds that `txEvents` is
gapless too, and that a transaction in progress only ever added rows. `Insert` keeps it
since the number is one more than the greatest of its channel (`LastSeqIsLast`,
`GaplessAppend`), and the greatest exists because a finite set of naturals has one
(`Greatest`). `CloseInv` adds that a close is submitted only once, when the sender is gone,
so nothing can come behind it. `RInv` is what the reports and the refinement need: the
requests in work are in line, in the order of their submission, over group, batch and
queue (`InLine`); a request is in the table whole or not at all, and ahead of all that still
wait (`TableSound`); the transaction is the table, the requests it has inserted, each whole,
and the current one up to the cursor (`TxSound`); a barrier saw just the rows of earlier
requests, and the callback was handed rows of the table. `Refines` maps every step of the writer to the promise:

| `EventLog` | `OrderedLog` |
|---|---|
| `Submit`, `SendClose` | `Submit` |
| `Commit` | `Write` the requests of the transaction |
| `CommitUncertain` | `Write` and answer at once, or `Fail` |
| `Deliver` | `Publish` a row |
| `Acknowledge`, `RunBarrier`, `Stop` | `Succeed` |
| a refused append on its own | `Fail` |
| `Reopen` | `Restart` |
| `Drain`, `BeginGroup`, `Insert`, `NextAppend`, `Abort`, `BeginSingle`, ... | nothing |

**SubscriptionsProofs.** `GetsTheLog` speaks of frames that were sent; what makes it hold is
what will still come. `ReplayIsWhole` and `LiveIsWhole` say of a call, in replay and live,
that it was sent everything from the row it asked for up to its cursor, and `LiveIsWhole`
that each later row is hidden or still in the callback for this client (`Coming`). The
handoff inside the barrier is the one step that turns one into the other: the barrier runs
between two callbacks, so nothing is left to replay and nothing is coming. `ReplayIsAlone`,
`NewestGoesOn` and `FramesOwned` keep calls apart, `OpenIsSeen` and `CallbackInOrder` say
whom the callback saw and in which order it brings rows.

**ClientProofs.** `ResolvedOnce` counts three sets. `SendingAlone`, `SentAlone` and
`NothingLost` are the pairwise exclusions and the cover it is counted from; `PromptsOwned`
ties the map to the request that waits (a repeated id never reaches an earlier request);
`DoneIsTold` and `TimersOfPermissions` are what `ReplyWins` and `OwnCause` need of a
request that is over and of one whose timer runs.

`NothingSkipped` speaks of what is shown, and three things keep it so: what the view saw last,
what lies in the queue of notifications, and what the daemon will still send. `Steady` says of
the queue alone that no event is missing between two of it, nor between one of them and what
was sent (`Upto`): its numbers may go back, when a scope subscribes again, but never ahead by more
than one. `Joined` says the same from the view's last event on, and `NotBefore` that nothing
older than the first event shown will come. What makes it hold for the first event to be shown
is that until then the log was asked for once (`AskedOnce`), by one request, its answer or the
replay it began, whose events ascend. All of it is about the channel in view while the person
has not come back to one that was left; `NewIsQuiet` says of channels not seen yet that nobody
asked for them, and `LeftForGood` that only a channel that was left is unsubscribed. TLC checked
`ViewInv` with three channels, three steps and a return (14 million states) before the proof.

**ChannelProofs.** Turns, tokens, registry and fold are proved together, for any tree of
agents. `Born` and `Buried` say that who is not spawned or is dead has nothing; `Owned` and
`Dying` relate a registered command to its task and a stopped agent to its death;
`NobodyLeft` speaks of the gap between the two halves of `archive()`; `KillsLogged` says
that only a failed append keeps a death from the log. Proving `SubtreeDies` gave its exact
condition, which no run within its bounds had shown: an agent below a dead one always has a
cancelled lifetime, but is dead in the fold only if not both an append failed and the daemon
was restarted (section 5). `JobIsTold` needs of a command that leaves the fold who took it.

**RequestsProofs.** `TypeOK` contains the two facts that make it inductive: who holds a request
owes it, and a request without debtors is `Settled`. `OpenIsReachable` follows since an action
settles a debt, moves it from the inbox to `held` (`TakeKeeps`), or delivers its input in the
step that opens it (`DeliverKeeps`). `Nudged`: a reminder in an inbox, or a turn that only
reminders began and that did nothing, means fewer than three were ignored. `Told` and
`RestsReminded`: what is held was told as often as reminders were counted since, so who rests
was told three times. `DrawnOnce`: ids in inboxes and requests were drawn before, so an answered
debt is opened again by no message.

**ServicesProofs.** Limits: a turn reserves at most one call, so the tokens pass the limit by less than
the calls under way (`BudgetKept`, over `Outstanding`, the finite set of calls that were
reserved). `AgentsSound` says that an hour to resume, and the daemon's message, are of agents
that sleep, and that who parks has resumes left; `TickPast` that the tick's market was read
before.

Discord: between an event in the log and what Discord shows of it stand the next event of the
link, the queue with works of dead links in it, the sequence of the worker and the call under
way, and each of them may vanish. `QueueSound` says what a work promises while its link is up,
`LinkSound` that the worker is live just between a snapshot and the end of its link. `InLine` is
the order of the queue: behind the worker's sequence events follow without a gap up to the next one
the link delivers, so a worker that goes on to an event has seen all before it. From it follows
`MirrorSound`: a live worker of a board has said all chat up to its sequence, but for the message it is
at; that of another channel has said nothing beyond it, so nothing is said twice. Snapshots of a board start from the cursor, which is never
ahead of what was said, so replaying cannot skip. `ResultSound` gives `ResultWillCome` the case in
which a card is about to be stored: a prompt the worker has listed, its list being
older than the card, has no result up to the worker's sequence, because a result is recorded after
its prompt left the list, and the list was read after the events up to that sequence. `LogSound` (a
result follows the one request of a prompt that is over), `CardSound`, `StoreSound` and `JobSound`
say to whom cards, entries and calls belong; `PostsSound` that whoever posted a message remembers
it, or its session is over and the gateway silent about it. A call that is cut off (`InFlight`) moves cards
and chat as its completed form does, which is why `CardsMove` and `SaidMove` are stated once and
used for both. TLC checked `BridgeInv` on a small instance before it was proved.

**AdmissionProofs.** `Judged` is what a decision promises until its call is over, `Answerable`
what an answer may be at each place, `Counted` that the streak of unasked calls is no longer
than the counted one. It holds through commands of owners since a permit stays for as long as
somebody has a turn and a directory changes only when nobody has. The policy's precedence (the
most literal rule wins) is proved over any finite set of rules (`Largest`).

**TrustProofs.** `KnownIsLogged`: what is trusted in memory or on disk was saved. `TaskSound`
says what each worker holds on to at each place: a load it is about to set is of its directory,
and its layers, if any, were trusted (`LoadSound`). `PromptsSound` ties prompts to directories,
`MovesOwned` and `EditorHeld` the flags to the workers that will reset them.

What the proofs changed in the models: `Subtree` is a least closed set instead of a recursion;
`SubtreeDies` has its condition; `Judge` in `Admission` is a chain of the code's `if`s with an
assumption that rules are finite; `ProjectTrust` assumes that `None` is no worker, and its
mutually exclusive places are named; in `Terminal`, `Kept` is one function, and `been`
counts a return to a channel that was left before its first answer came. The proof needs that
nobody returned, and TLC finds the gap when somebody did, so `NothingSkipped` now says
`returns = 0`, where the bound of the run said it alone. No theorem has a hypothesis beyond `Spec` and the
assumptions on constants.

What stays with TLC. Liveness needs fairness and ENABLED, which are out of the prover's reach:
`Answered`, `SubscribeReturns`, `RequestReturns`, `DeadClaimEnds` (so `ClaimsWork` is proved in its
safety half, `ClaimCorrect`), `WorkGoesOn`, `ParkedResumes`, `CallsEnd`, `TrustActs`,
`DiscordSettles`, `ViewSettles`. Every other property of a passing run is stated by a theorem.

## 5. Where the code does not do what it says

`requests_forgotten` must find a violation, and is the finding in `PROJECT.json`: a request
that was forgotten with its asker is created again when its input is taken from an inbox
(`agent/state.rs:610`), and the agent is reminded to answer an agent that may be dead.

These were met while modelling and proving. The models do what the code does, the properties
are stated around them, and none has a run of its own.

* Actors. When the append at the start of a turn fails, the agent goes back to sleep on the
  input it has (`agent/runtime/turn.rs:107`); the end of a command whose agent was promised to
  be woken (`tools/shell.rs:91`) stays unread until something else arrives. A tool whose start could not
  be written is skipped and the next one starts (`turn.rs:484`), although a failed decision
  "prevents this agent from taking its next runtime step" (`journal.rs:173`). `archive` may commit
  while `set_directory` loads the configuration; the directory of the archived channel changes
  (`agent/runtime/settings.rs:408`). A kill that could not be written, a written kill of the
  parent and a restart leave the child alive in the fold with a cancelled lifetime
  (`agent/runtime/mod.rs:430`).
* Limits. A full window with unknown reset is never polled again when everybody is parked: only
  a call polls (`ParkedResumes` excludes it). A cancel that races the end of a turn parks the
  agent it should have stopped; `set_model` during a call parks although the new model is open;
  partial answers reset the count of resumes.
* Admission. A mode change answers what is pending when it sweeps; a prompt decided before and
  published after it keeps the older mode's verdict to ask. The counter of repeats counts only
  calls that ran unasked.
* Project trust. `trust()` resolves whatever prompt the directory has by then with "allow", even
  one for newer content (`daemon/owner.rs:515`); an edit trusts whatever is on disk when it ends
  (`daemon/configuration.rs:84`); the stamp of files is taken when a configuration is set, not when
  it was read (`settings.rs:29`); archiving or moving the channel that owns a directory's prompt
  leaves other channels of it without one. `OnlyTrustedBytes` holds all the same: the hash that is
  saved is that of the content that was shown or written, or what is there.
* Discord. A message of the approver is dropped when the link is cut while it is posted
  (`discord/worker.rs:79`). A replay longer than the queue of 256 may cut every connection at the
  same place (`discord/bridge.rs:459`): notifications are queued as they arrive, the worker
  posts them one by one, and the reconnection starts from the cursor again. TLC finds this cycle
  when `LinksHold`, or `BoardCatchesUp` without it, is asked of the run's instance.
* Terminal. `/history` is refused after a directory change (`tui/controller/replies.rs:71`); on a
  return to a channel the view may repeat rows or miss some, and a prompt that was withdrawn meanwhile may show.
* Wording. An accepted reply is sent after the lock is released, not under it as the comment at
  `escalation.rs:272` says (`ReplyWins` and `ResolvedOnce` show that this is harmless); the answer
  timer resolves a permission prompt nobody answered, where `README.md:34` speaks of an explicit
  answer.
* Conversation, read and not modelled. `begin_turn` does not look at `compacting`
  (`turn.rs:68`), so a compaction of the owner overlaps a turn; a second compaction whose cut lies
  before the earlier summary keeps that summary as an ordinary message (`project.rs:212`).

## 6. What a property does not say

* `AnsweredOnce` counts answers of messages. The turn limit may report the same request
  twice, when it was still in the inbox the first time.
* `EveryDebtReminded` leaves out turns that a restart cut off between their end and
  `end_replies`; recovery sends no reminder, the debt stays held.
* `LiveIsComplete` leaves out rows whose commit could not be acknowledged.
* `IdleWhileMoving`, `RegistryAgrees`, `TurnCancellable` speak of a channel that is not
  stopped: after `stop` the fold is frozen.
* `BudgetKept` bounds tokens by calls, not by their true size: the code learns it when the
  call returns.
* `RunsAreWarranted` judges a call by the snapshot its turn decided from, as the code does;
  a permit or mode that is taken back afterwards does not stop a call that was let through.
* `AllowActs` lets a later change of the content, a replaced or a withdrawn prompt overtake an
  answer.
* `PostedOnce` says nothing of messages that were dropped; `CardsSettle` of `DiscordBridge` leaves
  out prompts whose request was lost with the daemon.
* `DiscordSettles` promises nothing of a bridge whose links are overloaded for ever, but says
  when that may be. A chat may be anywhere in the log: after a request, a result or the bridge's
  own post.
* `ViewSettles` is checked with one event or step at a time and without returns.
* `NothingSkipped` speaks of what is in view, in one stay in a channel; coming back may leave a
  gap (TLC shows it with `MaxWork = 4`, `MaxReturns = 1`), so it requires `returns = 0`.

Smaller simplifications, which no property depends on: in `DiscordBridge` whether a directory is
allowed, or a prompt escalated, does not change (`worker.rs:468`), a click is routed, acknowledged and
queued in one step, and a message in several parts is one; `Terminal` keeps every visited channel (the
code 32); `ProjectTrust` refuses an edit when any file changed (the code compares
`.stavlos`) and reads configuration and prompts in one step; the timer of `Admission` takes the
project's default when it fires, the code the one of the prompt's begin.

## 7. Plan

Done: the core (journal, subscriptions, prompts, actors, requests), limits, admission, project
trust, Discord, the terminal, and the safety theorems of all of them. Next:

1. Several returns to a channel in `Terminal`; several channels in `DiscordBridge`.
2. Conversation and compaction (`agent/context.rs`, `project.rs`), with the overlap of an
   owner's compaction and a turn.
3. Shared boards (`daemon/boards.rs`): pairs committed under two locks, the order of locks.
4. MCP manager (`agent/mcp.rs`): sharing and idle stop of a server in use.
5. Stream coalescing, login flows and token refresh, process supervision, shutdown order.

## 8. Not modelled

Conversation and compaction of history (planned), shared boards and MCP servers (planned), live
stream coalescing, login flows and the single-daemon lock. Rendering and keys of the TUI, parsing
and merging of configuration, prompt assembly, file, web and patch tools, provider wire formats,
the sandbox's kernel interfaces and the stateless HTTP of the browser API: their difficulty is in
data or I/O, which tests reach better than a model. `components` in `PROJECT.json` lists each part,
what of it is modelled, and why the rest is not.

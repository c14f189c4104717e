---------------------------- MODULE DiscordBridge ----------------------------
(***************************************************************************)
(* The Discord bridge of one channel: src/discord.  A link to the daemon   *)
(* is attached, the channel is reconciled and subscribed; a serial worker  *)
(* mirrors its events as chat, keeps one card per prompt and carries the   *)
(* approver's messages and clicks back.  The prompt store and the board    *)
(* cursor are files; everything else dies with the process.                *)
(*                                                                         *)
(* One step is one remote call with the code up to the next await.  A call *)
(* that is cut off may or may not have reached Discord (InFlight).         *)
(***************************************************************************)
EXTENDS Naturals, Sequences, FiniteSets

CONSTANTS Prompts,     \* prompts of the channel
          Messages,    \* messages of an approver
          Nobody,      \* no prompt, no message
          MaxChats,    \* bounds of the model: chat events of the channel,
          MaxInputs,   \* messages and clicks,
          MaxFaults,   \* lost links, restarts, deletions, repeated messages,
          Busy,        \* and all of these together
          QueueSize    \* the worker's queue, 256 in the code

Subjects == Prompts \cup Messages \cup {Nobody}

ASSUME BridgeAssumption ==
  /\ Prompts \cap Messages = {} /\ Nobody \notin Prompts \cup Messages
  /\ {MaxChats, MaxInputs, MaxFaults, Busy} \subseteq Nat /\ QueueSize \in Nat \ {0}

VARIABLES
  board,    \* the channel is a shared board
  recorded, \* the questions and permission prompts; trust prompts are not logged
  log,      \* the channel's events, [kind, of]
  prompt,   \* the daemon's prompts: "unasked", "pending", "answered", "withdrawn",
            \* or "lost" in a restart before its request was recorded
  notices,  \* withdrawn prompts whose notification is on its way
  link,     \* [phase, next]: the connection, and the next event it delivers
  queue,    \* works for the worker; a work is live while its link is
  worker,   \* [live, seq, shown, seen]
  job,      \* what the worker executes
  store,    \* PromptStore: prompt -> [card, seq], or NoCard
  cursor,   \* BoardCursors
  cards,    \* the prompt cards on Discord, [of, text]
  said,     \* the events posted as chat, by sequence number
  message,  \* where each message of the approver is
  posted,   \* how often channel.post accepted it
  inputs, faults

daemon == <<log, prompt, notices>>
durable == <<store, cursor>>
discord == <<cards, said>>
human == <<message, posted, inputs>>
given == <<board, recorded>>
bridgeVars == <<given, daemon, link, queue, worker, job, durable, discord, human, faults>>

NoCard == [card |-> 0, seq |-> 0]
NoJob == [kind |-> "none", of |-> Nobody, seq |-> 0, stage |-> "none",
          listed |-> {}, todo |-> {}]
Phases == {"down", "attached", "binding", "bound", "ready", "lost"}
Texts == {"live", "updating", "final", "offline", "deleted"}
Shown == {"nothing", "live", "updating"}
EventKinds == {"chat", "own", "requested", "resolved"}
Work == [kind : {"snapshot", "event", "notice", "message", "click"},
         of : Subjects, seq : Nat, live : BOOLEAN]

Fresh == [live |-> FALSE, seq |-> 0, shown |-> [p \in Prompts |-> "nothing"], seen |-> {}]

BridgeInit ==
  /\ board \in BOOLEAN /\ recorded \in SUBSET Prompts
  /\ log = <<>> /\ prompt = [p \in Prompts |-> "unasked"] /\ notices = {}
  /\ link = [phase |-> "down", next |-> 0]
  /\ queue = <<>> /\ worker = Fresh /\ job = NoJob
  /\ store = [p \in Prompts |-> NoCard] /\ cursor = 0
  /\ cards = <<>> /\ said = <<>>
  /\ message = [m \in Messages |-> "unsent"] /\ posted = [m \in Messages |-> 0]
  /\ inputs = 0 /\ faults = 0

Attached == link.phase \in {"attached", "binding", "bound", "ready"}
Stored == {p \in Prompts : store[p] # NoCard}
Logged(kind, p) == \E n \in DOMAIN log : log[n] = [kind |-> kind, of |-> p]
IsSaid(n) == \E i \in DOMAIN said : said[i] = n
Chats == Len(SelectSeq(log, LAMBDA e : e.kind = "chat"))
Spare == Chats + inputs + faults < Busy
Fault == Spare /\ faults < MaxFaults /\ faults' = faults + 1
Input == Spare /\ inputs < MaxInputs /\ inputs' = inputs + 1

-----------------------------------------------------------------------------
(* The link                                                                *)

\* A cancelled link stops the execution under way and every later work of it.
\* A message whose post was under way is gone, and nobody is told.
Unheard == IF job.kind = "message" THEN [message EXCEPT ![job.of] = "dropped"] ELSE message
Dead(work) == [kind |-> IF work.kind = "message" THEN "message" ELSE "event", seq |-> 0, live |-> FALSE,
               of |-> IF work.kind = "message" THEN work.of ELSE Nobody]
Cancelled == [i \in DOMAIN queue |-> Dead(queue[i])]
CancelLink ==
  /\ link' = [phase |-> "lost", next |-> 0]
  /\ queue' = Cancelled
  /\ worker' = [worker EXCEPT !.live = FALSE, !.seq = 0]
  /\ job' = NoJob

\* settle_missing: a prompt that the notification says is withdrawn, and any
\* trust prompt, is finished; another one waits for its recorded result.
FinishesNow(p) == p \notin recorded \/ (job.kind = "notice" /\ p = job.of)
Settling(p) == IF FinishesNow(p) THEN "final" ELSE "updating"

\* A message repeated on a board is not counted again.
Saying(seq) == IF board /\ IsSaid(seq) THEN said ELSE Append(said, seq)

\* What the call under way does on Discord.
Card(c, text) == [cards EXCEPT ![c].text = IF @ = "deleted" THEN @ ELSE text]
Applied ==
  CASE job.stage = "say" -> cards' = cards /\ said' = Saying(job.seq)
    [] job.stage = "finish" -> cards' = Card(store[job.of].card, "final") /\ said' = said
    [] job.stage = "settle" /\ job.todo # {} ->
         /\ \E p \in job.todo : cards' = Card(store[p].card, Settling(p))
         /\ said' = said
    [] job.stage = "show" /\ job.todo # {} ->
         /\ \E p \in job.todo :
              \/ store[p] = NoCard
                 /\ cards' = Append(cards, [of |-> p, text |-> "live"])
              \/ store[p] # NoCard /\ cards' = Card(store[p].card, "live")
         /\ said' = said
    [] OTHER -> UNCHANGED discord
InFlight == UNCHANGED discord \/ Applied

\* The connection fails, a call fails or times out: the worker's error
\* cancels the link as well.
LinkLost ==
  /\ Attached /\ Fault /\ InFlight /\ CancelLink
  /\ message' = Unheard
  /\ UNCHANGED <<given, daemon, durable, posted, inputs>>

\* enqueue: try_send never waits; a full queue cancels the link of the work,
\* as often as the worker falls that far behind.
RoomForOneMore == Len(queue) <= QueueSize
Room == Len(queue) < QueueSize
Overload == ~Room /\ CancelLink /\ InFlight
Enqueue(kind, of, seq) ==
  queue' = Append(queue, [kind |-> kind, of |-> of, seq |-> seq, live |-> TRUE])

Attach ==
  /\ link.phase = "down"
  /\ link' = [phase |-> "attached", next |-> 0]
  /\ UNCHANGED <<given, daemon, queue, worker, job, durable, discord, human, faults>>

\* replay_from: no later than the event after any stored card's.
ReplayFrom(seq) ==
  LET from == {seq + 1} \cup {store[p].seq + 1 : p \in Stored \cap recorded}
  IN CHOOSE n \in from : \A o \in from : n <= o

\* bind: the snapshot's sequence, a board's cursor instead, and where the
\* subscription will start, fixed before the worker has seen the snapshot.
SnapshotOfLog == Len(log)
SnapshotSeq == IF board THEN cursor ELSE Len(log)

Reconcile ==
  /\ link.phase = "attached" /\ Room
  /\ Enqueue("snapshot", Nobody, SnapshotSeq)
  /\ link' = [phase |-> "binding", next |-> ReplayFrom(SnapshotSeq)]
  /\ UNCHANGED <<given, daemon, worker, job, durable, discord, human, faults>>

\* A queue still full of abandoned works.
ReconcileOverloaded ==
  /\ link.phase = "attached" /\ ~Room
  /\ CancelLink
  /\ UNCHANGED <<given, daemon, durable, discord, human, faults>>

Subscribe ==
  /\ link.phase = "bound"
  /\ link' = [link EXCEPT !.phase = "ready"]
  /\ UNCHANGED <<given, daemon, queue, worker, job, durable, discord, human, faults>>

\* notification: the subscription delivers the log in order.
Deliver ==
  /\ link.phase = "ready" /\ link.next \in DOMAIN log
  /\ IF Room
     THEN /\ Enqueue("event", log[link.next].of, link.next)
          /\ link' = [link EXCEPT !.next = @ + 1]
          /\ UNCHANGED <<worker, job, message, discord>>
     ELSE Overload /\ message' = Unheard
  /\ UNCHANGED <<given, daemon, durable, posted, inputs, faults>>

\* detach and disable_prompts, which gives up at the first failed edit.
Disable(p) ==
  /\ link.phase = "lost" /\ store[p] # NoCard
  /\ cards[store[p].card].text \notin {"offline", "deleted"}
  /\ cards' = Card(store[p].card, "offline")
  /\ UNCHANGED <<given, daemon, link, queue, worker, job, durable, said, human, faults>>

Detached ==
  /\ link.phase = "lost"
  /\ link' = [phase |-> "down", next |-> 0]
  /\ UNCHANGED <<given, daemon, queue, worker, job, durable, discord, human, faults>>

-----------------------------------------------------------------------------
(* The worker: taking a work                                               *)

Unoccupied == job = NoJob
Drop == queue' = Tail(queue)
Begin(kind, of, seq, stage) ==
  job' = [NoJob EXCEPT !.kind = kind, !.of = of, !.seq = seq, !.stage = stage]
IsNext(kind) == Unoccupied /\ queue # <<>> /\ Head(queue).kind = kind
Serves(kind) == IsNext(kind) /\ Head(queue).live /\ worker.live

\* abandoned: the sender of a message or a click is told.
TakeAbandoned ==
  /\ Unoccupied /\ queue # <<>> /\ ~Head(queue).live
  /\ Drop
  /\ message' = IF Head(queue).kind = "message"
                THEN [message EXCEPT ![Head(queue).of] = "told"] ELSE message
  /\ UNCHANGED <<given, daemon, link, worker, job, durable, discord, posted, inputs, faults>>

\* A work of the new link before its snapshot is ignored.
TakeEarly ==
  /\ Unoccupied /\ queue # <<>> /\ Head(queue).live /\ ~worker.live /\ Head(queue).kind # "snapshot"
  /\ Drop
  /\ UNCHANGED <<given, daemon, link, worker, job, durable, discord, human, faults>>

TakeSnapshotKeeping ==
  /\ IsNext("snapshot") /\ Head(queue).live
  /\ Drop
  /\ worker' = [worker EXCEPT !.live = TRUE, !.seq = Head(queue).seq]
  /\ Begin("snapshot", Nobody, 0, "list")
  /\ UNCHANGED <<given, daemon, link, durable, discord, human, faults>>

TakeSnapshot ==
  /\ IsNext("snapshot") /\ Head(queue).live
  /\ Drop
  /\ worker' = [worker EXCEPT !.live = TRUE, !.seq = Head(queue).seq,
                              !.shown = [p \in Prompts |-> "nothing"]]
  /\ Begin("snapshot", Nobody, 0, "list")
  /\ UNCHANGED <<given, daemon, link, durable, discord, human, faults>>

\* mirror_event: an event at or before the worker's sequence is skipped.
TakeSkipped ==
  /\ Serves("event") /\ log[Head(queue).seq].kind \in {"chat", "own"} /\ Head(queue).seq <= worker.seq
  /\ Drop
  /\ UNCHANGED <<given, daemon, link, worker, job, durable, discord, human, faults>>

TakeChatRepeated ==
  /\ Serves("event") /\ log[Head(queue).seq].kind = "chat"
  /\ Drop
  /\ worker' = [worker EXCEPT !.seq = Head(queue).seq]
  /\ Begin("event", Nobody, Head(queue).seq, "say")
  /\ UNCHANGED <<given, daemon, link, durable, discord, human, faults>>

TakeChatSaving ==
  /\ Serves("event") /\ log[Head(queue).seq].kind = "chat" /\ Head(queue).seq > worker.seq
  /\ Drop
  /\ worker' = [worker EXCEPT !.seq = Head(queue).seq]
  /\ Begin("event", Nobody, Head(queue).seq, "say")
  /\ cursor' = IF board THEN Head(queue).seq ELSE cursor
  /\ UNCHANGED <<given, daemon, link, store, discord, human, faults>>

TakeChat ==
  /\ Serves("event") /\ log[Head(queue).seq].kind = "chat" /\ Head(queue).seq > worker.seq
  /\ Drop
  /\ worker' = [worker EXCEPT !.seq = Head(queue).seq]
  /\ Begin("event", Nobody, Head(queue).seq, "say")
  /\ UNCHANGED <<given, daemon, link, durable, discord, human, faults>>

Advance(seq) == cursor' = IF board /\ seq > cursor THEN seq ELSE cursor
AheadOneMore(seq) == IF seq > worker.seq THEN seq + 1 ELSE worker.seq
Ahead(seq) == IF seq > worker.seq THEN seq ELSE worker.seq

\* The bridge's own posts are not echoed.
TakeOwn ==
  /\ Serves("event") /\ log[Head(queue).seq].kind = "own" /\ Head(queue).seq > worker.seq
  /\ Drop
  /\ worker' = [worker EXCEPT !.seq = Head(queue).seq]
  /\ Advance(Head(queue).seq)
  /\ UNCHANGED <<given, daemon, link, job, store, discord, human, faults>>

\* question_event: the stored card learns the request's sequence.
Raised(p, seq) == [store EXCEPT ![p] = IF @ = NoCard \/ @.seq >= seq THEN @ ELSE [@ EXCEPT !.seq = seq]]
TakeRequested ==
  /\ Serves("event") /\ log[Head(queue).seq].kind = "requested"
  /\ Drop
  /\ worker' = [worker EXCEPT !.seq = Ahead(Head(queue).seq)]
  /\ store' = Raised(Head(queue).of, Head(queue).seq)
  /\ IF Head(queue).seq > worker.seq THEN Advance(Head(queue).seq) ELSE UNCHANGED cursor
  /\ UNCHANGED <<given, daemon, link, job, discord, human, faults>>

\* A resolution without a stored card is skipped; with one the card is
\* finished first.
TakeResolved ==
  /\ Serves("event") /\ log[Head(queue).seq].kind = "resolved"
  /\ Drop
  /\ worker' = [worker EXCEPT !.seq = Ahead(Head(queue).seq)]
  /\ IF store[Head(queue).of] = NoCard
     THEN /\ IF Head(queue).seq > worker.seq THEN Advance(Head(queue).seq) ELSE UNCHANGED cursor
          /\ UNCHANGED job
     ELSE /\ Begin("event", Head(queue).of, Head(queue).seq, "finish")
          /\ UNCHANGED cursor
  /\ UNCHANGED <<given, daemon, link, store, discord, human, faults>>

TakeNotice ==
  /\ Serves("notice")
  /\ Drop /\ Begin("notice", Head(queue).of, 0, "list")
  /\ UNCHANGED <<given, daemon, link, worker, durable, discord, human, faults>>

\* post: a message id seen before is skipped.
TakeMessageAgain ==
  /\ Serves("message")
  /\ Drop /\ Begin("message", Head(queue).of, 0, "post")
  /\ UNCHANGED <<given, daemon, link, worker, durable, discord, human, faults>>

TakeMessage ==
  /\ Serves("message")
  /\ Drop
  /\ IF Head(queue).of \in worker.seen
     THEN UNCHANGED <<worker, job>>
     ELSE /\ worker' = [worker EXCEPT !.seen = @ \cup {Head(queue).of}]
          /\ Begin("message", Head(queue).of, 0, "post")
  /\ UNCHANGED <<given, daemon, link, durable, discord, human, faults>>

TakeClick ==
  /\ Serves("click")
  /\ Drop /\ Begin("click", Head(queue).of, 0, "list")
  /\ UNCHANGED <<given, daemon, link, worker, durable, discord, human, faults>>

\* Every five seconds, when nothing is queued.
Tick ==
  /\ Unoccupied /\ queue = <<>> /\ worker.live
  /\ Begin("tick", Nobody, 0, "list")
  /\ UNCHANGED <<given, daemon, link, queue, worker, durable, discord, human, faults>>

-----------------------------------------------------------------------------
(* The worker: sync_prompts, one remote call at a time                     *)

Quiet == UNCHANGED <<given, daemon, link, queue, faults>>

\* After the stored cards that are not listed come those that are listed and
\* not shown as they should be; then a click goes on to its prompt.
Proceed(j, shown) ==
  LET unshown == {p \in j.listed : shown[p] # "live"}
  IN CASE j.todo # {} -> j
       [] j.todo = {} /\ j.stage = "settle" /\ unshown # {} ->
            [j EXCEPT !.stage = "show", !.todo = unshown]
       [] OTHER -> IF j.kind = "click" /\ j.of \in j.listed
                   THEN [j EXCEPT !.stage = "reply"] ELSE NoJob

\* The worker goes on; the end of the snapshot lets the link subscribe.
Continue(j, shown) ==
  /\ job' = Proceed(j, shown)
  /\ worker' = [worker EXCEPT !.shown = shown]
  /\ link' = IF job.kind = "snapshot" /\ Proceed(j, shown) = NoJob
             THEN [link EXCEPT !.phase = "bound"] ELSE link
  /\ UNCHANGED <<given, daemon, queue, faults, cursor, said, human>>

\* prompt.list
Listed == {p \in Prompts : prompt[p] = "pending"}
List ==
  /\ job.stage = "list"
  /\ LET missing == {p \in Stored \ Listed : worker.shown[p] # "updating" \/ FinishesNow(p)}
     IN Continue([job EXCEPT !.listed = Listed, !.stage = "settle", !.todo = missing], worker.shown)
  /\ UNCHANGED <<store, cards>>

Gone(p) == cards[store[p].card].text = "deleted"
Forget(p) == store' = [store EXCEPT ![p] = NoCard]
Did(p) == [job EXCEPT !.todo = @ \ {p}]

SettleOne(p) ==
  /\ job.stage = "settle" /\ p \in job.todo
  /\ cards' = Card(store[p].card, Settling(p))
  /\ IF FinishesNow(p) \/ Gone(p) THEN Forget(p) ELSE UNCHANGED store
  /\ Continue(Did(p), [worker.shown EXCEPT ![p] =
                         IF FinishesNow(p) \/ Gone(p) THEN "nothing" ELSE "updating"])

\* A card that is not stored is sent, then stored with the worker's sequence.
ShowNew(p) ==
  /\ job.stage = "show" /\ p \in job.todo /\ store[p] = NoCard
  /\ cards' = Append(cards, [of |-> p, text |-> "live"])
  /\ store' = [store EXCEPT ![p] = [card |-> Len(cards) + 1, seq |-> worker.seq]]
  /\ Continue(Did(p), [worker.shown EXCEPT ![p] = "live"])

\* A stored card is edited; a deleted one is forgotten until the next sync.
ShowStored(p) ==
  /\ job.stage = "show" /\ p \in job.todo /\ store[p] # NoCard
  /\ cards' = Card(store[p].card, "live")
  /\ IF Gone(p) THEN Forget(p) ELSE UNCHANGED store
  /\ Continue(Did(p), [worker.shown EXCEPT ![p] = IF Gone(p) THEN "nothing" ELSE "live"])

-----------------------------------------------------------------------------
(* The worker: chat, results, messages and clicks                          *)

Say ==
  /\ job.stage = "say"
  /\ said' = Saying(job.seq)
  /\ Advance(job.seq)
  /\ job' = NoJob
  /\ UNCHANGED <<worker, store, cards, human>> /\ Quiet

\* finish_prompt: the card's last edit, then its entry goes.
Finish ==
  /\ job.stage = "finish"
  /\ cards' = Card(store[job.of].card, "final")
  /\ Forget(job.of)
  /\ worker' = [worker EXCEPT !.shown[job.of] = "nothing"]
  /\ IF job.kind = "event" /\ job.seq >= worker.seq THEN Advance(job.seq) ELSE UNCHANGED cursor
  /\ job' = NoJob
  /\ UNCHANGED <<said, human>> /\ Quiet

\* channel.post reaches the daemon, and its answer the worker.
Post ==
  /\ job.stage = "post"
  /\ posted' = [posted EXCEPT ![job.of] = @ + 1]
  /\ log' = Append(log, [kind |-> "own", of |-> job.of])
  /\ job' = [job EXCEPT !.stage = "accepted"]
  /\ UNCHANGED <<given, prompt, notices, link, queue, worker, durable, discord,
                 message, inputs, faults>>

Accepted ==
  /\ job.stage = "accepted"
  /\ message' = [message EXCEPT ![job.of] = "delivered"]
  /\ job' = NoJob
  /\ UNCHANGED <<worker, durable, discord, posted, inputs>> /\ Quiet

\* The daemon rejects the post, or the call fails on a link that is still
\* good: the channel is told.
Rejected ==
  /\ job.stage \in {"post", "accepted"}
  /\ message' = [message EXCEPT ![job.of] = "told"]
  /\ job' = NoJob
  /\ UNCHANGED <<worker, durable, discord, posted, inputs>> /\ Quiet

\* prompt.claim and prompt.reply; the daemon takes the first answer only.
Reply ==
  /\ job.stage = "reply" /\ prompt[job.of] = "pending"
  /\ prompt' = [prompt EXCEPT ![job.of] = "answered"]
  /\ job' = [job EXCEPT !.stage = "finish"]
  /\ UNCHANGED <<given, log, notices, link, queue, worker, durable, discord, human, faults>>

RefusedFinishing ==
  /\ job.stage = "reply"
  /\ store[job.of] # NoCard /\ cards' = Card(store[job.of].card, "live")
  /\ LET gone == store[job.of] # NoCard /\ cards[store[job.of].card].text = "deleted"
     IN /\ IF gone THEN Forget(job.of) ELSE UNCHANGED store
        /\ worker' = IF gone THEN [worker EXCEPT !.shown[job.of] = "nothing"] ELSE worker
  /\ job' = [job EXCEPT !.stage = "finish"]
  /\ UNCHANGED <<cursor, said, human>> /\ Quiet

\* A late click, an incomplete draft or another client's claim: update_card
\* shows the prompt as the worker last listed it.
ReplyRefused ==
  /\ job.stage = "reply"
  /\ cards' = IF store[job.of] = NoCard THEN cards ELSE Card(store[job.of].card, "live")
  /\ LET gone == store[job.of] # NoCard /\ cards[store[job.of].card].text = "deleted"
     IN /\ IF gone THEN Forget(job.of) ELSE UNCHANGED store
        /\ worker' = IF gone THEN [worker EXCEPT !.shown[job.of] = "nothing"] ELSE worker
  /\ job' = NoJob
  /\ UNCHANGED <<cursor, said, human>> /\ Quiet

-----------------------------------------------------------------------------
(* The daemon, seen from the bridge                                        *)

Elsewhere == UNCHANGED <<given, link, queue, worker, job, durable, discord, human, faults>>

Chat ==
  /\ Spare /\ Chats < MaxChats
  /\ log' = Append(log, [kind |-> "chat", of |-> Nobody])
  /\ UNCHANGED <<prompt, notices>> /\ Elsewhere

\* A prompt is listed before its request is recorded.
Ask(p) ==
  /\ prompt[p] = "unasked"
  /\ prompt' = [prompt EXCEPT ![p] = "pending"]
  /\ UNCHANGED <<log, notices>> /\ Elsewhere

RecordRequest(p) ==
  /\ p \in recorded /\ prompt[p] \notin {"unasked", "lost"} /\ ~Logged("requested", p)
  /\ log' = Append(log, [kind |-> "requested", of |-> p])
  /\ UNCHANGED <<prompt, notices>> /\ Elsewhere

AnswerElsewhere(p) ==
  /\ prompt[p] = "pending"
  /\ prompt' = [prompt EXCEPT ![p] = "answered"]
  /\ UNCHANGED <<log, notices>> /\ Elsewhere

Withdraw(p) ==
  /\ prompt[p] = "pending"
  /\ prompt' = [prompt EXCEPT ![p] = "withdrawn"]
  /\ notices' = notices \cup {p}
  /\ UNCHANGED log /\ Elsewhere

\* The result is recorded after the prompt has left the list.
OverOrAsked(p) == prompt[p] \in {"pending", "answered", "withdrawn"}
Over(p) == prompt[p] \in {"answered", "withdrawn"}
RecordResult(p) ==
  /\ Over(p) /\ Logged("requested", p) /\ ~Logged("resolved", p)
  /\ log' = Append(log, [kind |-> "resolved", of |-> p])
  /\ UNCHANGED <<prompt, notices>> /\ Elsewhere

Notify(p) ==
  /\ p \in notices
  /\ notices' = notices \ {p}
  /\ IF Attached /\ ~Room
     THEN Overload /\ message' = Unheard
     ELSE /\ IF Attached THEN Enqueue("notice", p, 0) ELSE UNCHANGED queue
          /\ UNCHANGED <<link, worker, job, message, discord>>
  /\ UNCHANGED <<given, log, prompt, durable, posted, inputs, faults>>

-----------------------------------------------------------------------------
(* The approver, and restarts                                              *)

\* message: routed only on a link that is ready, otherwise answered at once.
Routed == link.phase = "ready"

Arrive(m) ==
  /\ message[m] = "unsent" /\ Input
  /\ CASE Routed /\ Room ->
            /\ Enqueue("message", m, 0)
            /\ message' = [message EXCEPT ![m] = "queued"]
            /\ UNCHANGED <<link, worker, job, discord>>
       [] Routed /\ ~Room ->
            Overload /\ message' = [Unheard EXCEPT ![m] = "told"]
       [] OTHER ->
            /\ message' = [message EXCEPT ![m] = "told"]
            /\ UNCHANGED <<link, queue, worker, job, discord>>
  /\ UNCHANGED <<given, daemon, durable, posted, faults>>

\* The gateway sends a message of its session again.
ArriveAgain(m) ==
  /\ message[m] \notin {"unsent", "past"} /\ Fault
  /\ Routed
  /\ IF Room
     THEN Enqueue("message", m, 0) /\ UNCHANGED <<link, worker, job, message, discord>>
     ELSE Overload /\ message' = Unheard
  /\ UNCHANGED <<given, daemon, durable, posted, inputs>>

Click(c) ==
  /\ cards[c].text = "live" /\ Routed /\ Input
  /\ IF Room
     THEN Enqueue("click", cards[c].of, 0) /\ UNCHANGED <<link, worker, job, message, discord>>
     ELSE Overload /\ message' = Unheard
  /\ UNCHANGED <<given, daemon, durable, posted, faults>>

\* Somebody deletes a card on Discord.
Delete(c) ==
  /\ Fault /\ cards[c].text # "deleted"
  /\ cards' = [cards EXCEPT ![c].text = "deleted"]
  /\ UNCHANGED <<given, daemon, link, queue, worker, job, durable, said, human>>

\* Discord does not send again what an earlier gateway session sent.
Silenced == [m \in Messages |-> IF message[m] = "unsent" THEN "unsent" ELSE "past"]
StartOver ==
  /\ link' = [phase |-> "down", next |-> 0] /\ queue' = <<>> /\ worker' = Fresh /\ job' = NoJob
  /\ message' = Silenced /\ InFlight

\* The gateway session ends: the bridge stops and a new one opens the files.
BridgeRestart ==
  /\ Fault /\ StartOver
  /\ UNCHANGED <<given, daemon, durable, posted, inputs>>

\* The daemon dies with the bridge in it.  Recovery withdraws the recorded
\* requests that have no result.
Interrupted == {p \in recorded : Logged("requested", p) /\ ~Logged("resolved", p)}
DaemonRestart ==
  /\ Fault /\ StartOver
  /\ prompt' = [p \in Prompts |->
       CASE p \in recorded /\ prompt[p] # "unasked" /\ ~Logged("requested", p) -> "lost"
         [] prompt[p] = "pending" /\ (p \notin recorded \/ Logged("requested", p)) -> "withdrawn"
         [] OTHER -> prompt[p]]
  /\ notices' = {}
  /\ \E order \in [1 .. Cardinality(Interrupted) -> Interrupted] :
       /\ Interrupted = {order[i] : i \in DOMAIN order}
       /\ log' = log \o [i \in DOMAIN order |-> [kind |-> "resolved", of |-> order[i]]]
  /\ UNCHANGED <<given, durable, posted, inputs>>

-----------------------------------------------------------------------------
Connection == Attach \/ Reconcile \/ ReconcileOverloaded \/ Subscribe \/ Deliver \/ Detached
Taking == \/ TakeAbandoned \/ TakeEarly \/ TakeSnapshot \/ TakeSkipped \/ TakeChat \/ TakeOwn
          \/ TakeRequested \/ TakeResolved \/ TakeNotice \/ TakeMessage \/ TakeClick
Syncing == List \/ \E p \in Prompts : SettleOne(p) \/ ShowNew(p) \/ ShowStored(p)
Carrying == Post \/ Accepted \/ Rejected \/ Reply \/ ReplyRefused
Recording == \E p \in Prompts : RecordRequest(p) \/ RecordResult(p)

BridgeNext ==
  \/ Connection \/ Taking \/ Tick \/ Syncing \/ Say \/ Finish \/ Carrying \/ LinkLost
  \/ \E p \in Prompts : Disable(p) \/ Ask(p) \/ AnswerElsewhere(p) \/ Withdraw(p) \/ Notify(p)
  \/ Recording \/ Chat
  \/ \E m \in Messages : Arrive(m) \/ ArriveAgain(m)
  \/ \E c \in DOMAIN cards : Click(c) \/ Delete(c)
  \/ BridgeRestart \/ DaemonRestart

\* The tasks run, and a tick comes every five seconds.
Working == Taking \/ Tick \/ Syncing \/ Say \/ Finish \/ Carrying
Fairness == WF_bridgeVars(Connection) /\ WF_bridgeVars(Working) /\ WF_bridgeVars(Recording)

BridgeSpec == BridgeInit /\ [][BridgeNext]_bridgeVars
FairBridge == BridgeSpec /\ Fairness

-----------------------------------------------------------------------------
(* Properties                                                              *)

BridgeTypeOK ==
  /\ board \in BOOLEAN /\ recorded \subseteq Prompts /\ cursor \in Nat /\ inputs \in 0 .. MaxInputs /\ faults \in 0 .. MaxFaults
  /\ \A n \in DOMAIN log : log[n] \in [kind : EventKinds, of : Subjects]
  /\ prompt \in [Prompts -> {"unasked", "pending", "answered", "withdrawn", "lost"}]
  /\ notices \subseteq Prompts
  /\ link \in [phase : Phases, next : Nat]
  /\ Len(queue) <= QueueSize /\ \A i \in DOMAIN queue : queue[i] \in Work
  /\ worker \in [live : BOOLEAN, seq : Nat, shown : [Prompts -> Shown], seen : SUBSET Messages]
  /\ store \in [Prompts -> [card : Nat, seq : Nat]]
  /\ \A c \in DOMAIN cards : cards[c] \in [of : Prompts, text : Texts]
  /\ message \in [Messages -> {"unsent", "queued", "delivered", "told", "dropped", "past"}]

IsChat(n) == n \in DOMAIN log /\ log[n].kind = "chat"

\* A board's saved cursor never passes a message that Discord has not got:
\* boards.set follows the post, across failures and restarts.
CursorIsBehind ==
  board => \A n \in 1 .. cursor : IsChat(n) => IsSaid(n)

\* Chat is mirrored in the log's order: at most once in a channel of its own;
\* on a board a message may be repeated, but none overtakes an earlier one.
ChatInOrder ==
  \A i \in DOMAIN said :
    IF board
    THEN \A n \in 1 .. said[i] : IsChat(n) => \E j \in 1 .. i : said[j] = n
    ELSE \A j \in 1 .. i - 1 : said[j] < said[i]

\* What a channel shows is the log in order: Worker::mirror posts an event
\* before it saves the cursor, and skips what it has shown.
BoardInOrder == ChatInOrder /\ CursorIsBehind

\* The recorded result of a prompt that has a card is always still to come:
\* behind the card's sequence, so a later subscription replays it, and on this
\* one not delivered yet, queued, or being shown.
ResultWillCome ==
  \A p \in recorded, n \in DOMAIN log :
    store[p] # NoCard /\ log[n] = [kind |-> "resolved", of |-> p] =>
      /\ store[p].seq < n
      /\ link.phase \in {"binding", "bound", "ready"} =>
           \/ link.next <= n
           \/ \E i \in DOMAIN queue : queue[i].live /\ queue[i].kind = "event" /\ queue[i].seq = n
           \/ job.stage = "finish" /\ job.of = p

\* No card says that a prompt is over while the daemon still waits for its
\* answer.
FinalIsTrue ==
  \A c \in DOMAIN cards : cards[c].text = "final" => prompt[cards[c].of] # "pending"

\* A card tells the truth about its prompt: the end is announced when it has
\* come, and the event that announces it cannot be missed.
CardsAreTrue == ResultWillCome /\ FinalIsTrue

\* A message reaches the channel at most once, however often the gateway
\* sends it and wherever the link breaks.
PostedOnce == \A m \in Messages : posted[m] <= 1

\* What goes from one side to the other gets there once and in order.
MirrorIsTrue == BoardInOrder /\ PostedOnce

\* The card of a prompt that is over is finished and forgotten, whatever was
\* lost in between; a request that was never recorded is the exception.
CardsSettle ==
  \A p \in Prompts :
    (prompt[p] \in {"answered", "withdrawn"}) ~> (store[p] = NoCard \/ prompt[p] = "lost")

\* A prompt that stays open gets a card with buttons.  A card that somebody
\* deletes is missed only when its prompt changes or the link does.
OpenIsShown ==
  \A p \in Prompts :
    (prompt[p] = "pending") ~>
      (prompt[p] # "pending" \/ (store[p] # NoCard /\ cards[store[p].card].text \in {"live", "deleted"}))

\* Every message of a board gets to Discord, whatever the log has before it:
\* again and again nothing is missing.
BoardCatchesUp ==
  []<>(board => \A n \in DOMAIN log : IsChat(n) => IsSaid(n))

\* How many events a link that is bound now has to deliver.
Gap == Len(log) + 1 - ReplayFrom(SnapshotSeq)

\* In the end no link is lost any more.
LinksHold == <>[](link.phase # "lost")

\* Faults end, but enqueue cuts the link whenever the queue is full: that goes
\* on for ever only while what each connection replays is more than the queue
\* holds.
OnlyGapsOverload == LinksHold \/ []<>(Gap > QueueSize)

\* Discord comes to agree with the daemon once the links hold: open prompts
\* have a card, those that are over have none, boards are complete.  And they
\* hold, unless the gap is longer than the queue.
DiscordSettles ==
  /\ OnlyGapsOverload
  /\ LinksHold => CardsSettle /\ OpenIsShown /\ BoardCatchesUp
=============================================================================

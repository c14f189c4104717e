------------------------------- MODULE Terminal -------------------------------
(***************************************************************************)
(* The terminal of one person: src/tui/controller and the connection       *)
(* between it and the daemon, src/client.rs.  One task owns the view; what *)
(* it wants from the daemon are requests tagged with the scope they were   *)
(* made in, answered in any order.  Events and prompt notifications come   *)
(* in a queue of their own, so a reply may be applied before or after a    *)
(* notification that was sent with it.                                     *)
(*                                                                         *)
(* The daemon's side is what Subscriptions and Escalation promise: a       *)
(* subscription stops, replays and goes live; a prompt is listed, then     *)
(* announced, then recorded.                                               *)
(***************************************************************************)
EXTENDS Naturals, Sequences

CONSTANTS Channels, Home,  \* the channels, and the one the terminal starts in
          Prompts,         \* prompts of Home
          FirstLook,       \* events of a first look, 3000 in the code
          MaxWork,         \* bounds of the model: events and steps of the
          MaxDirs,         \* person, directory changes and returns to a
          MaxReturns       \* channel among them

ASSUME TerminalAssumption ==
  /\ Home \in Channels /\ FirstLook \in Nat \ {0}
  /\ {MaxWork, MaxDirs, MaxReturns} \subseteq Nat

VARIABLES
  log,      \* channel -> its events, [kind, of]
  live,     \* channels that the hub delivers to this client
  call,     \* the subscribe that holds the replay lock, or Idle
  open,     \* the prompts that wait in the daemon
  stage,    \* prompt -> "new", "listed", "asked", "over", "resolved"
  news,     \* prompt notifications that were not sent yet
  requests, \* requests the daemon has not served
  notes,    \* notifications on their way, in order
  replies,  \* replies on their way, in no order
  scope,    \* Controller.scope
  view,     \* Controller.channel
  visited,  \* Controller.visited
  prompts,  \* Controller.prompts
  busy,     \* Controller.prompt_busy
  work, dirs,
  been,     \* channels that were in view
  returns

daemon == <<log, live, call, open, stage, news>>
wire == <<requests, notes, replies>>
terminal == <<scope, view, visited, prompts, busy>>
bounds == <<work, dirs, been, returns>>
terminalVars == <<daemon, wire, terminal, bounds>>

Unseen == [seq |-> 0, replayTo |-> 0, from |-> 0, whole |-> FALSE, awaitFirst |-> FALSE,
            reconciled |-> FALSE, loading |-> TRUE, shown |-> <<>>,
            card |-> [p \in Prompts |-> "none"]]
Request(method, ch, gen, from, tail, of) ==
  [method |-> method, channel |-> ch, gen |-> gen, from |-> from, tail |-> tail, of |-> of]
Idle == Request("idle", Home, 0, 0, 0, {})
Reconcile(sc) == Request("reconcile", sc.channel, sc.gen, 0, 0, {})
List == Request("list", Home, 0, 0, 0, {})
Unsubscribe(ch) == Request("unsubscribe", ch, 0, 0, 0, {})

TerminalInit ==
  /\ log = [ch \in Channels |-> [i \in 1 .. FirstLook |-> [kind |-> "chat", of |-> {}]]]
  /\ live = {} /\ call = Idle /\ open = {} /\ stage = [p \in Prompts |-> "new"] /\ news = {}
  /\ scope = [channel |-> Home, gen |-> 0] /\ view = Unseen
  /\ visited = [ch \in {} |-> Unseen] /\ prompts = {} /\ busy = {}
  /\ requests = {Reconcile(scope), List} /\ notes = <<>> /\ replies = {}
  /\ work = 0 /\ dirs = 0 /\ been = {Home} /\ returns = 0

-----------------------------------------------------------------------------
(* The daemon                                                              *)

Working == work < MaxWork /\ work' = work + 1

Event(ch, n) == [is |-> "event", channel |-> ch, seq |-> n, of |-> {}]
Commit(ch, kind, of) ==
  /\ log' = [log EXCEPT ![ch] = Append(@, [kind |-> kind, of |-> of])]
  /\ notes' = IF ch \in live THEN Append(notes, Event(ch, Len(log[ch]) + 1)) ELSE notes

Served(r) == requests' = requests \ {r}
Replied(is, r, seq, of) == replies' = replies \cup {[is |-> is, channel |-> r.channel, gen |-> r.gen, seq |-> seq, of |-> of]}

Happens(ch) ==
  /\ Working /\ UNCHANGED <<been, returns>>
  /\ \/ Commit(ch, "chat", {}) /\ UNCHANGED dirs
     \/ Commit(ch, "dir", {}) /\ dirs < MaxDirs /\ dirs' = dirs + 1
  /\ UNCHANGED <<live, call, open, stage, news, requests, replies, terminal>>

\* A prompt is listed, announced and recorded; when it ends it is no longer
\* listed, and announced and recorded in either order.
Note(is, p) == [is |-> is, channel |-> Home, seq |-> 0, of |-> {p}]

Ask(p) ==
  /\ stage[p] = "new"
  /\ stage' = [stage EXCEPT ![p] = "listed"] /\ open' = open \cup {p}
  /\ news' = news \cup {Note("requested", p)}
  /\ UNCHANGED <<log, live, call, wire, terminal, bounds>>

Close(p) == open' = open \ {p} /\ news' = news \cup {Note("resolved", p)}

Withdraw(p) ==
  /\ p \in open /\ Close(p)
  /\ UNCHANGED <<log, live, call, stage, wire, terminal, bounds>>

Record(p) ==
  /\ \/ /\ stage[p] = "listed" /\ Note("requested", p) \notin news
        /\ Commit(Home, "asked", {p}) /\ stage' = [stage EXCEPT ![p] = "asked"]
     \/ /\ stage[p] = "asked" /\ p \notin open
        /\ Commit(Home, "resolved", {p}) /\ stage' = [stage EXCEPT ![p] = "resolved"]
  /\ UNCHANGED <<live, call, open, news, requests, replies, terminal, bounds>>

Announce(note) ==
  /\ news' = news \ {note} /\ notes' = Append(notes, note)
  /\ UNCHANGED <<log, live, call, open, stage, requests, replies, terminal, bounds>>

\* reconcile: the end of the log first, the prompts after it.
ServeReconcile(r) ==
  /\ r.method = "reconcile"
  /\ requests' = (requests \ {r}) \cup {Request("pending", r.channel, r.gen, Len(log[r.channel]), 0, {})}
  /\ UNCHANGED <<daemon, notes, replies, terminal, bounds>>

ServePending(r) ==
  /\ r.method = "pending" /\ Served(r) /\ Replied("reconcile", r, r.from, open)
  /\ UNCHANGED <<daemon, notes, terminal, bounds>>

ServeList(r) ==
  /\ r.method = "list" /\ Served(r) /\ Replied("list", r, 0, open)
  /\ UNCHANGED <<daemon, notes, terminal, bounds>>

\* prompt.claim and prompt.reply; the daemon takes the first answer only.
ServeAnswer(r) ==
  /\ r.method = "answer" /\ Served(r)
  /\ \E p \in r.of :
       IF p \in open THEN Close(p) /\ Replied("answered", r, 0, r.of)
       ELSE Replied("refused", r, 0, r.of) /\ UNCHANGED <<open, news>>
  /\ UNCHANGED <<log, live, call, stage, notes, terminal, bounds>>

ServeUnsubscribe(r) ==
  /\ r.method = "unsubscribe" /\ Served(r)
  /\ live' = live \ {r.channel}
  /\ UNCHANGED <<log, call, open, stage, news, notes, replies, terminal, bounds>>

\* subscribe, one at a time: a first look starts FirstLook events before the
\* end of the log.  The channel stops being live, the log is sent to its end,
\* and the channel is live, unsubscribed meanwhile or not.
Start(r) ==
  /\ r.method = "subscribe" /\ call = Idle /\ Served(r)
  /\ LET start == Len(log[r.channel]) + 1 - r.tail
         cut == r.tail > 0 /\ r.from <= 1 /\ start > 1
     IN call' = [r EXCEPT !.from = IF cut THEN start ELSE @, !.tail = IF cut THEN start ELSE 0]
  /\ live' = live \ {r.channel}
  /\ UNCHANGED <<log, open, stage, news, notes, replies, terminal, bounds>>

Replay ==
  /\ call # Idle /\ call.from <= Len(log[call.channel])
  /\ notes' = Append(notes, Event(call.channel, call.from))
  /\ call' = [call EXCEPT !.from = @ + 1]
  /\ UNCHANGED <<log, live, open, stage, news, requests, replies, terminal, bounds>>

GoLive ==
  /\ call # Idle /\ call.from > Len(log[call.channel])
  /\ live' = live \cup {call.channel} /\ call' = Idle
  /\ Replied("subscribed", call, call.tail, {})
  /\ UNCHANGED <<log, open, stage, news, requests, notes, terminal, bounds>>

-----------------------------------------------------------------------------
(* Prompts and cards                                                       *)

EnsuredAgain(v, ps) == [v EXCEPT !.card = [p \in Prompts |-> IF p \in ps THEN "open" ELSE @[p]]]

\* ensure_question, ensure_permission: a card that is resolved stays so.
Ensured(v, ps) == [v EXCEPT !.card = [p \in Prompts |-> IF p \in ps /\ @[p] = "none" THEN "open" ELSE @[p]]]

\* upsert_prompt and materialize_prompts: while a channel loads its cards wait.
Upserted(v, ps) == IF v.loading \/ scope.channel # Home THEN v ELSE Ensured(v, ps)

-----------------------------------------------------------------------------
(* Notifications                                                           *)

CardAfter(v, e) ==
  [v EXCEPT !.card = [p \in Prompts |->
     CASE p \in e.of /\ e.kind = "asked" /\ @[p] = "none" -> "open"
       [] p \in e.of /\ e.kind = "resolved" /\ @[p] = "open" -> "resolved"
       [] OTHER -> @[p]]]

\* Events are shown in the order they come; the one that ends the replay lets
\* the cards of the waiting prompts appear.
LoadedPast(n) == n > view.replayTo
LoadedBy(n) == n >= view.replayTo
After(n) ==
  LET v == CardAfter([view EXCEPT !.awaitFirst = FALSE,
                                  !.seq = IF n > @ THEN n ELSE @,
                                  !.shown = Append(@, n),
                                  !.loading = @ /\ ~LoadedBy(n)], log[scope.channel][n])
  IN IF view.loading THEN Upserted(v, prompts) ELSE v


Fresh == [scope EXCEPT !.gen = @ + 1]

Moved(n) == log[scope.channel][n].kind = "dir" /\ ~view.loading
Foreign(note) == note.channel # scope.channel
NeverEarly(note) == FALSE
Early(note) == view.awaitFirst /\ note.seq # 1

ApplyEvent(note) ==
  /\ note.is = "event"
  /\ IF Foreign(note) \/ Early(note)
     THEN UNCHANGED <<scope, view, requests>>
     ELSE /\ view' = After(note.seq)
          /\ IF Moved(note.seq)
             THEN scope' = Fresh /\ requests' = requests \cup {Reconcile(Fresh)}
             ELSE UNCHANGED <<scope, requests>>
  /\ UNCHANGED <<visited, prompts, busy>>

ApplyPrompt(note) ==
  /\ note.is # "event"
  /\ IF note.is = "requested"
     THEN prompts' = prompts \cup note.of /\ view' = Upserted(view, note.of) /\ busy' = busy
     ELSE prompts' = prompts \ note.of /\ busy' = busy \ note.of /\ view' = view
  /\ UNCHANGED <<scope, visited, requests>>

Notification ==
  /\ notes # <<>> /\ notes' = Tail(notes)
  /\ ApplyEvent(Head(notes)) \/ ApplyPrompt(Head(notes))
  /\ UNCHANGED <<daemon, replies, bounds>>

-----------------------------------------------------------------------------
(* Replies                                                                 *)

Current(r) == r.channel = scope.channel /\ r.gen = scope.gen
Behind(r) == view.reconciled /\ r.seq < view.seq

\* on_reconcile: a snapshot older than the view is asked for again; another
\* one says how far to load, and the rest of the log is subscribed to.
ApplyReconcile(r) ==
  /\ r.is = "reconcile"
  /\ IF ~Current(r) THEN UNCHANGED <<view, prompts, requests>>
     ELSE IF Behind(r) THEN requests' = requests \cup {Reconcile(scope)} /\ UNCHANGED <<view, prompts>>
     ELSE /\ prompts' = prompts \cup r.of
          /\ LET v == [Upserted(view, r.of) EXCEPT !.reconciled = TRUE, !.replayTo = r.seq,
                                                   !.loading = r.seq > view.seq]
             IN view' = Upserted(v, prompts')
          /\ requests' = requests \cup {Request("subscribe", scope.channel, scope.gen, view.seq + 1,
                                         IF view.whole \/ view.seq > 0 THEN 0 ELSE FirstLook, {})}
  /\ UNCHANGED <<scope, visited, busy>>

ApplySubscribed(r) ==
  /\ r.is = "subscribed"
  /\ view' = IF Current(r) THEN [view EXCEPT !.from = r.seq] ELSE view
  /\ UNCHANGED <<scope, visited, prompts, busy, requests>>

ApplyList(r) ==
  /\ r.is = "list"
  /\ prompts' = prompts \cup r.of /\ view' = Upserted(view, r.of)
  /\ UNCHANGED <<scope, visited, busy, requests>>

\* An answer counts in whatever channel the person is by then.
ApplyAnswer(r) ==
  /\ r.is \in {"answered", "refused"}
  /\ busy' = busy \ r.of /\ prompts' = IF r.is = "answered" THEN prompts \ r.of ELSE prompts
  /\ UNCHANGED <<scope, view, visited, requests>>

HandleReply(r) ==
  /\ replies' = replies \ {r}
  /\ ApplyReconcile(r) \/ ApplySubscribed(r) \/ ApplyList(r) \/ ApplyAnswer(r)
  /\ UNCHANGED <<daemon, notes, bounds>>

-----------------------------------------------------------------------------
(* The person                                                              *)

Returning(ch) == ch \in been
Kept ==
  IF view.reconciled
  THEN [ch \in DOMAIN visited \cup {scope.channel} |-> IF ch = scope.channel THEN view ELSE visited[ch]]
  ELSE visited

BindSameView(ch) ==
  /\ Working /\ UNCHANGED dirs
  /\ Returning(ch) => returns < MaxReturns
  /\ returns' = IF Returning(ch) THEN returns + 1 ELSE returns
  /\ been' = been \cup {ch}
  /\ view' = [view EXCEPT !.loading = TRUE, !.reconciled = FALSE]
  /\ visited' = IF ch = scope.channel THEN visited
                ELSE [other \in DOMAIN Kept \ {ch} |-> Kept[other]]
  /\ scope' = [channel |-> ch, gen |-> scope.gen + 1]
  /\ requests' = requests \cup {Reconcile(scope')}
                         \cup (IF ch = scope.channel THEN {} ELSE {Unsubscribe(scope.channel)})
  /\ UNCHANGED <<daemon, notes, replies, prompts, busy>>

\* bind_channel: the view of the old channel is kept, that of the new one is
\* taken up where it was left.
Bind(ch) ==
  /\ Working /\ UNCHANGED dirs
  /\ Returning(ch) => returns < MaxReturns
  /\ returns' = IF Returning(ch) THEN returns + 1 ELSE returns
  /\ been' = been \cup {ch}
  /\ LET taken == IF ch = scope.channel THEN view
                  ELSE IF ch \in DOMAIN visited THEN visited[ch] ELSE Unseen
     IN view' = [taken EXCEPT !.loading = TRUE, !.reconciled = FALSE]
  /\ visited' = IF ch = scope.channel THEN visited
                ELSE [other \in DOMAIN Kept \ {ch} |-> Kept[other]]
  /\ scope' = [channel |-> ch, gen |-> scope.gen + 1]
  /\ requests' = requests \cup {Reconcile(scope')}
                         \cup (IF ch = scope.channel THEN {} ELSE {Unsubscribe(scope.channel)})
  /\ UNCHANGED <<daemon, notes, replies, prompts, busy>>

\* /history: a view that began late is loaded again from the first event.
History ==
  /\ Working /\ UNCHANGED <<dirs, been, returns>>
  /\ view.from > 1
  /\ scope' = Fresh /\ requests' = requests \cup {Reconcile(Fresh)}
  /\ view' = [Unseen EXCEPT !.whole = TRUE, !.awaitFirst = TRUE, !.replayTo = view.replayTo]
  /\ UNCHANGED <<daemon, notes, replies, visited, prompts, busy>>

Answer(p) ==
  /\ Working /\ UNCHANGED <<dirs, been, returns>>
  /\ p \in prompts \ busy /\ busy' = busy \cup {p}
  /\ requests' = requests \cup {Request("answer", scope.channel, scope.gen, 0, 0, {p})}
  /\ UNCHANGED <<daemon, notes, replies, scope, view, visited, prompts>>

-----------------------------------------------------------------------------

Serve(r) == \/ ServeReconcile(r) \/ ServePending(r) \/ ServeList(r) \/ ServeAnswer(r)
            \/ ServeUnsubscribe(r) \/ Start(r)

Daemon == (\E p \in Prompts : Record(p)) \/ (\E note \in news : Announce(note))

System == \/ Daemon \/ Replay \/ GoLive \/ \E r \in requests : Serve(r)
          \/ Notification \/ \E r \in replies : HandleReply(r)

TerminalNext ==
  \/ \E ch \in Channels : Happens(ch) \/ Bind(ch)
  \/ \E p \in Prompts : Ask(p) \/ Withdraw(p) \/ Answer(p)
  \/ History \/ System

TerminalSpec == TerminalInit /\ [][TerminalNext]_terminalVars

\* The daemon and the terminal go on while they have something to do; what
\* happens and what the person does is no duty.
FairTerminal == TerminalSpec /\ WF_terminalVars(System)

-----------------------------------------------------------------------------
(* Properties                                                              *)

ViewType ==
  /\ DOMAIN view.card = Prompts /\ \A p \in Prompts : view.card[p] \in {"none", "open", "resolved"}
  /\ view.seq \in 0 .. Len(log[scope.channel]) /\ view.replayTo \in Nat

\* The view is one of the channel in view: it knows no event that channel has
\* not got, and the views that bind_channel keeps are of other channels.
TerminalTypeOK ==
  /\ live \subseteq Channels /\ open \subseteq Prompts /\ busy \subseteq Prompts /\ prompts \subseteq Prompts
  /\ scope.channel \in Channels /\ DOMAIN visited \subseteq Channels \ {scope.channel}
  /\ ViewType

\* Live delivery, a first look, a second subscription after a directory change
\* and /history share apply_event: between the first event that is shown and
\* the last, none is left out while the person has not come back to a channel.
NothingSkipped ==
  LET seen == {view.shown[i] : i \in 1 .. Len(view.shown)}
  IN returns = 0 => \A n \in seen : n = view.seq \/ n + 1 \in seen

\* Only a part of the log is in view.
Cut == view.shown = <<>> \/ view.shown[1] > 1

\* Loading ends: the event it waits for comes whatever was replayed, dropped or
\* read in another scope meanwhile.
LoadingEnds == view.loading ~> ~view.loading

\* A prompt that waits has its card in the channel it was asked in, whether it
\* came by notification, by a list, by reconcile or as an event.
PromptsShown ==
  \A p \in Prompts : p \in open ~> \/ p \notin open \/ scope.channel # Home \/ view.card[p] = "open"

\* The card of a prompt that is over says so, where its request was shown: a
\* late list or notification does not open it again.
CardsSettle ==
  \A p \in Prompts : stage[p] = "resolved" ~> \/ scope.channel # Home \/ Cut \/ view.card[p] # "open"

\* The view comes to agree with the daemon, in whatever order replies and
\* notifications were applied: it stops loading, and its cards show which
\* prompts wait.  The run checks it of a person who comes back to no channel
\* and takes one step at a time (MaxReturns, MaxWork).
ViewSettles == LoadingEnds /\ PromptsShown /\ CardsSettle
=============================================================================

---------------------------- MODULE Subscriptions ----------------------------
(***************************************************************************)
(* Event delivery to socket clients: src/daemon/hub.rs (Client::subscribe, *)
(* Client::deliver, Hub::committed) over the bounded outbound queue of     *)
(* src/daemon/queue.rs, on top of what the journal promises (OrderedLog):  *)
(* gapless rows per channel, a commit callback in table order, and         *)
(* barriers that run on the writer thread between two callbacks.           *)
(*                                                                         *)
(* A subscribe call replays history page by page outside the barrier and   *)
(* turns live inside one that finds nothing left to replay.  A frame in    *)
(* `sent` remembers the call it was sent for; the queue of a client is the *)
(* part of `sent` its socket writer has not taken yet.                     *)
(***************************************************************************)
EXTENDS Naturals, Sequences, FiniteSets

CONSTANTS Channels,
          Clients,
          Calls,      \* subscribe requests, each made once
          NoCall,     \* no request
          Groups,     \* the channels of the rows that one commit adds
          Froms,      \* the values of `from` that requests carry
          PageSize,   \* rows read at once (512 in the code)
          QueueMax,   \* MAX_MESSAGES of the outbound queue (16384)
          MaxRows     \* bound of the model: rows per channel

ASSUME SubscriptionsAssumption ==
  /\ NoCall \notin Calls
  /\ Groups \subseteq Seq(Channels)
  /\ Froms \subseteq Nat
  /\ PageSize \in Nat \ {0}
  /\ QueueMax \in Nat \ {0}
  /\ MaxRows \in Nat

VARIABLES
  rows,       \* rows[ch]: rows of the channel in the table, numbered 1..rows
  hidden,     \* rows whose commit could not be acknowledged: no callback
  callback,   \* rows the commit callback still has to deliver
  audience,   \* clients it still has to offer the first of them to
  snapshot,   \* clients it saw when it began
  connected,  \* clients in the hub
  closed,     \* clients whose queue is closed
  subs,       \* subscriptions: [call, last], or NoSub
  lock,       \* Client.replay: the call that holds it
  sent,       \* frames admitted to the queue of each client
  taken,      \* frames its socket writer has taken
  call        \* the subscribe requests

vars == <<rows, hidden, callback, audience, snapshot, connected, closed,
          subs, lock, sent, taken, call>>

NoSub == [call |-> NoCall, last |-> 0]
Sub == [call : Calls \cup {NoCall}, last : Nat]
RowId == [channel : Channels, seq : Nat \ {0}]
Frame == [channel : Channels, seq : Nat \ {0}, call : Calls]
Stages == {"idle", "lock", "read", "barrier", "replay", "done", "failed"}
Call == [stage : Stages, client : Clients, channel : Channels,
         from : Nat, last : Nat, upto : Nat]

Init ==
  /\ rows = [ch \in Channels |-> 0] /\ hidden = {}
  /\ callback = <<>> /\ audience = {} /\ snapshot = {}
  /\ connected = Clients /\ closed = {}
  /\ subs = [cl \in Clients |-> [ch \in Channels |-> NoSub]]
  /\ lock = [cl \in Clients |-> NoCall]
  /\ sent = [cl \in Clients |-> <<>>]
  /\ taken = [cl \in Clients |-> 0]
  /\ call \in [Calls -> [stage : {"idle"}, client : Clients, channel : Channels,
                         from : Froms, last : {0}, upto : {0}]]

-----------------------------------------------------------------------------
(* The outbound queue                                                      *)

QueueLen(cl) == Len(sent[cl]) - taken[cl]

QueueOverfull(cl) == QueueLen(cl) > QueueMax
QueueFull(cl) == QueueLen(cl) >= QueueMax

\* Queue::enqueue of a frame that must not be dropped: overflow closes.
Enqueue(cl, frame) ==
  IF cl \in closed THEN UNCHANGED <<sent, closed>>
  ELSE IF QueueFull(cl)
  THEN closed' = closed \cup {cl} /\ UNCHANGED sent
  ELSE sent' = [sent EXCEPT ![cl] = Append(@, frame)] /\ UNCHANGED closed

\* Queue::replay waits until less than a quarter is used.
ReplayRoom(cl) == QueueLen(cl) < (IF QueueMax \div 4 > 1 THEN QueueMax \div 4 ELSE 1)

\* Queue::recv by the socket writer.
Take(cl) ==
  /\ cl \notin closed /\ QueueLen(cl) > 0
  /\ taken' = [taken EXCEPT ![cl] = @ + 1]
  /\ UNCHANGED <<rows, hidden, callback, audience, snapshot, connected, closed,
                 subs, lock, sent, call>>

\* The connection ends: a failed or timed out write, or the client leaves.
Disconnect(cl) ==
  /\ cl \in connected
  /\ closed' = closed \cup {cl}
  /\ connected' = connected \ {cl}
  /\ UNCHANGED <<rows, hidden, callback, audience, snapshot, subs, lock, sent,
                 taken, call>>

-----------------------------------------------------------------------------
(* The journal's writer thread                                             *)

NewRows(es) ==
  [i \in 1 .. Len(es) |->
     [channel |-> es[i],
      seq |-> rows[es[i]] + Cardinality({j \in 1 .. i : es[j] = es[i]})]]

\* A commit, and Hub::committed taking its snapshot of the clients; a commit
\* of unknown outcome may leave rows without a callback.
Commit(es) ==
  /\ callback = <<>>
  /\ \A ch \in Channels : rows[ch] + Cardinality({i \in 1 .. Len(es) : es[i] = ch}) <= MaxRows
  /\ rows' = [ch \in Channels |-> rows[ch] + Cardinality({i \in 1 .. Len(es) : es[i] = ch})]
  /\ \/ /\ callback' = IF connected = {} THEN <<>> ELSE NewRows(es)
        /\ UNCHANGED hidden
     \/ /\ hidden' = hidden \cup {NewRows(es)[i] : i \in 1 .. Len(es)}
        /\ UNCHANGED callback
  /\ snapshot' = connected /\ audience' = connected
  /\ UNCHANGED <<connected, closed, subs, lock, sent, taken, call>>

\* A row that the subscription is past.
PastOffByOne(sub, row) == row.seq < sub.last
Past(sub, row) == row.seq <= sub.last

\* Client::deliver of the first row, under the client's state lock.
Deliver(cl) ==
  /\ callback # <<>> /\ cl \in audience
  /\ LET row == Head(callback)
         sub == subs[cl][row.channel]
     IN IF sub = NoSub \/ Past(sub, row)
        THEN UNCHANGED <<subs, sent, closed>>
        ELSE /\ subs' = [subs EXCEPT ![cl][row.channel].last = row.seq]
             /\ Enqueue(cl, [channel |-> row.channel, seq |-> row.seq, call |-> sub.call])
  /\ IF audience = {cl}
     THEN callback' = Tail(callback) /\ audience' = snapshot
     ELSE UNCHANGED callback /\ audience' = audience \ {cl}
  /\ UNCHANGED <<rows, hidden, snapshot, connected, lock, taken, call>>

-----------------------------------------------------------------------------
(* Requests of clients                                                     *)

Goto(s, stage) == call' = [call EXCEPT ![s].stage = stage]

\* The request is dispatched; it waits for the replay lock.
Subscribe(s) ==
  /\ call[s].stage = "idle" /\ call[s].client \in connected
  /\ Goto(s, "lock")
  /\ UNCHANGED <<rows, hidden, callback, audience, snapshot, connected, closed,
                 subs, lock, sent, taken>>

\* Live delivery to an earlier call stops before history is replayed.
StayLive(s) == UNCHANGED subs
StopLive(s) == subs' = [subs EXCEPT ![call[s].client][call[s].channel] = NoSub]

\* The lock is granted.
Start(s) ==
  LET cl == call[s].client
  IN /\ call[s].stage = "lock" /\ lock[cl] = NoCall
     /\ lock' = [lock EXCEPT ![cl] = s]
     /\ StopLive(s)
     /\ call' = [call EXCEPT ![s].stage = "read",
                             ![s].last = IF call[s].from > 1 THEN call[s].from - 1 ELSE 0]
     /\ UNCHANGED <<rows, hidden, callback, audience, snapshot, connected, closed,
                    sent, taken>>

\* The last row of the page that log.read(channel, last + 1, 512) returns.
PageEnd(s) ==
  LET n == rows[call[s].channel]
  IN IF n > call[s].last + PageSize THEN call[s].last + PageSize ELSE n

Read(s) ==
  /\ call[s].stage = "read"
  /\ call' = [call EXCEPT ![s].stage = IF PageEnd(s) <= call[s].last THEN "barrier" ELSE "replay",
                          ![s].upto = PageEnd(s)]
  /\ UNCHANGED <<rows, hidden, callback, audience, snapshot, connected, closed,
                 subs, lock, sent, taken>>

\* The barrier reads again.
TrustFirstRead(s) == TRUE
NothingLeft(s) == PageEnd(s) <= call[s].last

\* The call turns live inside the barrier when there is nothing left.
RunBarrier(s) ==
  LET cl == call[s].client
  IN /\ call[s].stage = "barrier" /\ callback = <<>>
     /\ IF NothingLeft(s)
        THEN /\ subs' = [subs EXCEPT ![cl][call[s].channel] =
                                      [call |-> s, last |-> call[s].last]]
             /\ Goto(s, "done")
             /\ lock' = [lock EXCEPT ![cl] = NoCall]
        ELSE /\ call' = [call EXCEPT ![s].stage = "replay", ![s].upto = PageEnd(s)]
             /\ UNCHANGED <<subs, lock>>
     /\ UNCHANGED <<rows, hidden, callback, audience, snapshot, connected, closed,
                    sent, taken>>

\* One row of the page enters the queue once there is room.
Replay(s) ==
  LET cl == call[s].client
  IN /\ call[s].stage = "replay"
     /\ cl \notin closed /\ ReplayRoom(cl)
     /\ sent' = [sent EXCEPT ![cl] = Append(@, [channel |-> call[s].channel,
                                               seq |-> call[s].last + 1, call |-> s])]
     /\ call' = [call EXCEPT ![s].last = @ + 1,
                             ![s].stage = IF call[s].last + 1 = call[s].upto
                                          THEN "read" ELSE "replay"]
     /\ UNCHANGED <<rows, hidden, callback, audience, snapshot, connected, closed,
                    subs, lock, taken>>

\* The places where a request notices that its connection is closed.
CancellableUntilReplay == {"lock", "read"}
Cancellable == {"lock", "read", "replay"}

\* A failed request drops the lock guard.
KeepLock(s) == UNCHANGED lock
ReleaseLock(s) == lock' = [cl \in Clients |-> IF lock[cl] = s THEN NoCall ELSE lock[cl]]

\* The request fails once its connection is closed.
Bail(s) ==
  LET cl == call[s].client
  IN /\ call[s].stage \in Cancellable /\ cl \in closed
     /\ Goto(s, "failed")
     /\ ReleaseLock(s)
     /\ UNCHANGED <<rows, hidden, callback, audience, snapshot, connected, closed,
                    subs, sent, taken>>

\* An unsubscribe request does not wait for the replay lock.
Unsubscribe(cl, ch) ==
  /\ cl \in connected
  /\ subs' = [subs EXCEPT ![cl][ch] = NoSub]
  /\ UNCHANGED <<rows, hidden, callback, audience, snapshot, connected, closed,
                 lock, sent, taken, call>>

Advance(s) == Start(s) \/ Read(s) \/ RunBarrier(s) \/ Replay(s) \/ Bail(s)

Next ==
  \/ \E es \in Groups : Commit(es)
  \/ \E cl \in Clients : Deliver(cl) \/ Take(cl) \/ Disconnect(cl)
  \/ \E s \in Calls : Subscribe(s) \/ Advance(s)
  \/ \E cl \in Clients, ch \in Channels : Unsubscribe(cl, ch)

Spec == Init /\ [][Next]_vars

\* The writer thread and dispatched requests run; a socket write ends or times
\* out after ten seconds, which closes the queue.  The replay lock is handed
\* over in the order it was asked for, hence strong fairness of Start.
FairSpec ==
  /\ Spec
  /\ \A cl \in Clients : WF_vars(Deliver(cl)) /\ WF_vars(Take(cl))
  /\ \A s \in Calls : WF_vars(Advance(s)) /\ SF_vars(Start(s)) /\ SF_vars(RunBarrier(s))

-----------------------------------------------------------------------------
(* Properties                                                              *)

TypeOK ==
  /\ rows \in [Channels -> 0 .. MaxRows]
  /\ hidden \subseteq RowId
  /\ callback \in Seq(RowId)
  /\ audience \subseteq Clients /\ snapshot \subseteq Clients
  /\ connected \subseteq Clients /\ closed \subseteq Clients
  /\ subs \in [Clients -> [Channels -> Sub]]
  /\ lock \in [Clients -> Calls \cup {NoCall}]
  /\ sent \in [Clients -> Seq(Frame)]
  /\ taken \in [Clients -> Nat]
  /\ call \in [Calls -> Call]
  /\ \A cl \in Clients : QueueLen(cl) \in 0 .. QueueMax

IsHidden(ch, n) == [channel |-> ch, seq |-> n] \in hidden

\* No gap, no repeat, no reordering: what a client gets for one subscribe call
\* starts at the row it asked for and goes on row by row, through replay and
\* into live delivery.  Live delivery can only step over rows whose commit
\* could not be acknowledged.
First(s) == IF call[s].from > 1 THEN call[s].from ELSE 1
IsSent(cl, i, ch, n, s) == sent[cl][i] = [channel |-> ch, seq |-> n, call |-> s]
Contiguous ==
  \A cl \in Clients : \A i \in 1 .. Len(sent[cl]) :
    LET frame == sent[cl][i]
    IN /\ frame.seq >= First(frame.call)
       /\ \A j \in 1 .. i - 1 : sent[cl][j].call = frame.call => sent[cl][j].seq < frame.seq
       /\ \A n \in First(frame.call) .. frame.seq - 1 :
            \/ \E j \in 1 .. i - 1 : IsSent(cl, j, frame.channel, n, frame.call)
            \/ IsHidden(frame.channel, n)

\* Two subscribe calls for one channel of one client never interleave: once a
\* frame of the later call is queued, none of the earlier follows.
NoInterleaving ==
  \A cl \in Clients : \A i, j, k \in 1 .. Len(sent[cl]) :
    /\ i < j /\ j < k
    /\ sent[cl][i].channel = sent[cl][j].channel
    /\ sent[cl][i].call = sent[cl][k].call
    => sent[cl][j].call = sent[cl][i].call

\* The handoff misses nothing: a live subscriber with an open queue has been
\* sent every row from the one it asked for, except the ones the callback is
\* still delivering.
InFlight(ch, n) == \E i \in 1 .. Len(callback) : callback[i] = [channel |-> ch, seq |-> n]
LiveIsComplete ==
  \A cl \in Clients \ closed, ch \in Channels :
    LET s == subs[cl][ch].call
    IN s # NoCall =>
         \A n \in First(s) .. rows[ch] :
           \/ \E i \in 1 .. Len(sent[cl]) : IsSent(cl, i, ch, n, s)
           \/ IsHidden(ch, n) \/ InFlight(ch, n)

\* The replay lock is free exactly when no call is replaying, also after the
\* call failed half way: a later subscribe is not locked out.
LockHeldByReplay ==
  \A cl \in Clients :
    {s \in Calls : call[s].client = cl /\ call[s].stage \in {"read", "barrier", "replay"}}
      = {lock[cl]} \ {NoCall}

\* What a subscriber gets is the log from where it asked, whole and in order,
\* and one call at a time replays it.
GetsTheLog == Contiguous /\ LiveIsComplete /\ NoInterleaving /\ LockHeldByReplay

\* Every subscribe call returns, although replay waits for the slow consumer
\* and rows are committed meanwhile.
SubscribeReturns ==
  \A s \in Calls : (call[s].stage = "lock") ~> (call[s].stage \in {"done", "failed"})
=============================================================================

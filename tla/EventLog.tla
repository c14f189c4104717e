------------------------------ MODULE EventLog ------------------------------
(***************************************************************************)
(* The journal of src/eventlog.rs.  Callers put requests on a bounded      *)
(* channel; one writer thread drains them in batches, writes the appends   *)
(* up to the next barrier in one SQLite transaction (one by one when that  *)
(* transaction is refused), runs the commit callback, and only then        *)
(* acknowledges.  close() takes the sender away and sends a last request.  *)
(*                                                                         *)
(* A request is named by the number of its submission: request[r] is what  *)
(* it asks for, outcome[r] what its caller has been told.  A transaction   *)
(* is the pair txEvents, txNames: the tables as it would leave them.       *)
(***************************************************************************)
EXTENDS Naturals, Sequences, FiniteSets

CONSTANTS Channels,     \* channel ids
          Names,        \* channel names, UNIQUE in the table channels
          NoName,       \* the name of a channel that has no row
          Payloads,     \* the event lists that callers append
          QueueCap,     \* capacity of the sync_channel (256 in the code)
          BatchCap,     \* most requests the writer drains at once (256)
          MaxRequests,  \* bound of the model: requests submitted
          MaxFaults,    \* bound of the model: failures of SQLite
          MaxCrashes    \* bound of the model: ends of the process

Event == [channel : Channels,
          kind    : {"created", "updated", "other"},
          name    : Names \cup {NoName}]

ASSUME PayloadsAssumption ==
  /\ NoName \notin Names
  /\ Payloads \subseteq Seq(Event)
  /\ \A p \in Payloads : \A i \in 1 .. Len(p) :
       p[i].kind \in {"created", "updated"} => p[i].name \in Names

ASSUME BoundsAssumption ==
  /\ QueueCap \in Nat \ {0}
  /\ BatchCap \in Nat \ {0}
  /\ MaxRequests \in Nat
  /\ MaxFaults \in Nat
  /\ MaxCrashes \in Nat

VARIABLES
  request,    \* what each submission asked for
  outcome,    \* what its caller has been told
  sender,     \* Log.sender: "open", "taken" by close(), "closed"
  queue,      \* the sync_channel: requests in submission order
  batch,      \* requests the writer drained and has not processed
  group,      \* appends of a refused group, to be written one by one
  writing,    \* the appends of the transaction in progress or committed
  cursor,     \* the next event to insert: <<index in writing, event>>
  txEvents,   \* table events as the transaction sees it
  txNames,    \* column channels.name as the transaction sees it
  phase,      \* where the writer thread is
  events,     \* table events; `global` is the index
  names,      \* column channels.name, NoName where there is no row
  lastSeq,    \* column channels.last_seq
  delivered,  \* rows handed to the commit callback by this process
  opened,     \* rows the table held when this process opened it
  barriers,   \* what each barrier saw when its closure ran
  faults,     \* failures of SQLite so far
  crashes     \* ends of the process so far

client == <<request, sender, queue>>
store  == <<events, names, lastSeq>>
tx     == <<writing, cursor, txEvents, txNames>>
seen   == <<delivered, opened, barriers>>
vars   == <<client, outcome, batch, group, tx, phase, store, seen, faults, crashes>>

Requests == 1 .. MaxRequests
Row == [channel : Channels, seq : Nat \ {0}, req : Requests, pos : Nat \ {0}]
Kinds == {"append", "barrier", "close"}
Request == [kind : Kinds, events : Payloads \cup {<<>>}]
Outcomes == {"pending", "ok", "rejected", "uncertain", "lost"}
Phases == {"process", "write", "deliver", "ack", "stopped"}
Barrier == [req : Requests, rows : Nat, delivered : Nat]

Init ==
  /\ request = <<>> /\ outcome = <<>>
  /\ sender = "open" /\ queue = <<>> /\ batch = <<>> /\ group = <<>>
  /\ writing = <<>> /\ cursor = <<1, 1>>
  /\ txEvents = <<>> /\ txNames = [c \in Channels |-> NoName]
  /\ phase = "process"
  /\ events = <<>>
  /\ names = [c \in Channels |-> NoName]
  /\ lastSeq = [c \in Channels |-> 0]
  /\ delivered = <<>> /\ opened = 0 /\ barriers = {}
  /\ faults = 0 /\ crashes = 0

-----------------------------------------------------------------------------
(* Callers                                                                 *)

Submitted(kind, es) == request' = Append(request, [kind |-> kind, events |-> es])
NextRequest == Len(request) + 1

\* The send waits while the channel is full.
RoomOffByOne == Len(queue) <= QueueCap
Room == Len(queue) < QueueCap

\* Once close() has taken the sender, submit() returns an error and changes
\* nothing.
NeverClosed == phase # "stopped"
SenderOpen == sender = "open"

\* submit(): the request enters the channel under the sender's lock.
Submit(kind, es) ==
  /\ NextRequest \in Requests
  /\ SenderOpen
  /\ Room
  /\ Submitted(kind, es)
  /\ outcome' = Append(outcome, "pending")
  /\ queue' = Append(queue, NextRequest)
  /\ UNCHANGED <<sender, batch, group, tx, phase, store, seen, faults, crashes>>

\* close(): the sender is taken under its lock, the request sent outside it.
TakeSender ==
  /\ sender = "open"
  /\ NextRequest \in Requests
  /\ sender' = "taken"
  /\ UNCHANGED <<request, queue, outcome, batch, group, tx, phase, store, seen, faults, crashes>>

SendClose ==
  /\ sender = "taken"
  /\ NextRequest \in Requests
  /\ Room
  /\ Submitted("close", <<>>)
  /\ outcome' = Append(outcome, "pending")
  /\ queue' = Append(queue, NextRequest)
  /\ sender' = "closed"
  /\ UNCHANGED <<batch, group, tx, phase, store, seen, faults, crashes>>

-----------------------------------------------------------------------------
(* The writer thread                                                       *)

IsAppend(r) == request[r].kind = "append"

\* commit() returned: the appends of a refused group are all answered.
GroupForgotten == TRUE
GroupAnswered == group = <<>>

\* recv() and try_recv(): whatever is queued, up to the batch limit.
Drain ==
  LET n == IF Len(queue) < BatchCap THEN Len(queue) ELSE BatchCap
  IN /\ phase = "process" /\ batch = <<>> /\ GroupAnswered
     /\ queue # <<>>
     /\ batch' = SubSeq(queue, 1, n)
     /\ queue' = SubSeq(queue, n + 1, Len(queue))
     /\ UNCHANGED <<request, sender, outcome, group, tx, phase, store, seen, faults, crashes>>

\* db.transaction() over the appends rs.
Begin(rs) ==
  /\ writing' = rs
  /\ cursor' = <<1, 1>>
  /\ txEvents' = events
  /\ txNames' = names
  /\ phase' = "write"

\* commit(): the appends before the next barrier or close, as one group.
BeginGroup ==
  /\ phase = "process" /\ GroupAnswered
  /\ \E n \in 1 .. Len(batch) :
       /\ \A i \in 1 .. n : IsAppend(batch[i])
       /\ n < Len(batch) => ~IsAppend(batch[n + 1])
       /\ Begin(SubSeq(batch, 1, n))
       /\ batch' = SubSeq(batch, n + 1, Len(batch))
  /\ UNCHANGED <<client, outcome, group, store, seen, faults, crashes>>

\* commit(): the loop over a refused group, each append in a transaction.
BeginSingle ==
  /\ phase = "process" /\ group # <<>>
  /\ Begin(<<Head(group)>>)
  /\ group' = Tail(group)
  /\ UNCHANGED <<client, outcome, batch, store, seen, faults, crashes>>

Current == request[writing[cursor[1]]].events
InsertDue == cursor[1] \in 1 .. Len(writing) /\ cursor[2] \in 1 .. Len(Current)

\* SELECT coalesce(max(seq), 0) FROM events WHERE channel = c
LastSeq(rows, c) ==
  LET seqs == {rows[i].seq : i \in {j \in 1 .. Len(rows) : rows[j].channel = c}}
  IN IF seqs = {} THEN 0 ELSE CHOOSE m \in seqs : \A n \in seqs : n <= m

\* index(): the primary key and the UNIQUE name of the table channels.
Accepts(ns, e) ==
  /\ e.kind = "created" => ns[e.channel] = NoName
  /\ e.kind = "created" \/ (e.kind = "updated" /\ ns[e.channel] # NoName)
       => \A c \in Channels \ {e.channel} : ns[c] # e.name

\* index(): an INSERT for channel.created, an UPDATE for channel.updated.
Indexed(ns, e) ==
  IF e.kind = "created" \/ (e.kind = "updated" /\ ns[e.channel] # NoName)
  THEN [ns EXCEPT ![e.channel] = e.name]
  ELSE ns

\* The number of the transaction's next event on channel c.  The code counts on
\* in a map that dies with the transaction; the rows it wrote give the same.
NextSeqOfRowid(c) == Len(txEvents) + 1
NextSeq(c) == LastSeq(txEvents, c) + 1

\* write(): one event numbered, inserted and indexed.
Insert ==
  /\ phase = "write" /\ InsertDue
  /\ LET e == Current[cursor[2]]
     IN /\ Accepts(txNames, e)
        /\ txEvents' = Append(txEvents, [channel |-> e.channel,
                                         seq |-> NextSeq(e.channel),
                                         req |-> writing[cursor[1]],
                                         pos |-> cursor[2]])
        /\ txNames' = Indexed(txNames, e)
  /\ cursor' = <<cursor[1], cursor[2] + 1>>
  /\ UNCHANGED <<client, outcome, batch, group, writing, phase, store, seen, faults, crashes>>

NextAppend ==
  /\ phase = "write"
  /\ cursor[1] < Len(writing) /\ cursor[2] > Len(Current)
  /\ cursor' = <<cursor[1] + 1, 1>>
  /\ UNCHANGED <<client, outcome, batch, group, writing, txEvents, txNames, phase,
                 store, seen, faults, crashes>>

\* The callers of rs are told o.
Tell(rs, o) ==
  outcome' = [r \in 1 .. Len(outcome) |->
                IF \E i \in 1 .. Len(rs) : rs[i] = r THEN o ELSE outcome[r]]

\* Dropping the transaction rolls it back.
Rollback == UNCHANGED store

\* A group falls through to the loop; a single append is refused.
RefuseAll == Tell(writing, "rejected") /\ UNCHANGED group
RetryAllButFirst ==
  IF Len(writing) > 1 THEN group' = Tail(writing) /\ UNCHANGED outcome
  ELSE Tell(writing, "rejected") /\ UNCHANGED group
RetryOrRefuse ==
  IF Len(writing) > 1 THEN group' = writing /\ UNCHANGED outcome
  ELSE Tell(writing, "rejected") /\ UNCHANGED group

\* An error of write() other than CommitUncertain.
Abort ==
  /\ phase' = "process"
  /\ writing' = <<>>
  /\ Rollback
  /\ RetryOrRefuse
  /\ UNCHANGED <<client, batch, cursor, txEvents, txNames, seen, crashes>>

\* A constraint of the table channels refuses the next event.
Conflict ==
  /\ phase = "write" /\ InsertDue
  /\ ~Accepts(txNames, Current[cursor[2]])
  /\ Abort
  /\ UNCHANGED faults

\* Any other error of SQLite before the commit.
Fail ==
  /\ phase = "write" /\ faults < MaxFaults
  /\ faults' = faults + 1
  /\ Abort

\* UPDATE channels SET last_seq, for the channels that the transaction wrote.
Wrote(c) == \E i \in Len(events) + 1 .. Len(txEvents) : txEvents[i].channel = c
UpdateKnown(c) == Wrote(c) /\ names[c] # NoName
UpdateDue(c) == Wrote(c) /\ txNames[c] # NoName

\* The tables as the transaction leaves them.
Committed ==
  /\ events' = txEvents
  /\ names' = txNames
  /\ lastSeq' = [c \in Channels |->
       IF UpdateDue(c) THEN LastSeq(txEvents, c) ELSE lastSeq[c]]

Inserted ==
  /\ phase = "write"
  /\ cursor[1] = Len(writing) /\ cursor[2] > Len(Current)

\* The callback comes before any acknowledgement.
AckFirst == phase' = "ack"
CallbackFirst == phase' = "deliver"

\* tx.commit() succeeds.
Commit ==
  /\ Inserted
  /\ Committed
  /\ CallbackFirst
  /\ UNCHANGED <<client, outcome, batch, group, tx, seen, faults, crashes>>

\* After a commit of unknown outcome the callers are told so, and nothing is
\* retried.
RefuseUncertain == Tell(writing, "rejected") /\ UNCHANGED group
TellUncertain == Tell(writing, "uncertain") /\ UNCHANGED group

\* tx.commit() fails: whether the tables changed is not known.
CommitUncertain ==
  /\ Inserted /\ faults < MaxFaults
  /\ faults' = faults + 1
  /\ Committed \/ UNCHANGED store
  /\ TellUncertain
  /\ phase' = "process"
  /\ writing' = <<>>
  /\ UNCHANGED <<client, batch, cursor, txEvents, txNames, seen, crashes>>

\* The rows that write() returned: the last ones of the table.
Numbered ==
  LET mine == {i \in 1 .. Len(events) : \E j \in 1 .. Len(writing) : writing[j] = events[i].req}
  IN SubSeq(events, Len(events) - Cardinality(mine) + 1, Len(events))

\* deliver(): the callback, before any acknowledgement.
Deliver ==
  /\ phase = "deliver"
  /\ delivered' = delivered \o Numbered
  /\ phase' = "ack"
  /\ UNCHANGED <<client, outcome, batch, group, tx, store, opened, barriers, faults, crashes>>

Acknowledge ==
  /\ phase = "ack"
  /\ Tell(writing, "ok")
  /\ writing' = <<>>
  /\ phase' = "process"
  /\ UNCHANGED <<client, batch, group, cursor, txEvents, txNames, store, seen, faults, crashes>>

\* A barrier runs its closure between two transactions.
RunBarrier ==
  /\ phase = "process" /\ GroupAnswered /\ batch # <<>>
  /\ request[Head(batch)].kind = "barrier"
  /\ barriers' = barriers \cup {[req |-> Head(batch), rows |-> Len(events),
                                 delivered |-> Len(delivered)]}
  /\ Tell(<<Head(batch)>>, "ok")
  /\ batch' = Tail(batch)
  /\ UNCHANGED <<client, group, tx, phase, store, delivered, opened, faults, crashes>>

\* The writer acknowledges the close and returns: what it still holds, and
\* the receiver with what is queued, are dropped and their callers fail.
Stop ==
  /\ phase = "process" /\ GroupAnswered /\ batch # <<>>
  /\ request[Head(batch)].kind = "close"
  /\ outcome' = [r \in 1 .. Len(outcome) |->
                   IF r = Head(batch) THEN "ok"
                   ELSE IF outcome[r] = "pending" THEN "lost" ELSE outcome[r]]
  /\ batch' = <<>> /\ queue' = <<>>
  /\ phase' = "stopped"
  /\ UNCHANGED <<request, sender, group, tx, store, seen, faults, crashes>>

\* The process ends at any point and the log is opened again.
Reopen ==
  /\ crashes < MaxCrashes
  /\ crashes' = crashes + 1
  /\ outcome' = [r \in 1 .. Len(outcome) |->
                   IF outcome[r] = "pending" THEN "lost" ELSE outcome[r]]
  /\ sender' = "open" /\ phase' = "process"
  /\ queue' = <<>> /\ batch' = <<>> /\ group' = <<>> /\ writing' = <<>>
  /\ delivered' = <<>> /\ opened' = Len(events)
  /\ UNCHANGED <<request, cursor, txEvents, txNames, store, barriers, faults>>

Writer ==
  \/ Drain \/ BeginGroup \/ BeginSingle \/ Insert \/ NextAppend \/ Conflict
  \/ Commit \/ Deliver \/ Acknowledge \/ RunBarrier \/ Stop

Next ==
  \/ \E es \in Payloads : Submit("append", es)
  \/ Submit("barrier", <<>>)
  \/ TakeSender \/ SendClose
  \/ Writer \/ Fail \/ CommitUncertain
  \/ Reopen

Spec == Init /\ [][Next]_vars

\* The writer thread runs while it has work, and so does the closing thread.
FairSpec == Spec /\ WF_vars(Writer) /\ WF_vars(SendClose)

-----------------------------------------------------------------------------
(* Properties                                                              *)

TypeOK ==
  /\ request \in Seq(Request) /\ Len(request) <= MaxRequests
  /\ outcome \in Seq(Outcomes) /\ Len(outcome) = Len(request)
  /\ sender \in {"open", "taken", "closed"}
  /\ queue \in Seq(1 .. Len(request)) /\ Len(queue) <= QueueCap
  /\ batch \in Seq(1 .. Len(request)) /\ Len(batch) <= BatchCap
  /\ group \in Seq(1 .. Len(request))
  /\ writing \in Seq(1 .. Len(request))
  /\ cursor \in (Nat \ {0}) \X (Nat \ {0})
  /\ txEvents \in Seq(Row) /\ txNames \in [Channels -> Names \cup {NoName}]
  /\ phase \in Phases
  /\ events \in Seq(Row)
  /\ names \in [Channels -> Names \cup {NoName}]
  /\ lastSeq \in [Channels -> Nat]
  /\ delivered \in Seq(Row) /\ opened \in 0 .. Len(events)
  /\ barriers \subseteq Barrier
  /\ faults \in 0 .. MaxFaults /\ crashes \in 0 .. MaxCrashes

\* The rows of a channel carry 1, 2, 3, ... in table order, whatever was
\* refused, failed or lost between them.
Gapless(rows) ==
  \A i \in 1 .. Len(rows) :
    /\ \A j \in 1 .. i - 1 :
         rows[j].channel = rows[i].channel => rows[j].seq < rows[i].seq
    /\ rows[i].seq = 1
       \/ \E j \in 1 .. i - 1 : rows[j].channel = rows[i].channel
                               /\ rows[j].seq + 1 = rows[i].seq

SequencesGapless == Gapless(events)

RowsOf(r) == {events[i].pos : i \in {j \in 1 .. Len(events) : events[j].req = r}}

\* What a caller is told is true: acknowledged events are in the table and
\* were handed to the callback first, refused ones are not in the table.
AnswersAreTrue ==
  \A r \in 1 .. Len(request) :
    /\ outcome[r] = "ok" => RowsOf(r) = 1 .. Len(request[r].events)
    /\ outcome[r] = "rejected" => RowsOf(r) = {}

\* A barrier separates: its closure sees every row of the appends submitted
\* before it and none submitted after it, and the
\* callback has run for all of them (OrderedLog).
BarrierSeparates ==
  \A b \in barriers : \A i \in 1 .. Len(events) :
    events[i].req < b.req <=> i <= b.rows

\* The column last_seq agrees with the table for every channel with a row.
LastSeqAgrees ==
  \A c \in Channels : names[c] # NoName => lastSeq[c] = LastSeq(events, c)

\* What the journal tells its callers, its barriers and its summary column.
ReportsAreTrue == AnswersAreTrue /\ BarrierSeparates /\ LastSeqAgrees

\* close() loses nothing: while its request waits nothing is submitted behind
\* it, so the writer never drops a request that a caller is waiting for.
CloseIsLast ==
  \A r \in 1 .. Len(request) :
    request[r].kind = "close" /\ outcome[r] = "pending" => r = Len(request)

\* What is in the journal is whole, and its end is final.
LogIsSound == SequencesGapless /\ CloseIsLast

\* Without failures of SQLite an append is refused only for a name or id that
\* the table holds, or that it uses twice itself: never because of the appends
\* it shared a group with.
Clash(es) ==
  \E i \in 1 .. Len(es) :
    \/ ~Accepts(names, es[i])
    \/ \E j \in 1 .. i - 1 : es[j].kind # "other" /\ es[i].kind # "other"
RefusedForItself ==
  [][\A r \in 1 .. Len(outcome) :
       outcome[r] = "pending" /\ outcome'[r] = "rejected" /\ faults' = faults
         => Clash(request[r].events)]_vars

Waiting(r) == r \in 1 .. Len(outcome) /\ outcome[r] = "pending"

\* Every accepted request is answered, the close included.
Answered == \A r \in Requests : Waiting(r) ~> ~Waiting(r)

\* The journal is the ordered log its clients rely on: it writes, tells and
\* publishes nothing but what OrderedLog allows.
Told(o) == IF o \in {"pending", "ok"} THEN o ELSE "error"
Asked == [r \in 1 .. Len(request) |->
            [i \in 1 .. Len(request[r].events) |-> request[r].events[i].channel]]
ToldEach == [r \in 1 .. Len(outcome) |-> Told(outcome[r])]
Published == {delivered[i] : i \in 1 .. Len(delivered)}
Promise == INSTANCE OrderedLog WITH
  asked <- Asked, told <- ToldEach, log <- events, published <- Published
ImplementsOrderedLog == Promise!Spec
=============================================================================

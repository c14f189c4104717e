--------------------------- MODULE EventLogProofs ---------------------------
(***************************************************************************)
(* Theorems about the journal of src/eventlog.rs for every value of the    *)
(* constants.  Its state is well-typed; the rows of each channel are       *)
(* numbered 1, 2, 3, ... without a gap; close() is the last request; what  *)
(* it reports is true; and it keeps what it promises (OrderedLog):         *)
(* whatever it batches, retries, loses and restarts, requests enter the    *)
(* table whole, once and in the order in which they were submitted.        *)
(***************************************************************************)
EXTENDS EventLog, TLAPS, SequenceTheorems, FiniteSetTheorems, NaturalsInduction

-----------------------------------------------------------------------------
(* Operators on tables                                                     *)

\* A nonempty set of naturals below n has a greatest element.
LEMMA Greatest ==
  ASSUME NEW n \in Nat, NEW J \in SUBSET (0 .. n), J # {}
  PROVE  \E m \in J : \A j \in J : j <= m
<1> DEFINE Below == {n - j : j \in J}
           R == OpToRel(<, Nat)
<1>1. Below \subseteq Nat /\ Below # {}
  <2>1. \A j \in J : j \in Nat /\ n - j \in Nat
    OBVIOUS
  <2> QED
    BY <2>1
<1>2. \E x \in Below : \A y \in Below : ~(<<y, x>> \in R)
  <2>1. IsWellFoundedOn(R, Nat)
    BY NatLessThanWellFounded
  <2> HIDE DEF R, Below
  <2> QED
    BY <1>1, <2>1, WFMin
<1>3. PICK x \in Below : \A y \in Below : ~(y < x)
  BY <1>1, <1>2 DEF OpToRel
<1> QED
  BY <1>3

\* What LastSeq returns for a gapless table: the greatest number of the
\* channel, 0 when it has no row.
LEMMA LastSeqIsLast ==
  ASSUME NEW rows \in Seq(Row), Gapless(rows), NEW c \in Channels
  PROVE  /\ LastSeq(rows, c) \in Nat
         /\ \A i \in 1 .. Len(rows) :
              rows[i].channel = c => rows[i].seq <= LastSeq(rows, c)
         /\ LastSeq(rows, c) # 0 =>
              \E i \in 1 .. Len(rows) : rows[i].channel = c /\ rows[i].seq = LastSeq(rows, c)
<1> DEFINE J == {j \in 1 .. Len(rows) : rows[j].channel = c}
           seqs == {rows[i].seq : i \in J}
<1>0. \A i \in 1 .. Len(rows) : rows[i].seq \in Nat \ {0}
  <2>1. \A i \in 1 .. Len(rows) : rows[i] \in Row
    BY ElementOfSeq
  <2> QED
    BY <2>1 DEF Row
<1>1. CASE J = {}
  BY <1>1 DEF LastSeq
<1>2. CASE J # {}
  <2>1. PICK k \in J : \A j \in J : j <= k
    <3>1. Len(rows) \in Nat /\ J \in SUBSET (0 .. Len(rows))
      BY LenProperties
    <3> HIDE DEF J
    <3> QED
      BY <1>2, <3>1, Greatest
  <2>2. \A n \in seqs : n <= rows[k].seq
    <3>1. \A j \in J : rows[j].seq <= rows[k].seq
      <4>1. \A j \in J : j = k \/ j \in 1 .. k - 1
        BY <2>1, LenProperties
      <4>2. rows[k].seq \in Nat
        BY <1>0
      <4> QED
        BY SMTT(30), <4>1, <4>2, <1>0 DEF Gapless
    <3> HIDE DEF J
    <3> QED
      BY <3>1
  <2>3. LastSeq(rows, c) = CHOOSE m \in seqs : \A n \in seqs : n <= m
    <3>1. seqs # {}
      BY <1>2
    <3> QED
      BY <3>1 DEF LastSeq
  <2>4. LastSeq(rows, c) \in seqs /\ \A n \in seqs : n <= LastSeq(rows, c)
    <3>1. rows[k].seq \in seqs
      BY <2>1
    <3> HIDE DEF seqs
    <3> QED
      BY <2>2, <2>3, <3>1
  <2> QED
    BY <1>0, <2>4
<1> QED
  BY <1>1, <1>2

\* The next number keeps a table gapless.
LEMMA GaplessAppend ==
  ASSUME NEW rows \in Seq(Row), Gapless(rows), NEW row \in Row,
         row.seq = LastSeq(rows, row.channel) + 1
  PROVE  Gapless(Append(rows, row))
<1> DEFINE l == Append(rows, row)
<1>1. /\ l \in Seq(Row) /\ Len(l) = Len(rows) + 1 /\ Len(rows) \in Nat
      /\ \A i \in 1 .. Len(rows) : l[i] = rows[i]
      /\ l[Len(rows) + 1] = row
  BY AppendProperties, LenProperties
<1>2. /\ LastSeq(rows, row.channel) \in Nat
      /\ \A i \in 1 .. Len(rows) :
           rows[i].channel = row.channel => rows[i].seq <= LastSeq(rows, row.channel)
      /\ LastSeq(rows, row.channel) # 0 =>
           \E i \in 1 .. Len(rows) : rows[i].channel = row.channel
                                    /\ rows[i].seq = LastSeq(rows, row.channel)
  <2>1. row.channel \in Channels
    BY DEF Row
  <2> QED
    BY <2>1, LastSeqIsLast
<1>3. \A i \in 1 .. Len(rows) : rows[i].seq \in Nat
  <2>1. \A i \in 1 .. Len(rows) : rows[i] \in Row
    BY ElementOfSeq
  <2> QED
    BY <2>1 DEF Row
<1> SUFFICES ASSUME NEW i \in 1 .. Len(l)
             PROVE  /\ \A j \in 1 .. i - 1 : l[j].channel = l[i].channel => l[j].seq < l[i].seq
                    /\ l[i].seq = 1
                       \/ \E j \in 1 .. i - 1 : l[j].channel = l[i].channel
                                               /\ l[j].seq + 1 = l[i].seq
  BY DEF Gapless
<1> HIDE DEF l
<1>4. CASE i \in 1 .. Len(rows)
  <2>1. \A j \in 1 .. i : j \in 1 .. Len(rows) /\ l[j] = rows[j]
    BY <1>1, <1>4
  <2>2. /\ \A j \in 1 .. i - 1 : rows[j].channel = rows[i].channel => rows[j].seq < rows[i].seq
        /\ rows[i].seq = 1
           \/ \E j \in 1 .. i - 1 : rows[j].channel = rows[i].channel
                                   /\ rows[j].seq + 1 = rows[i].seq
    BY <1>4 DEF Gapless
  <2>3. \A j \in 1 .. i - 1 : j \in 1 .. i
    BY <1>1, <1>4
  <2> QED
    BY <2>1, <2>2, <2>3, <1>4
<1>5. CASE i = Len(rows) + 1
  BY SMTT(30), <1>1, <1>2, <1>3, <1>5
<1> QED
  BY <1>1, <1>4, <1>5

\* Cutting a sequence in two.
LEMMA CutType ==
  ASSUME NEW S, NEW s \in Seq(S), NEW n \in 0 .. Len(s)
  PROVE  /\ SubSeq(s, 1, n) \in Seq(S) /\ Len(SubSeq(s, 1, n)) = n
         /\ SubSeq(s, n + 1, Len(s)) \in Seq(S)
         /\ Len(SubSeq(s, n + 1, Len(s))) = Len(s) - n
<1>1. Len(s) \in Nat /\ n \in Nat /\ n <= Len(s)
  BY LenProperties
<1>2. \A i \in 1 .. Len(s) : s[i] \in S
  BY ElementOfSeq
<1>3. SubSeq(s, 1, n) \in Seq(S) /\ Len(SubSeq(s, 1, n)) = n
  <2>1. \A i \in 1 .. n : s[i] \in S
    BY <1>1, <1>2
  <2>2. /\ SubSeq(s, 1, n) \in Seq(S)
        /\ Len(SubSeq(s, 1, n)) = IF 1 <= n THEN n - 1 + 1 ELSE 0
    BY <1>1, <2>1, SubSeqProperties
  <2> QED
    BY <1>1, <2>2
<1>4. SubSeq(s, n + 1, Len(s)) \in Seq(S) /\ Len(SubSeq(s, n + 1, Len(s))) = Len(s) - n
  <2>1. \A i \in n + 1 .. Len(s) : s[i] \in S
    BY <1>1, <1>2
  <2>2. n + 1 \in Int /\ Len(s) \in Int
    BY <1>1
  <2>3. /\ SubSeq(s, n + 1, Len(s)) \in Seq(S)
        /\ Len(SubSeq(s, n + 1, Len(s))) =
             IF n + 1 <= Len(s) THEN Len(s) - (n + 1) + 1 ELSE 0
    BY <2>1, <2>2, SubSeqProperties
  <2> QED
    BY <1>1, <2>3
<1> QED
  BY <1>3, <1>4

-----------------------------------------------------------------------------
(* Type correctness and gapless numbering, by one inductive invariant: the *)
(* number that Insert gives is a number only because the table that the    *)
(* transaction sees is gapless, so the two are proved together.            *)

GaplessInv ==
  /\ TypeOK
  /\ Gapless(events) /\ Gapless(txEvents)
  /\ phase = "write" => Len(events) <= Len(txEvents)

LEMMA InitGaplessInv == Init => GaplessInv
<1> SUFFICES ASSUME Init PROVE GaplessInv
  OBVIOUS
<1>1. Gapless(events) /\ Gapless(txEvents) /\ phase # "write"
  BY DEF Init, Gapless
<1>2. TypeOK
  BY BoundsAssumption DEF Init, TypeOK, Phases
<1> QED
  BY <1>1, <1>2 DEF GaplessInv

\* What a submission does to the variables of the callers.
LEMMA SubmissionType ==
  ASSUME TypeOK, NEW kind \in Kinds, NEW es \in Payloads \cup {<<>>},
         NextRequest \in Requests, Len(queue) < QueueCap,
         Submitted(kind, es),
         outcome' = Append(outcome, "pending"),
         queue' = Append(queue, NextRequest)
  PROVE  /\ request' \in Seq(Request) /\ Len(request') <= MaxRequests
         /\ Len(request') = Len(request) + 1
         /\ outcome' \in Seq(Outcomes) /\ Len(outcome') = Len(request')
         /\ queue' \in Seq(1 .. Len(request')) /\ Len(queue') <= QueueCap
         /\ \A s \in Seq(1 .. Len(request)) : s \in Seq(1 .. Len(request'))
<1>1. Len(request) \in Nat /\ Len(queue) \in Nat
  BY LenProperties DEF TypeOK
<1>2. [kind |-> kind, events |-> es] \in Request
  BY DEF Request
<1>3. /\ request' \in Seq(Request) /\ Len(request') = Len(request) + 1
  BY <1>2, AppendProperties DEF Submitted, TypeOK
<1>4. outcome' \in Seq(Outcomes) /\ Len(outcome') = Len(outcome) + 1
  <2>1. "pending" \in Outcomes /\ outcome \in Seq(Outcomes)
    BY DEF Outcomes, TypeOK
  <2> QED
    BY <2>1, AppendProperties
<1>5. \A s \in Seq(1 .. Len(request)) : s \in Seq(1 .. Len(request'))
  <2>1. 1 .. Len(request) \subseteq 1 .. Len(request')
    BY <1>1, <1>3
  <2> QED
    BY <2>1, SeqMonotonic
<1>6. queue' \in Seq(1 .. Len(request')) /\ Len(queue') = Len(queue) + 1
  <2>1. queue \in Seq(1 .. Len(request')) /\ NextRequest \in 1 .. Len(request')
    BY <1>1, <1>3, <1>5 DEF TypeOK, NextRequest
  <2> QED
    BY <2>1, AppendProperties
<1> QED
  BY <1>1, <1>3, <1>4, <1>5, <1>6, BoundsAssumption DEF TypeOK, NextRequest, Requests

\* Answers keep the type of outcome.
LEMMA TellType ==
  ASSUME TypeOK, NEW rs, NEW o \in Outcomes, Tell(rs, o)
  PROVE  outcome' \in Seq(Outcomes) /\ Len(outcome') = Len(outcome)
<1>1. Len(outcome) \in Nat /\ \A r \in 1 .. Len(outcome) : outcome[r] \in Outcomes
  BY LenProperties, ElementOfSeq DEF TypeOK
<1> QED
  BY <1>1 DEF Tell

\* The event that Insert writes is one that a caller asked for.
LEMMA CurrentType ==
  ASSUME TypeOK, InsertDue
  PROVE  /\ writing[cursor[1]] \in Requests
         /\ Current \in Seq(Event) /\ Current[cursor[2]] \in Event
<1>1. writing[cursor[1]] \in 1 .. Len(request)
  BY ElementOfSeq DEF TypeOK, InsertDue
<1>2. request[writing[cursor[1]]] \in Request
  BY <1>1, ElementOfSeq DEF TypeOK
<1>3. Current \in Seq(Event)
  <2>1. Current \in Payloads \cup {<<>>}
    BY <1>2 DEF Current, Request
  <2> QED
    BY <2>1, PayloadsAssumption, EmptySeq
<1>4. Current[cursor[2]] \in Event
  BY <1>3, ElementOfSeq DEF InsertDue
<1>5. writing[cursor[1]] \in Requests
  BY SMTT(30), <1>1, LenProperties, BoundsAssumption DEF TypeOK, Requests
<1> QED
  BY <1>3, <1>4, <1>5

\* Every step of the callers and of the writer keeps the invariant.
LEMMA NextGaplessInv == GaplessInv /\ [Next]_vars => GaplessInv'
<1> SUFFICES ASSUME GaplessInv, [Next]_vars PROVE GaplessInv'
  OBVIOUS
<1> USE DEF GaplessInv
<1>1. ASSUME NEW kind \in Kinds, NEW es \in Payloads \cup {<<>>}, Submit(kind, es)
      PROVE  GaplessInv'
  <2>1. /\ request' \in Seq(Request) /\ Len(request') <= MaxRequests
        /\ Len(request') = Len(request) + 1
        /\ outcome' \in Seq(Outcomes) /\ Len(outcome') = Len(request')
        /\ queue' \in Seq(1 .. Len(request')) /\ Len(queue') <= QueueCap
        /\ \A s \in Seq(1 .. Len(request)) : s \in Seq(1 .. Len(request'))
    BY <1>1, SubmissionType DEF Submit, Room
  <2>2. TypeOK'
    BY <1>1, <2>1 DEF TypeOK, Submit, tx, store, seen
  <2> QED
    BY <1>1, <2>2 DEF Submit, tx, store, Gapless
<1>2. CASE TakeSender
  BY <1>2 DEF TakeSender, TypeOK, tx, store, seen, Gapless
<1>3. CASE SendClose
  <2>1. /\ request' \in Seq(Request) /\ Len(request') <= MaxRequests
        /\ Len(request') = Len(request) + 1
        /\ outcome' \in Seq(Outcomes) /\ Len(outcome') = Len(request')
        /\ queue' \in Seq(1 .. Len(request')) /\ Len(queue') <= QueueCap
        /\ \A s \in Seq(1 .. Len(request)) : s \in Seq(1 .. Len(request'))
    <3>1. "close" \in Kinds /\ <<>> \in Payloads \cup {<<>>}
      BY DEF Kinds
    <3> QED
      BY <1>3, <3>1, SubmissionType DEF SendClose, Room
  <2>2. TypeOK'
    BY <1>3, <2>1 DEF TypeOK, SendClose, tx, store, seen
  <2> QED
    BY <1>3, <2>2 DEF SendClose, tx, store, Gapless
<1>4. CASE Drain
  <2> DEFINE n == IF Len(queue) < BatchCap THEN Len(queue) ELSE BatchCap
  <2>1. Len(queue) \in Nat /\ n \in 0 .. Len(queue) /\ n <= BatchCap
    BY LenProperties, BoundsAssumption DEF TypeOK
  <2>2. batch' = SubSeq(queue, 1, n) /\ queue' = SubSeq(queue, n + 1, Len(queue))
    BY <1>4 DEF Drain
  <2>3. queue \in Seq(1 .. Len(request)) /\ Len(queue) <= QueueCap
    BY DEF TypeOK
  <2> HIDE DEF n
  <2>4. /\ batch' \in Seq(1 .. Len(request)) /\ Len(batch') = n
        /\ queue' \in Seq(1 .. Len(request)) /\ Len(queue') = Len(queue) - n
    BY SMTT(30), <2>1, <2>2, <2>3, CutType
  <2>5. Len(batch') <= BatchCap /\ Len(queue') <= QueueCap
    BY <2>1, <2>3, <2>4, BoundsAssumption
  <2> QED
    BY <1>4, <2>4, <2>5 DEF TypeOK, Drain, tx, store, seen, Gapless
<1>a. ASSUME NEW rs \in Seq(1 .. Len(request)), Begin(rs)
      PROVE  /\ writing' \in Seq(1 .. Len(request))
             /\ cursor' \in (Nat \ {0}) \X (Nat \ {0})
             /\ txEvents' \in Seq(Row) /\ txNames' \in [Channels -> Names \cup {NoName}]
             /\ phase' \in Phases
             /\ Gapless(txEvents') /\ Len(events) <= Len(txEvents')
  <2>1. Len(events) \in Nat
    BY LenProperties DEF TypeOK
  <2> QED
    <3>1. writing' \in Seq(1 .. Len(request)) /\ phase' \in Phases
      BY <1>a DEF Begin, Phases
    <3>2. cursor' \in (Nat \ {0}) \X (Nat \ {0})
      BY <1>a DEF Begin
    <3>3. txEvents' = events /\ txNames' = names
      BY <1>a DEF Begin
    <3> QED
      BY <2>1, <3>1, <3>2, <3>3 DEF TypeOK
<1>5. CASE BeginGroup
  <2>1. PICK n \in 1 .. Len(batch) :
          Begin(SubSeq(batch, 1, n)) /\ batch' = SubSeq(batch, n + 1, Len(batch))
    BY <1>5 DEF BeginGroup
  <2>2. /\ batch \in Seq(1 .. Len(request)) /\ Len(batch) <= BatchCap
        /\ Len(batch) \in Nat /\ n \in 0 .. Len(batch)
    BY LenProperties DEF TypeOK
  <2>3. /\ SubSeq(batch, 1, n) \in Seq(1 .. Len(request))
        /\ batch' \in Seq(1 .. Len(request)) /\ Len(batch') = Len(batch) - n
    BY <2>1, <2>2, CutType
  <2>4. Len(batch') <= BatchCap
    BY <2>2, <2>3, BoundsAssumption
  <2> QED
    BY <1>5, <1>a, <2>1, <2>3, <2>4 DEF TypeOK, BeginGroup, client, store, seen, Gapless
<1>6. CASE BeginSingle
  <2>1. /\ Head(group) \in 1 .. Len(request) /\ Tail(group) \in Seq(1 .. Len(request))
    BY <1>6, HeadTailProperties DEF BeginSingle, TypeOK
  <2>2. <<Head(group)>> \in Seq(1 .. Len(request))
    BY <2>1
  <2> QED
    BY <1>6, <1>a, <2>1, <2>2 DEF TypeOK, BeginSingle, client, store, seen, Gapless
<1>7. CASE Insert
  <2> DEFINE e == Current[cursor[2]]
             row == [channel |-> e.channel, seq |-> NextSeq(e.channel),
                     req |-> writing[cursor[1]], pos |-> cursor[2]]
  <2>1. writing[cursor[1]] \in Requests /\ e \in Event
    BY <1>7, CurrentType DEF Insert
  <2>2. e.channel \in Channels /\ e.name \in Names \cup {NoName}
    BY <2>1 DEF Event
  <2>3. NextSeq(e.channel) \in Nat \ {0}
    <3>1. LastSeq(txEvents, e.channel) \in Nat
      BY <2>2, LastSeqIsLast DEF TypeOK
    <3> QED
      BY <3>1 DEF NextSeq
  <2>4. row \in Row
    BY <2>1, <2>2, <2>3 DEF Row, TypeOK
  <2>5. txEvents' = Append(txEvents, row)
    BY <1>7 DEF Insert
  <2>6. txEvents' \in Seq(Row)
    BY <2>4, <2>5, AppendProperties DEF TypeOK
  <2>7. Gapless(txEvents')
    <3>1. row.seq = LastSeq(txEvents, row.channel) + 1
      BY DEF NextSeq
    <3> HIDE DEF row
    <3> QED
      BY <2>4, <2>5, <3>1, GaplessAppend DEF TypeOK
  <2>8. txNames' \in [Channels -> Names \cup {NoName}]
    BY <1>7, <2>2 DEF Insert, Indexed, TypeOK
  <2>9. cursor' \in (Nat \ {0}) \X (Nat \ {0})
    <3>1. cursor[1] \in Nat \ {0} /\ cursor[2] \in Nat \ {0}
      BY DEF TypeOK
    <3>2. cursor[2] + 1 \in Nat \ {0}
      BY <3>1
    <3> QED
      BY <1>7, <3>1, <3>2 DEF Insert
  <2>10. Len(events) <= Len(txEvents')
    BY <1>7, <2>4, <2>5, AppendProperties, LenProperties DEF Insert, TypeOK
  <2> QED
    BY <1>7, <2>6, <2>7, <2>8, <2>9, <2>10 DEF TypeOK, Insert, client, store, seen, Gapless
<1>8. CASE NextAppend
  <2>1. cursor[1] \in Nat \ {0}
    BY DEF TypeOK
  <2>2. cursor[1] + 1 \in Nat \ {0}
    BY <2>1
  <2>3. cursor' \in (Nat \ {0}) \X (Nat \ {0})
    BY <1>8, <2>2 DEF NextAppend
  <2> QED
    BY <1>8, <2>3 DEF TypeOK, NextAppend, client, store, seen, Gapless
<1>9. ASSUME Abort, faults' \in 0 .. MaxFaults PROVE GaplessInv'
  <2>1. outcome' \in Seq(Outcomes) /\ Len(outcome') = Len(outcome)
    <3>1. "rejected" \in Outcomes
      BY DEF Outcomes
    <3> QED
      BY <1>9, <3>1, TellType DEF Abort, RetryOrRefuse, TypeOK
  <2>2. group' \in Seq(1 .. Len(request))
    BY <1>9 DEF Abort, RetryOrRefuse, TypeOK
  <2> QED
    BY <1>9, <2>1, <2>2, EmptySeq DEF TypeOK, Abort, Rollback, client, store, seen, Phases, Gapless
<1>10. CASE Conflict
  BY <1>9, <1>10 DEF Conflict, TypeOK
<1>11. CASE Fail
  <2>1. faults' \in 0 .. MaxFaults
    BY <1>11, BoundsAssumption DEF Fail, TypeOK
  <2> QED
    BY <1>9, <1>11, <2>1 DEF Fail
<1>12. ASSUME Inserted, Committed
       PROVE  /\ events' \in Seq(Row) /\ Gapless(events') /\ opened \in 0 .. Len(events')
              /\ names' \in [Channels -> Names \cup {NoName}]
              /\ lastSeq' \in [Channels -> Nat]
  <2>1. \A c \in Channels : LastSeq(txEvents, c) \in Nat
    BY LastSeqIsLast DEF TypeOK
  <2>2. opened \in 0 .. Len(txEvents)
    BY <1>12, LenProperties DEF Inserted, TypeOK
  <2> QED
    BY <1>12, <2>1, <2>2 DEF Committed, TypeOK
<1>13. CASE Commit
  BY <1>12, <1>13 DEF TypeOK, Commit, CallbackFirst, client, tx, seen, Phases, Gapless
<1>14. CASE CommitUncertain
  <2>1. outcome' \in Seq(Outcomes) /\ Len(outcome') = Len(outcome)
    <3>1. "uncertain" \in Outcomes
      BY DEF Outcomes
    <3> QED
      BY <1>14, <3>1, TellType DEF CommitUncertain, TellUncertain
  <2>2. /\ events' \in Seq(Row) /\ Gapless(events') /\ opened \in 0 .. Len(events')
        /\ names' \in [Channels -> Names \cup {NoName}]
        /\ lastSeq' \in [Channels -> Nat]
    <3>1. CASE Committed
      BY <1>12, <1>14, <3>1 DEF CommitUncertain
    <3>2. CASE UNCHANGED store
      BY <3>2 DEF store, TypeOK, Gapless
    <3> QED
      BY <1>14, <3>1, <3>2 DEF CommitUncertain
  <2>3. faults' \in 0 .. MaxFaults
    BY <1>14, BoundsAssumption DEF CommitUncertain, TypeOK
  <2> QED
    BY <1>14, <2>1, <2>2, <2>3, EmptySeq
    DEF TypeOK, CommitUncertain, TellUncertain, client, seen, Phases, Gapless
<1>15. CASE Deliver
  <2>1. Numbered \in Seq(Row)
    <3> DEFINE mine == {i \in 1 .. Len(events) :
                          \E j \in 1 .. Len(writing) : writing[j] = events[i].req}
    <3>1. Len(events) \in Nat /\ \A i \in 1 .. Len(events) : events[i] \in Row
      BY LenProperties, ElementOfSeq DEF TypeOK
    <3>2. IsFiniteSet(1 .. Len(events)) /\ Cardinality(1 .. Len(events)) = Len(events)
      BY <3>1, FS_Interval
    <3>3. Cardinality(mine) \in Nat /\ Cardinality(mine) <= Len(events)
      <4>1. mine \in SUBSET (1 .. Len(events))
        OBVIOUS
      <4> HIDE DEF mine
      <4> QED
        BY <3>2, <4>1, FS_Subset, FS_CardinalityType
    <3> HIDE DEF mine
    <3>4. SubSeq(events, Len(events) - Cardinality(mine) + 1, Len(events)) \in Seq(Row)
      BY <3>1, <3>3, SubSeqProperties
    <3> QED
      BY <3>4 DEF Numbered, mine
  <2>2. delivered' \in Seq(Row)
    BY <1>15, <2>1, ConcatProperties DEF Deliver, TypeOK
  <2> QED
    BY <1>15, <2>2 DEF TypeOK, Deliver, client, tx, store, Phases, Gapless
<1>16. CASE Acknowledge
  <2>1. outcome' \in Seq(Outcomes) /\ Len(outcome') = Len(outcome)
    <3>1. "ok" \in Outcomes
      BY DEF Outcomes
    <3> QED
      BY <1>16, <3>1, TellType DEF Acknowledge
  <2> QED
    BY <1>16, <2>1, EmptySeq DEF TypeOK, Acknowledge, client, store, seen, Phases, Gapless
<1>17. CASE RunBarrier
  <2>1. outcome' \in Seq(Outcomes) /\ Len(outcome') = Len(outcome)
    <3>1. "ok" \in Outcomes
      BY DEF Outcomes
    <3> QED
      BY <1>17, <3>1, TellType DEF RunBarrier
  <2>2. /\ Head(batch) \in 1 .. Len(request) /\ batch' \in Seq(1 .. Len(request))
        /\ Len(batch') <= BatchCap
    <3>1. batch \in Seq(1 .. Len(request)) /\ batch # <<>> /\ batch' = Tail(batch)
      BY <1>17 DEF RunBarrier, TypeOK
    <3>2. /\ Head(batch) \in 1 .. Len(request) /\ batch' \in Seq(1 .. Len(request))
          /\ Len(batch') = Len(batch) - 1
      BY <3>1, HeadTailProperties
    <3>3. Len(batch) \in Nat /\ Len(batch) <= BatchCap
      BY LenProperties DEF TypeOK
    <3> QED
      BY <3>2, <3>3, BoundsAssumption
  <2>3. [req |-> Head(batch), rows |-> Len(events), delivered |-> Len(delivered)] \in Barrier
    <3>1. Head(batch) \in Requests
      BY SMTT(30), <2>2, LenProperties, BoundsAssumption DEF TypeOK, Requests
    <3> QED
      BY <3>1, LenProperties DEF Barrier, TypeOK
  <2> QED
    BY <1>17, <2>1, <2>2, <2>3 DEF TypeOK, RunBarrier, client, tx, store, Gapless
<1>18. /\ Len(outcome) \in Nat /\ \A r \in 1 .. Len(outcome) : outcome[r] \in Outcomes
       /\ "ok" \in Outcomes /\ "lost" \in Outcomes
  BY LenProperties, ElementOfSeq DEF TypeOK, Outcomes
<1>b. \A S : <<>> \in Seq(S) /\ Len(<<>>) = 0
  BY EmptySeq
<1>19. CASE Stop
  <2>1. outcome' \in Seq(Outcomes) /\ Len(outcome') = Len(outcome)
    BY <1>18, <1>19 DEF Stop
  <2>2. batch' = <<>> /\ queue' = <<>> /\ phase' \in Phases
    BY <1>19 DEF Stop, Phases
  <2>3. 0 <= BatchCap /\ 0 <= QueueCap
    BY BoundsAssumption
  <2> QED
    BY <1>b, <1>19, <2>1, <2>2, <2>3 DEF TypeOK, Stop, tx, store, seen, Gapless
<1>20. CASE Reopen
  <2>1. outcome' \in Seq(Outcomes) /\ Len(outcome') = Len(outcome)
    BY <1>18, <1>20 DEF Reopen
  <2>2. /\ batch' = <<>> /\ queue' = <<>> /\ group' = <<>> /\ writing' = <<>>
        /\ delivered' = <<>> /\ phase' \in Phases /\ phase' # "write"
    BY <1>20 DEF Reopen, Phases
  <2>3. 0 <= BatchCap /\ 0 <= QueueCap
    BY BoundsAssumption
  <2>4. opened' \in 0 .. Len(events')
    BY <1>20, LenProperties DEF Reopen, store, TypeOK
  <2>5. crashes' \in 0 .. MaxCrashes
    BY <1>20, BoundsAssumption DEF Reopen, TypeOK
  <2> QED
    BY <1>b, <1>20, <2>1, <2>2, <2>3, <2>4, <2>5 DEF TypeOK, Reopen, store, Gapless
<1>21. CASE UNCHANGED vars
  BY <1>21 DEF TypeOK, vars, client, tx, store, seen, Gapless
<1>22. \A es \in Payloads : Submit("append", es) => GaplessInv'
  BY <1>1 DEF Kinds
<1>23. Submit("barrier", <<>>) => GaplessInv'
  BY <1>1 DEF Kinds
<1> QED
  BY <1>2, <1>3, <1>4, <1>5, <1>6, <1>7, <1>8, <1>10, <1>11, <1>13, <1>14, <1>15, <1>16,
     <1>17, <1>19, <1>20, <1>21, <1>22, <1>23 DEF Next, Writer

\* The state of the journal is well-typed: its channel and batches stay within
\* their bounds and every row is one that a caller asked for.
THEOREM TypeCorrect == Spec => []TypeOK
<1>1. GaplessInv => TypeOK
  BY DEF GaplessInv
<1> QED
  BY <1>1, InitGaplessInv, NextGaplessInv, PTL DEF Spec

\* The rows of a channel are numbered without a gap, whatever groups are
\* refused, commits fail, and processes end.
THEOREM GaplessCorrect == Spec => []SequencesGapless
<1>1. GaplessInv => SequencesGapless
  BY DEF GaplessInv, SequencesGapless
<1> QED
  BY <1>1, InitGaplessInv, NextGaplessInv, PTL DEF Spec

-----------------------------------------------------------------------------
(* close(): while its request is pending the sender stays taken, which is  *)
(* what keeps every later submission out.                                  *)

PendingClose(r) == request[r].kind = "close" /\ outcome[r] = "pending"

CloseInv ==
  \A r \in 1 .. Len(request) : PendingClose(r) => r = Len(request) /\ sender = "closed"

\* Steps that submit nothing and leave a closed sender closed, and that turn
\* no answer back to pending, keep the invariant.
LEMMA NoSubmission ==
  ASSUME TypeOK, CloseInv, request' = request, sender = "closed" => sender' = "closed",
         \A r \in 1 .. Len(request) : outcome'[r] = "pending" => outcome[r] = "pending"
  PROVE  CloseInv'
BY DEF CloseInv, PendingClose

\* Answers are final: no answer is "pending".
LEMMA TellAnswers ==
  ASSUME TypeOK, NEW rs, NEW o, o # "pending", Tell(rs, o)
  PROVE  \A r \in 1 .. Len(request) : outcome'[r] = "pending" => outcome[r] = "pending"
<1>1. Len(outcome) = Len(request)
  BY DEF TypeOK
<1> QED
  BY <1>1 DEF Tell

LEMMA NextCloseInv == TypeOK /\ CloseInv /\ [Next]_vars => CloseInv'
<1> SUFFICES ASSUME TypeOK, CloseInv, [Next]_vars PROVE CloseInv'
  OBVIOUS
<1>a. Len(request) \in Nat /\ Len(outcome) = Len(request)
  BY LenProperties DEF TypeOK
<1>b. \A v : /\ Len(Append(request, v)) = Len(request) + 1
             /\ \A r \in 1 .. Len(request) : Append(request, v)[r] = request[r]
             /\ \A r \in 1 .. Len(request) : Append(outcome, v)[r] = outcome[r]
  BY <1>a DEF TypeOK
<1>1. ASSUME NEW kind \in Kinds \ {"close"}, NEW es, Submit(kind, es) PROVE CloseInv'
  <2>1. \A r \in 1 .. Len(request) : ~PendingClose(r)
    BY <1>1 DEF Submit, SenderOpen, CloseInv
  <2>2. request' = Append(request, [kind |-> kind, events |-> es])
    BY <1>1 DEF Submit, Submitted
  <2>3. outcome' = Append(outcome, "pending")
    BY <1>1 DEF Submit
  <2>4. request'[Len(request) + 1].kind # "close"
    BY <1>a, <2>2 DEF TypeOK
  <2> SUFFICES ASSUME NEW r \in 1 .. Len(request'), PendingClose(r)' PROVE FALSE
    BY DEF CloseInv
  <2>5. CASE r \in 1 .. Len(request)
    BY <1>b, <2>1, <2>2, <2>3, <2>5 DEF PendingClose
  <2>6. CASE r = Len(request) + 1
    BY <2>4, <2>6 DEF PendingClose
  <2> QED
    BY <1>a, <1>b, <2>2, <2>5, <2>6
<1>2. CASE TakeSender
  <2>1. \A r \in 1 .. Len(request) : ~PendingClose(r)
    BY <1>2 DEF TakeSender, CloseInv
  <2> QED
    BY <1>2, <2>1 DEF TakeSender, CloseInv, PendingClose
<1>3. CASE SendClose
  <2>1. \A r \in 1 .. Len(request) : ~PendingClose(r)
    BY <1>3 DEF SendClose, CloseInv
  <2>2. request' = Append(request, [kind |-> "close", events |-> <<>>])
        /\ outcome' = Append(outcome, "pending") /\ sender' = "closed"
    BY <1>3 DEF SendClose, Submitted
  <2>3. \A r \in 1 .. Len(request) : ~PendingClose(r)'
    BY <1>b, <2>1, <2>2 DEF PendingClose
  <2> QED
    BY <1>a, <1>b, <2>2, <2>3 DEF CloseInv
<1>4. CASE Drain \/ BeginGroup \/ BeginSingle \/ Insert \/ NextAppend \/ Commit \/ Deliver
  BY <1>4, NoSubmission DEF Drain, BeginGroup, BeginSingle, Insert, NextAppend, Commit, Deliver, client
<1>5. CASE Conflict \/ Fail
  <2>1. Abort
    BY <1>5 DEF Conflict, Fail
  <2>2. \A r \in 1 .. Len(request) : outcome'[r] = "pending" => outcome[r] = "pending"
    BY <2>1, TellAnswers DEF Abort, RetryOrRefuse
  <2> QED
    BY <2>1, <2>2, NoSubmission DEF Abort, client
<1>6. CASE CommitUncertain \/ Acknowledge \/ RunBarrier
  <2>1. \A r \in 1 .. Len(request) : outcome'[r] = "pending" => outcome[r] = "pending"
    BY <1>6, TellAnswers DEF CommitUncertain, TellUncertain, Acknowledge, RunBarrier
  <2> QED
    BY <1>6, <2>1, NoSubmission DEF CommitUncertain, Acknowledge, RunBarrier, client
<1>7. CASE Stop
  <2>1. \A r \in 1 .. Len(request) : outcome'[r] # "pending"
    BY <1>7, <1>a DEF Stop
  <2> QED
    BY <1>7, <2>1, NoSubmission DEF Stop
<1>8. CASE Reopen
  <2>1. \A r \in 1 .. Len(request) : outcome'[r] # "pending"
    BY <1>8, <1>a DEF Reopen
  <2> QED
    BY <1>8, <2>1 DEF Reopen, CloseInv, PendingClose
<1>9. CASE UNCHANGED vars
  BY <1>9 DEF vars, client, CloseInv, PendingClose
<1>10. /\ \A es \in Payloads : Submit("append", es) => CloseInv'
       /\ Submit("barrier", <<>>) => CloseInv'
  BY <1>1 DEF Kinds
<1> QED
  BY <1>2, <1>3, <1>4, <1>5, <1>6, <1>7, <1>8, <1>9, <1>10 DEF Next, Writer

\* Nothing is ever submitted behind a pending close: the writer, which returns
\* when it gets there, drops no request that a caller waits for.
THEOREM CloseCorrect == Spec => []CloseIsLast
<1>1. Init => CloseInv
  BY DEF Init, CloseInv, PendingClose
<1>2. CloseInv => CloseIsLast
  BY DEF CloseInv, CloseIsLast, PendingClose
<1> QED
  BY <1>1, <1>2, TypeCorrect, NextCloseInv, PTL DEF Spec

\* What is in the journal is whole, and its end is final.
THEOREM SoundCorrect == Spec => []LogIsSound
  BY GaplessCorrect, CloseCorrect, PTL DEF LogIsSound

-----------------------------------------------------------------------------
(* Requests in line: the invariant behind reports and the refinement       *)

Held(s, r) == \E i \in 1 .. Len(s) : s[i] = r
Sorted(s) == \A i, j \in 1 .. Len(s) : i < j => s[i] < s[j]
Before(s, t) == \A a, b \in Requests : Held(s, a) /\ Held(t, b) => a < b

IsPending(r) == r \in 1 .. Len(request) /\ outcome[r] = "pending"

\* Requests wait in the order of their submission, each in one place: in the
\* transaction, in a refused group, in the batch, in the channel.
Line(w, g, b, q) ==
  /\ Sorted(w) /\ Sorted(g) /\ Sorted(b) /\ Sorted(q)
  /\ Before(w, g) /\ Before(w, b) /\ Before(w, q)
  /\ Before(g, b) /\ Before(g, q) /\ Before(b, q)
InLine ==
  /\ Line(writing, group, batch, queue)
  /\ \A r \in 1 .. Len(request) :
       IsPending(r) <=> Held(writing, r) \/ Held(group, r) \/ Held(batch, r) \/ Held(queue, r)
  /\ writing = <<>> <=> phase \in {"process", "stopped"}
  /\ Len(writing) > 1 => group = <<>>
  /\ \A r \in 1 .. Len(request) : request[r].kind # "append" => request[r].events = <<>>

\* The rows l are events of requests, in the order of their submission.
RowsMatch(l) ==
  \A i \in 1 .. Len(l) :
    /\ l[i].req \in 1 .. Len(request)
    /\ l[i].pos \in 1 .. Len(request[l[i].req].events)
    /\ l[i].channel = request[l[i].req].events[l[i].pos].channel
RowsOrdered(l) ==
  \A i, j \in 1 .. Len(l) :
    i < j => l[i].req < l[j].req \/ (l[i].req = l[j].req /\ l[i].pos < l[j].pos)
Has(l, r, p) == \E i \in 1 .. Len(l) : l[i].req = r /\ l[i].pos = p
Entire(l, r) == \A p \in 1 .. Len(request[r].events) : Has(l, r, p)

Written == phase \in {"deliver", "ack"}

\* Requests are in the table whole, those that wait behind those that do not.
Occurs(l, r) == \E i \in 1 .. Len(l) : l[i].req = r
Ahead(r) == \A q \in 1 .. Len(request) : IsPending(q) => r < q
TableSound ==
  /\ RowsMatch(events) /\ RowsOrdered(events)
  /\ \A r \in 1 .. Len(request) :
       /\ Occurs(events, r) =>
            /\ Entire(events, r)
            /\ outcome[r] # "rejected"
            /\ Ahead(r) \/ (Written /\ Held(writing, r))
       /\ (Written /\ Held(writing, r)) \/ outcome[r] = "ok" => Entire(events, r)

\* The transaction has added the events of its appends up to the cursor.
TxSound ==
  /\ Len(events) <= Len(txEvents)
  /\ \A i \in 1 .. Len(events) : txEvents[i] = events[i]
  /\ RowsMatch(txEvents) /\ RowsOrdered(txEvents)
  /\ cursor[1] \in 1 .. Len(writing) /\ cursor[2] \in 1 .. Len(Current) + 1
  /\ \A i \in Len(events) + 1 .. Len(txEvents) : \E k \in 1 .. cursor[1] :
       /\ txEvents[i].req = writing[k]
       /\ k = cursor[1] => txEvents[i].pos < cursor[2]
  /\ \A k \in 1 .. cursor[1] : \A p \in 1 .. Len(request[writing[k]].events) :
       k < cursor[1] \/ p < cursor[2] => Has(txEvents, writing[k], p)
  /\ \A c \in Channels : ~ Wrote(c) => txNames[c] = names[c]

\* A barrier is behind every row it saw and before whatever waits.
BarriersSound ==
  \A b \in barriers :
    /\ b.req \in 1 .. Len(request) /\ b.rows <= Len(events)
    /\ \A r \in 1 .. Len(request) : IsPending(r) => b.req < r
    /\ \A i \in 1 .. Len(events) : events[i].req < b.req <=> i <= b.rows

\* The callback gets the rows of the table, those of a transaction at once.
DeliveredSound ==
  /\ \A i \in 1 .. Len(delivered) : \E j \in 1 .. Len(events) :
       /\ delivered[i] = events[j]
       /\ phase = "deliver" => ~ Held(writing, events[j].req)
  /\ phase = "ack" => \A j \in 1 .. Len(events) :
       Held(writing, events[j].req) => \E i \in 1 .. Len(delivered) : delivered[i] = events[j]

RInv ==
  /\ InLine /\ TableSound /\ (phase = "write" => TxSound)
  /\ BarriersSound /\ DeliveredSound /\ LastSeqAgrees

-----------------------------------------------------------------------------
(* Requests in line                                                        *)

LEMMA LineType ==
  ASSUME TypeOK
  PROVE  /\ Len(request) \in Nat /\ 1 .. Len(request) \subseteq Requests
         /\ Len(outcome) = Len(request)
         /\ request \in Seq(Request)
         /\ writing \in Seq(1 .. Len(request)) /\ group \in Seq(1 .. Len(request))
         /\ batch \in Seq(1 .. Len(request)) /\ queue \in Seq(1 .. Len(request))
BY SMTT(30), LenProperties, BoundsAssumption DEF TypeOK, Requests

LEMMA HeldType ==
  ASSUME NEW S, NEW s \in Seq(S), NEW r, Held(s, r)
  PROVE  r \in S
BY ElementOfSeq DEF Held

LEMMA EmptyHolds ==
  \A r : ~ Held(<<>>, r)
BY EmptySeq DEF Held

LEMMA AppendHolds ==
  ASSUME NEW S, NEW s \in Seq(S), NEW v \in S
  PROVE  \A r : Held(Append(s, v), r) <=> Held(s, r) \/ r = v
<1> DEFINE t == Append(s, v)
<1>1. /\ Len(t) = Len(s) + 1 /\ Len(s) \in Nat
      /\ \A i \in 1 .. Len(s) : t[i] = s[i]
      /\ t[Len(s) + 1] = v
  BY AppendProperties, LenProperties
<1> HIDE DEF t
<1>2. \A i \in 1 .. Len(t) : i \in 1 .. Len(s) \/ i = Len(s) + 1
  BY <1>1
<1>3. \A r : Held(t, r) <=> Held(s, r) \/ r = v
  BY <1>1, <1>2 DEF Held
<1> QED
  BY <1>3 DEF t

\* A sorted sequence of requests, cut in two.
CutAt(s, n, f, l) == f = SubSeq(s, 1, n) /\ l = SubSeq(s, n + 1, Len(s))

LEMMA CutLine ==
  ASSUME NEW s \in Seq(Requests), NEW n \in 0 .. Len(s), Sorted(s), NEW f, NEW l,
         CutAt(s, n, f, l)
  PROVE  /\ Sorted(f) /\ Sorted(l) /\ Before(f, l)
         /\ \A r : Held(s, r) <=> Held(f, r) \/ Held(l, r)
         /\ Len(f) = n
         /\ \A i \in 1 .. n : f[i] = s[i]
<1>1. Len(s) \in Nat /\ n \in Nat /\ n <= Len(s)
  BY LenProperties
<1>2. f \in Seq(Requests) /\ Len(f) = n /\ l \in Seq(Requests) /\ Len(l) = Len(s) - n
  BY CutType DEF CutAt
<1>3. \A i \in 1 .. n : f[i] = s[i]
  BY SMTT(30), <1>1, <1>2 DEF SubSeq, CutAt
<1>4. \A i \in 1 .. Len(s) - n : l[i] = s[n + i]
  <2>1. l = [i \in 1 .. Len(s) - (n + 1) + 1 |-> s[n + 1 + i - 1]]
    BY SMTT(30) DEF SubSeq, CutAt
  <2>2. Len(s) - (n + 1) + 1 = Len(s) - n
    BY <1>1
  <2>3. \A i \in 1 .. Len(s) - n : l[i] = s[n + 1 + i - 1]
    BY <2>1, <2>2
  <2>4. \A i \in 1 .. Len(s) - n : n + 1 + i - 1 = n + i
    BY <1>1
  <2> QED
    BY <2>3, <2>4
<1>5. \A i \in 1 .. Len(s) : s[i] \in Requests
  BY ElementOfSeq
<1>6. Sorted(f)
  BY <1>1, <1>2, <1>3 DEF Sorted
<1>7. Sorted(l)
  <2> SUFFICES ASSUME NEW i \in 1 .. Len(l), NEW j \in 1 .. Len(l), i < j
               PROVE  l[i] < l[j]
    BY DEF Sorted
  <2>1. n + i \in 1 .. Len(s) /\ n + j \in 1 .. Len(s) /\ n + i < n + j
    BY <1>1, <1>2
  <2> QED
    BY <1>2, <1>4, <2>1 DEF Sorted
<1>8. Before(f, l)
  <2> SUFFICES ASSUME NEW a \in Requests, NEW b \in Requests, Held(f, a), Held(l, b)
               PROVE  a < b
    BY DEF Before
  <2>1. PICK i \in 1 .. n : f[i] = a
    BY <1>2 DEF Held
  <2>2. PICK j \in 1 .. Len(s) - n : l[j] = b
    BY <1>2 DEF Held
  <2>3. i \in 1 .. Len(s) /\ n + j \in 1 .. Len(s) /\ i < n + j
    BY <1>1
  <2>4. s[i] = a /\ s[n + j] = b
    BY <1>3, <1>4, <2>1, <2>2
  <2> QED
    BY <2>3, <2>4 DEF Sorted
<1>9. ASSUME NEW r, Held(s, r)
      PROVE  Held(f, r) \/ Held(l, r)
  <2>1. PICK i \in 1 .. Len(s) : s[i] = r
    BY <1>9 DEF Held
  <2>2. CASE i <= n
    <3>1. i \in 1 .. n
      BY <1>1, <2>2
    <3> QED
      BY <1>2, <1>3, <2>1, <3>1 DEF Held
  <2>3. CASE i > n
    <3>1. i - n \in 1 .. Len(s) - n /\ n + (i - n) = i
      BY <1>1, <2>3
    <3>2. l[i - n] = s[n + (i - n)]
      BY <1>4, <3>1
    <3> QED
      BY <1>2, <2>1, <3>1, <3>2 DEF Held
  <2> QED
    BY <1>1, <2>2, <2>3
<1>10. ASSUME NEW r, Held(f, r) \/ Held(l, r)
       PROVE  Held(s, r)
  <2>1. CASE Held(f, r)
    <3>1. PICK i \in 1 .. n : f[i] = r
      BY <1>2, <2>1 DEF Held
    <3>2. i \in 1 .. Len(s) /\ s[i] = r
      BY <1>1, <1>3, <3>1
    <3> QED
      BY <3>2 DEF Held
  <2>2. CASE Held(l, r)
    <3>1. PICK i \in 1 .. Len(s) - n : l[i] = r
      BY <1>2, <2>2 DEF Held
    <3>2. n + i \in 1 .. Len(s) /\ s[n + i] = r
      BY <1>1, <1>4, <3>1
    <3> QED
      BY <3>2 DEF Held
  <2> QED
    BY <1>10, <2>1, <2>2
<1> QED
  BY <1>2, <1>3, <1>6, <1>7, <1>8, <1>9, <1>10

\* The first request of a line, and the others.
LEMMA HeadLine ==
  ASSUME NEW s \in Seq(Requests), s # <<>>, Sorted(s)
  PROVE  /\ Head(s) \in Requests /\ Sorted(Tail(s)) /\ Before(<<Head(s)>>, Tail(s))
         /\ \A r : Held(s, r) <=> r = Head(s) \/ Held(Tail(s), r)
         /\ \A r : Held(<<Head(s)>>, r) <=> r = Head(s)
         /\ Tail(s) \in Seq(Requests)
<1>1. /\ Len(s) \in Nat /\ Len(s) >= 1 /\ \A i \in 1 .. Len(s) : s[i] \in Requests
      /\ Head(s) = s[1] /\ Head(s) \in Requests /\ Tail(s) \in Seq(Requests)
      /\ Len(Tail(s)) = Len(s) - 1
      /\ \A i \in 1 .. Len(s) - 1 : Tail(s)[i] = s[i + 1]
  BY LenProperties, EmptySeq, ElementOfSeq, HeadTailProperties
<1>2. PICK l : l = Tail(s)
  OBVIOUS
<1>3. PICK h : h = <<Head(s)>>
  OBVIOUS
<1>4. \A r : Held(h, r) <=> r = s[1]
  BY <1>1, <1>3 DEF Held
<1>5. \A i \in 1 .. Len(s) : i = 1 \/ (i - 1 \in 1 .. Len(l) /\ l[i - 1] = s[i])
  <2>1. \A i \in 1 .. Len(s) : i = 1 \/ (i - 1 \in 1 .. Len(s) - 1 /\ (i - 1) + 1 = i)
    BY <1>1
  <2> QED
    BY <1>1, <1>2, <2>1
<1>6. \A i \in 1 .. Len(l) : i + 1 \in 1 .. Len(s) /\ 1 < i + 1 /\ l[i] = s[i + 1]
  BY <1>1, <1>2
<1>7. Sorted(l)
  BY <1>1, <1>2, <1>6 DEF Sorted
<1>8. Before(h, l)
  <2>1. 1 \in 1 .. Len(s)
    BY <1>1
  <2> QED
    BY <1>4, <1>6, <2>1 DEF Before, Sorted, Held
<1>9. \A r : Held(s, r) <=> r = s[1] \/ Held(l, r)
  <2>1. 1 \in 1 .. Len(s)
    BY <1>1
  <2> QED
    BY <1>5, <1>6, <2>1 DEF Held
<1> QED
  BY <1>1, <1>2, <1>3, <1>4, <1>7, <1>8, <1>9

\* A greater request at the end of a line.
LEMMA AppendLine ==
  ASSUME NEW s \in Seq(Requests), Sorted(s), NEW v \in Requests, \A r : Held(s, r) => r < v
  PROVE  Sorted(Append(s, v))
<1>1. PICK t : t = Append(s, v)
  OBVIOUS
<1>2. /\ Len(t) = Len(s) + 1 /\ Len(s) \in Nat
      /\ \A i \in 1 .. Len(s) : t[i] = s[i]
      /\ t[Len(s) + 1] = v
  BY <1>1, AppendProperties, LenProperties
<1>3. \A i \in 1 .. Len(t) : i \in 1 .. Len(s) \/ i = Len(s) + 1
  BY <1>2
<1>4. \A i \in 1 .. Len(s) : s[i] < v
  BY DEF Held
<1>5. \A i, j \in 1 .. Len(t) : i < j => i \in 1 .. Len(s)
  BY <1>2
<1>6. Sorted(t)
  BY <1>2, <1>3, <1>4, <1>5 DEF Sorted
<1> QED
  BY <1>1, <1>6

-----------------------------------------------------------------------------
(* Steps, as the parts of the invariant see them                           *)

\* A request enters the channel.
Entered(kind, es) ==
  /\ kind \in Kinds /\ es \in Payloads \cup {<<>>}
  /\ kind # "append" => es = <<>>
  /\ NextRequest \in Requests
  /\ Submitted(kind, es)
  /\ outcome' = Append(outcome, "pending")
  /\ queue' = Append(queue, NextRequest)
  /\ UNCHANGED <<batch, group, tx, phase, store, seen>>

LEMMA EnteredFacts ==
  ASSUME TypeOK, NEW kind, NEW es, Entered(kind, es)
  PROVE  /\ Len(request) \in Nat /\ Len(request') = Len(request) + 1
         /\ \A r \in 1 .. Len(request) : request'[r] = request[r] /\ outcome'[r] = outcome[r]
         /\ request'[Len(request) + 1] = [kind |-> kind, events |-> es]
         /\ outcome'[Len(request) + 1] = "pending"
         /\ \A r : Held(queue', r) <=> Held(queue, r) \/ r = Len(request) + 1
         /\ \A r : IsPending(r)' <=> IsPending(r) \/ r = Len(request) + 1
         /\ Len(request) + 1 \in Requests
<1>1. Len(request) \in Nat /\ Len(outcome) = Len(request) /\ Len(request) + 1 \in Requests
  BY LenProperties DEF TypeOK, Entered, NextRequest
<1>2. [kind |-> kind, events |-> es] \in Request /\ "pending" \in Outcomes
  <2>1. kind \in Kinds /\ es \in Payloads \cup {<<>>}
    BY DEF Entered
  <2> QED
    BY <2>1 DEF Request, Outcomes
<1>3. /\ Len(request') = Len(request) + 1
      /\ \A r \in 1 .. Len(request) : request'[r] = request[r]
      /\ request'[Len(request) + 1] = [kind |-> kind, events |-> es]
  BY <1>2, AppendProperties DEF Entered, Submitted, TypeOK
<1>4. /\ \A r \in 1 .. Len(outcome) : outcome'[r] = outcome[r]
      /\ outcome'[Len(outcome) + 1] = "pending"
  BY SMTT(30), <1>2, AppendProperties DEF Entered, TypeOK
<1>5. \A r : Held(queue', r) <=> Held(queue, r) \/ r = Len(request) + 1
  <2>1. queue \in Seq(Requests)
    <3>1. queue \in Seq(1 .. Len(request)) /\ 1 .. Len(request) \subseteq Requests
      BY SMTT(30), <1>1, BoundsAssumption DEF TypeOK, Requests
    <3> QED
      BY <3>1, SeqMonotonic
  <2>2. queue' = Append(queue, Len(request) + 1)
    BY DEF Entered, NextRequest
  <2> QED
    BY <1>1, <2>1, <2>2, AppendHolds
<1>6. \A r : r \in 1 .. Len(request') <=> r \in 1 .. Len(request) \/ r = Len(request) + 1
  BY <1>1, <1>3
<1>7. \A r : IsPending(r)' <=> IsPending(r) \/ r = Len(request) + 1
  BY <1>1, <1>4, <1>6 DEF IsPending
<1> QED
  BY <1>1, <1>3, <1>4, <1>5, <1>7

LEMMA LineEntered ==
  ASSUME TypeOK, InLine, NEW kind, NEW es, Entered(kind, es)
  PROVE  InLine'
<1> DEFINE n == Len(request) + 1
<1>1. /\ Len(request) \in Nat /\ Len(request') = Len(request) + 1 /\ n \in Requests
      /\ \A r \in 1 .. Len(request) : request'[r] = request[r]
      /\ request'[n] = [kind |-> kind, events |-> es]
      /\ \A r : Held(queue', r) <=> Held(queue, r) \/ r = n
      /\ \A r : IsPending(r)' <=> IsPending(r) \/ r = n
  BY EnteredFacts
<1>2. /\ writing' = writing /\ group' = group /\ batch' = batch /\ phase' = phase
      /\ queue' = Append(queue, n)
  BY DEF Entered, tx, NextRequest
<1>3. \A r : Held(writing, r) \/ Held(group, r) \/ Held(batch, r) \/ Held(queue, r) =>
               r \in 1 .. Len(request) /\ r < n
  <2>1. \A r : Held(writing, r) \/ Held(group, r) \/ Held(batch, r) \/ Held(queue, r) =>
                 r \in 1 .. Len(request)
    BY LineType, HeldType
  <2> QED
    BY <1>1, <2>1
<1> HIDE DEF n
<1>4. Sorted(queue')
  <2>1. queue \in Seq(Requests)
    BY LineType, SeqMonotonic
  <2>2. Sorted(queue)
    BY DEF InLine, Line
  <2> QED
    BY <1>1, <1>2, <1>3, <2>1, <2>2, AppendLine
<1>5. Line(writing', group', batch', queue')
  BY <1>1, <1>2, <1>3, <1>4 DEF InLine, Line, Before
<1>6. \A r \in 1 .. Len(request') :
        IsPending(r)' <=> Held(writing', r) \/ Held(group', r) \/ Held(batch', r) \/ Held(queue', r)
  <2>1. \A r \in 1 .. Len(request') : r \in 1 .. Len(request) \/ r = n
    BY <1>1 DEF n
  <2>2. \A r : IsPending(r) => r \in 1 .. Len(request)
    BY DEF IsPending
  <2> QED
    BY <1>1, <1>2, <1>3, <2>1, <2>2 DEF InLine
<1>7. \A r \in 1 .. Len(request') : request'[r].kind # "append" => request'[r].events = <<>>
  <2>1. \A r \in 1 .. Len(request') : r \in 1 .. Len(request) \/ r = n
    BY <1>1 DEF n
  <2>2. kind # "append" => es = <<>>
    BY DEF Entered
  <2>3. \A r \in 1 .. Len(request) : request[r].kind # "append" => request[r].events = <<>>
    BY DEF InLine
  <2>4. request'[n].kind = kind /\ request'[n].events = es
    BY <1>1
  <2> QED
    BY <1>1, <2>1, <2>2, <2>3, <2>4
<1> QED
  BY <1>2, <1>5, <1>6, <1>7 DEF InLine, Line, Sorted, Before

LEMMA TellHeld ==
  ASSUME TypeOK, NEW rs, NEW o, Tell(rs, o)
  PROVE  \A r \in 1 .. Len(request) : outcome'[r] = IF Held(rs, r) THEN o ELSE outcome[r]
<1>1. Len(outcome) = Len(request)
  BY DEF TypeOK
<1> QED
  BY <1>1 DEF Tell, Held

LEMMA TellPending ==
  ASSUME TypeOK, NEW rs, NEW o, o # "pending", Tell(rs, o), request' = request
  PROVE  \A r : IsPending(r)' <=> IsPending(r) /\ ~ Held(rs, r)
<1>1. \A r \in 1 .. Len(request) : outcome'[r] = IF Held(rs, r) THEN o ELSE outcome[r]
  BY TellHeld
<1> QED
  BY <1>1 DEF IsPending

LEMMA LineSeqs ==
  ASSUME TypeOK
  PROVE  /\ writing \in Seq(Requests) /\ group \in Seq(Requests)
         /\ batch \in Seq(Requests) /\ queue \in Seq(Requests)
BY LineType, SeqMonotonic

LEMMA EmptyLine ==
  /\ Sorted(<<>>)
  /\ \A s : Before(<<>>, s) /\ Before(s, <<>>)
BY EmptyHolds, EmptySeq DEF Sorted, Before

\* The transaction is over and its callers are told so.
LEMMA LineTold ==
  ASSUME TypeOK, InLine, NEW o, o # "pending", Tell(writing, o), writing' = <<>>,
         phase' = "process", UNCHANGED <<request, group, batch, queue>>
  PROVE  InLine'
<1>1. \A r : IsPending(r)' <=> IsPending(r) /\ ~ Held(writing, r)
  BY TellPending
<1>2. /\ \A r \in 1 .. Len(request) : Held(writing, r) =>
           ~ Held(group, r) /\ ~ Held(batch, r) /\ ~ Held(queue, r)
  <2>1. \A r \in 1 .. Len(request) : r \in Requests /\ r \in Int
    BY LineType
  <2>2. \A r \in Int : ~ (r < r)
    OBVIOUS
  <2> QED
    BY <2>1, <2>2 DEF InLine, Line, Before
<1>3. \A r \in 1 .. Len(request) :
        IsPending(r)' <=> Held(writing', r) \/ Held(group', r) \/ Held(batch', r) \/ Held(queue', r)
  BY <1>1, <1>2, EmptyHolds DEF InLine
<1>4. Line(writing', group', batch', queue')
  BY EmptyLine DEF InLine, Line
<1>5. ~ (Len(writing') > 1)
  BY EmptySeq
<1> QED
  BY <1>3, <1>4, <1>5 DEF InLine, Line, Sorted, Before

\* A refused group waits to be written one by one.
LEMMA LineRefused ==
  ASSUME TypeOK, InLine, Len(writing) > 1, group' = writing, writing' = <<>>,
         phase' = "process", UNCHANGED <<request, outcome, batch, queue>>
  PROVE  InLine'
<1>1. group = <<>>
  BY DEF InLine
<1>2. \A r : IsPending(r)' <=> IsPending(r)
  BY DEF IsPending
<1>3. \A r \in 1 .. Len(request) :
        IsPending(r)' <=> Held(writing', r) \/ Held(group', r) \/ Held(batch', r) \/ Held(queue', r)
  BY <1>1, <1>2, EmptyHolds DEF InLine
<1>4. Line(writing', group', batch', queue')
  BY EmptyLine DEF InLine, Line
<1>5. ~ (Len(writing') > 1)
  BY EmptySeq
<1> QED
  BY <1>3, <1>4, <1>5 DEF InLine, Line, Sorted, Before

LEMMA LineDrained ==
  ASSUME TypeOK, InLine, Drain
  PROVE  InLine'
<1>1. PICK n \in 0 .. Len(queue) : batch' = SubSeq(queue, 1, n) /\ queue' = SubSeq(queue, n + 1, Len(queue))
  <2> DEFINE n == IF Len(queue) < BatchCap THEN Len(queue) ELSE BatchCap
  <2>1. n \in 0 .. Len(queue)
    BY LenProperties, BoundsAssumption DEF TypeOK
  <2> QED
    BY <2>1 DEF Drain
<1>2. PICK f, l : f = batch' /\ l = queue'
  OBVIOUS
<1>3. /\ Sorted(f) /\ Sorted(l) /\ Before(f, l)
      /\ \A r : Held(queue, r) <=> Held(f, r) \/ Held(l, r)
  <2>1. queue \in Seq(Requests) /\ Sorted(queue) /\ CutAt(queue, n, f, l)
    BY <1>1, <1>2, LineSeqs DEF InLine, Line, CutAt
  <2> QED
    BY <2>1, CutLine
<1>4. writing = <<>> /\ group = <<>> /\ batch = <<>>
  BY DEF Drain, GroupAnswered, InLine
<1>5. Line(writing, group, f, l)
  BY <1>3, <1>4, EmptyLine DEF Line
<1>6. \A r \in 1 .. Len(request) :
        IsPending(r) <=> Held(writing, r) \/ Held(group, r) \/ Held(f, r) \/ Held(l, r)
  BY <1>3, <1>4, EmptyHolds DEF InLine
<1>7. UNCHANGED <<request, outcome, writing, group, phase>>
  BY DEF Drain, tx
<1> QED
  BY <1>2, <1>5, <1>6, <1>7 DEF InLine, Line, Sorted, Before, Held, IsPending

LEMMA LineGroup ==
  ASSUME TypeOK, InLine, BeginGroup
  PROVE  InLine'
<1>1. PICK n \in 1 .. Len(batch) :
        writing' = SubSeq(batch, 1, n) /\ batch' = SubSeq(batch, n + 1, Len(batch)) /\ phase' = "write"
  BY DEF BeginGroup, Begin
<1>2. PICK f, l : f = writing' /\ l = batch'
  OBVIOUS
<1>3. /\ Sorted(f) /\ Sorted(l) /\ Before(f, l) /\ Len(f) = n
      /\ \A r : Held(batch, r) <=> Held(f, r) \/ Held(l, r)
  <2>1. /\ batch \in Seq(Requests) /\ Sorted(batch) /\ n \in 0 .. Len(batch)
        /\ CutAt(batch, n, f, l)
    BY <1>1, <1>2, LineSeqs DEF InLine, Line, CutAt
  <2> QED
    BY <2>1, CutLine
<1>4. writing = <<>> /\ group = <<>>
  BY DEF BeginGroup, GroupAnswered, InLine
<1>5. Line(f, group, l, queue)
  <2>1. Before(f, queue) /\ Before(l, queue)
    BY <1>3 DEF InLine, Line, Before
  <2> QED
    BY <1>3, <1>4, <2>1, EmptyLine DEF Line, InLine
<1>6. \A r \in 1 .. Len(request) :
        IsPending(r) <=> Held(f, r) \/ Held(group, r) \/ Held(l, r) \/ Held(queue, r)
  BY <1>3, <1>4, EmptyHolds DEF InLine
<1>7. UNCHANGED <<request, outcome, queue, group>> /\ f # <<>> /\ phase' = "write"
  BY <1>1, <1>3, EmptySeq DEF BeginGroup, client
<1> QED
  BY <1>2, <1>4, <1>5, <1>6, <1>7 DEF InLine, Line, Sorted, Before, Held, IsPending

LEMMA LineSingle ==
  ASSUME TypeOK, InLine, BeginSingle
  PROVE  InLine'
<1>1. PICK f, l : f = writing' /\ l = group'
  OBVIOUS
<1>2. /\ f = <<Head(group)>> /\ l = Tail(group) /\ group # <<>> /\ phase' = "write"
      /\ UNCHANGED <<request, outcome, batch, queue>>
  BY <1>1 DEF BeginSingle, Begin, client
<1>3. /\ Sorted(f) /\ Sorted(l) /\ Before(f, l)
      /\ \A r : Held(group, r) <=> Held(f, r) \/ Held(l, r)
  <2>1. group \in Seq(Requests) /\ Sorted(group)
    BY LineSeqs DEF InLine, Line
  <2>2. /\ Head(group) \in Requests /\ Sorted(Tail(group)) /\ Before(<<Head(group)>>, Tail(group))
        /\ \A r : Held(group, r) <=> r = Head(group) \/ Held(Tail(group), r)
        /\ \A r : Held(<<Head(group)>>, r) <=> r = Head(group)
    BY <1>2, <2>1, HeadLine
  <2>3. Sorted(<<Head(group)>>)
    BY DEF Sorted
  <2> QED
    BY <1>2, <2>2, <2>3
<1>4. writing = <<>>
  BY DEF BeginSingle, InLine
<1>5. Line(f, l, batch, queue)
  BY <1>3 DEF InLine, Line, Before
<1>6. \A r \in 1 .. Len(request) :
        IsPending(r) <=> Held(f, r) \/ Held(l, r) \/ Held(batch, r) \/ Held(queue, r)
  BY <1>3, <1>4, EmptyHolds DEF InLine
<1>7. f # <<>> /\ ~ (Len(f) > 1)
  BY <1>2
<1> QED
  BY <1>1, <1>2, <1>5, <1>6, <1>7 DEF InLine, Line, Sorted, Before, Held, IsPending

LEMMA LineBarrier ==
  ASSUME TypeOK, InLine, RunBarrier
  PROVE  /\ InLine' /\ IsPending(Head(batch))
         /\ \A r : IsPending(r)' <=> IsPending(r) /\ r # Head(batch)
         /\ \A r : IsPending(r)' => Head(batch) < r
<1>1. PICK h, l : h = Head(batch) /\ l = Tail(batch)
  OBVIOUS
<1>2. /\ batch # <<>> /\ batch' = l /\ Tell(<<h>>, "ok") /\ writing = <<>> /\ group = <<>>
      /\ UNCHANGED <<request, writing, group, queue, phase>>
  BY <1>1 DEF RunBarrier, GroupAnswered, client, tx, InLine
<1>3. /\ h \in Requests /\ Sorted(l) /\ Before(<<h>>, l)
      /\ \A r : Held(batch, r) <=> r = h \/ Held(l, r)
      /\ \A r : Held(<<h>>, r) <=> r = h
  <2>1. batch \in Seq(Requests) /\ Sorted(batch)
    BY LineSeqs DEF InLine, Line
  <2> QED
    BY <1>1, <1>2, <2>1, HeadLine
<1>4. \A r : IsPending(r)' <=> IsPending(r) /\ r # h
  <2>1. \A r : IsPending(r)' <=> IsPending(r) /\ ~ Held(<<h>>, r)
    BY <1>2, TellPending
  <2> QED
    BY <1>3, <2>1
<1>5. \A r \in 1 .. Len(request) : IsPending(r) <=> r = h \/ Held(l, r) \/ Held(queue, r)
  BY <1>2, <1>3, EmptyHolds DEF InLine
<1>6. \A r : Held(l, r) \/ Held(queue, r) => r \in Requests /\ h < r
  <2>1. Held(batch, h) /\ Before(batch, queue)
    BY <1>3 DEF InLine, Line
  <2>2. \A r : Held(l, r) \/ Held(queue, r) => r \in Requests
    BY <1>1, <1>3, LineSeqs, HeldType
  <2> QED
    BY <1>3, <2>1, <2>2 DEF Before
<1>7. h \in 1 .. Len(request)
  BY <1>3, HeldType, LineType
<1>8. ~ (h < h)
  BY <1>3 DEF Requests
<1>9. Line(writing, group, l, queue)
  <2>1. Before(l, queue)
    BY <1>3 DEF InLine, Line, Before
  <2> QED
    BY <1>2, <1>3, <2>1, EmptyLine DEF InLine, Line
<1>10. \A r \in 1 .. Len(request) :
         IsPending(r)' <=> Held(writing, r) \/ Held(group, r) \/ Held(l, r) \/ Held(queue, r)
  BY <1>2, <1>4, <1>5, <1>6, <1>8, EmptyHolds
<1>11. InLine'
  BY <1>2, <1>9, <1>10 DEF InLine, Line, Sorted, Before, Held
<1>12. \A r : IsPending(r)' => h < r
  BY <1>4, <1>5, <1>6 DEF IsPending
<1>13. IsPending(h)
  BY <1>5, <1>7
<1> QED
  BY <1>1, <1>4, <1>11, <1>12, <1>13

LEMMA LineEmptied ==
  ASSUME InLine, request' = request, \A r : ~ IsPending(r)', phase' \in {"process", "stopped"},
         writing' = <<>>, group' = <<>>, batch' = <<>>, queue' = <<>>
  PROVE  InLine'
<1>1. ~ (Len(writing') > 1)
  BY EmptySeq
<1> QED
  BY <1>1, EmptyHolds, EmptyLine DEF InLine, Line

\* Dropping everything answers everybody who waits.
LEMMA NobodyWaits ==
  ASSUME TypeOK, request' = request,
         \/ Stop
         \/ outcome' = [r \in 1 .. Len(outcome) |->
                          IF outcome[r] = "pending" THEN "lost" ELSE outcome[r]]
  PROVE  \A r : ~ IsPending(r)'
<1>1. Len(outcome) = Len(request)
  BY DEF TypeOK
<1> QED
  BY <1>1 DEF IsPending, Stop

\* The steps after which the requests are in line again.
LEMMA LineKept == GaplessInv /\ InLine /\ [Next]_vars => InLine'
<1> SUFFICES ASSUME TypeOK, InLine, [Next]_vars PROVE InLine'
  BY DEF GaplessInv
<1>1. \A es \in Payloads : Submit("append", es) => InLine'
  <2>1. \A es \in Payloads : Submit("append", es) => Entered("append", es)
    BY DEF Submit, Entered, Kinds
  <2> QED
    BY <2>1, LineEntered
<1>2. Submit("barrier", <<>>) => InLine'
  <2>1. Submit("barrier", <<>>) => Entered("barrier", <<>>)
    BY DEF Submit, Entered, Kinds
  <2> QED
    BY <2>1, LineEntered
<1>3. SendClose => InLine'
  <2>1. SendClose => Entered("close", <<>>)
    BY DEF SendClose, Entered, Kinds
  <2> QED
    BY <2>1, LineEntered
<1>4. ASSUME UNCHANGED <<request, outcome, writing, group, batch, queue>>,
             \/ phase' = phase
             \/ phase \in {"write", "deliver"} /\ phase' \in {"deliver", "ack"}
      PROVE  InLine'
  <2>1. phase \in {"process", "stopped"} <=> phase' \in {"process", "stopped"}
    BY <1>4
  <2> QED
    BY <1>4, <2>1 DEF InLine, Line, Sorted, Before, Held, IsPending
<1>5. TakeSender \/ Insert \/ NextAppend \/ Commit \/ Deliver \/ UNCHANGED vars => InLine'
  <2>1. TakeSender \/ Insert \/ NextAppend \/ UNCHANGED vars => InLine'
    BY <1>4 DEF TakeSender, Insert, NextAppend, vars, client, tx
  <2>2. Commit => InLine'
    BY <1>4 DEF Commit, CallbackFirst, Inserted, client, tx
  <2>3. Deliver => InLine'
    BY <1>4 DEF Deliver, client, tx
  <2> QED
    BY <2>1, <2>2, <2>3
<1>6. Drain => InLine'
  BY LineDrained
<1>7. BeginGroup => InLine'
  BY LineGroup
<1>8. BeginSingle => InLine'
  BY LineSingle
<1>9. Conflict \/ Fail => InLine'
  <2> SUFFICES ASSUME Abort PROVE InLine'
    BY DEF Conflict, Fail
  <2>1. writing' = <<>> /\ phase' = "process" /\ UNCHANGED <<request, batch, queue>>
    BY DEF Abort, client
  <2>2. \/ Len(writing) > 1 /\ group' = writing /\ outcome' = outcome
        \/ Tell(writing, "rejected") /\ group' = group
    BY DEF Abort, RetryOrRefuse
  <2> QED
    BY <2>1, <2>2, LineRefused, LineTold
<1>10. CommitUncertain => InLine'
  <2> SUFFICES ASSUME CommitUncertain PROVE InLine'
    OBVIOUS
  <2>1. /\ writing' = <<>> /\ phase' = "process" /\ Tell(writing, "uncertain")
        /\ UNCHANGED <<request, group, batch, queue>>
    BY DEF CommitUncertain, TellUncertain, client
  <2> QED
    BY <2>1, LineTold
<1>11. Acknowledge => InLine'
  <2> SUFFICES ASSUME Acknowledge PROVE InLine'
    OBVIOUS
  <2>1. /\ writing' = <<>> /\ phase' = "process" /\ Tell(writing, "ok")
        /\ UNCHANGED <<request, group, batch, queue>>
    BY DEF Acknowledge, client
  <2> QED
    BY <2>1, LineTold
<1>12. RunBarrier => InLine'
  BY LineBarrier
<1>13. Stop => InLine'
  <2> SUFFICES ASSUME Stop PROVE InLine'
    OBVIOUS
  <2>1. /\ request' = request /\ phase' = "stopped" /\ writing' = <<>> /\ group' = <<>>
        /\ batch' = <<>> /\ queue' = <<>>
    BY DEF Stop, GroupAnswered, tx, InLine
  <2> QED
    BY <2>1, NobodyWaits, LineEmptied
<1>14. Reopen => InLine'
  <2> SUFFICES ASSUME Reopen PROVE InLine'
    OBVIOUS
  <2>1. /\ request' = request /\ phase' = "process" /\ writing' = <<>> /\ group' = <<>>
        /\ batch' = <<>> /\ queue' = <<>>
        /\ outcome' = [r \in 1 .. Len(outcome) |->
                         IF outcome[r] = "pending" THEN "lost" ELSE outcome[r]]
    BY DEF Reopen
  <2> QED
    BY <2>1, NobodyWaits, LineEmptied
<1> QED
  BY <1>1, <1>2, <1>3, <1>4, <1>5, <1>6, <1>7, <1>8, <1>9, <1>10, <1>11, <1>12, <1>13, <1>14
  DEF Next, Writer

-----------------------------------------------------------------------------
(* The table                                                               *)

\* The rows of the table are those of requests.
LEMMA RowsAsked ==
  ASSUME NEW l, RowsMatch(l), NEW r, Occurs(l, r)
  PROVE  r \in 1 .. Len(request)
BY DEF RowsMatch, Occurs

\* While no committed transaction waits for its acknowledgement, the requests
\* in the table are ahead of those that wait.
LEMMA RowsBehind ==
  ASSUME TypeOK, InLine, TableSound, ~ Written
  PROVE  \A r : Occurs(events, r) => Ahead(r) /\ ~ IsPending(r)
<1>1. \A r : Occurs(events, r) => r \in 1 .. Len(request) /\ Ahead(r)
  BY RowsAsked DEF TableSound
<1>2. \A r \in 1 .. Len(request) : ~ (r < r)
  OBVIOUS
<1> QED
  BY <1>1, <1>2 DEF Ahead, IsPending

\* The events of a request are a sequence.
LEMMA EventsType ==
  ASSUME TypeOK, NEW r \in 1 .. Len(request)
  PROVE  request[r].events \in Seq(Event) /\ Len(request[r].events) \in Nat
<1>1. request[r] \in Request
  BY LineType, ElementOfSeq
<1>2. request[r].events \in Seq(Event)
  BY <1>1, PayloadsAssumption, EmptySeq DEF Request
<1> QED
  BY <1>2, LenProperties

\* What the transaction leaves in the table when all its events are in.
LEMMA TxWhole ==
  ASSUME TypeOK, InLine, TableSound, TxSound, Inserted
  PROVE  \A r \in 1 .. Len(request) :
           /\ Occurs(txEvents, r) =>
                /\ Entire(txEvents, r)
                /\ outcome[r] # "rejected"
                /\ Ahead(r) \/ Held(writing, r)
           /\ Held(writing, r) => Entire(txEvents, r)
           /\ Entire(events, r) => Entire(txEvents, r)
<1>1. /\ Len(events) \in Nat /\ Len(txEvents) \in Nat /\ Len(events) <= Len(txEvents)
      /\ \A i \in 1 .. Len(events) : i \in 1 .. Len(txEvents) /\ txEvents[i] = events[i]
  BY LenProperties DEF TypeOK, TxSound
<1>2. \A r : Entire(events, r) => Entire(txEvents, r)
  <2>1. \A r, p : Has(events, r, p) => Has(txEvents, r, p)
    BY <1>1 DEF Has
  <2> QED
    BY <2>1 DEF Entire
<1>3. \A r : Held(writing, r) => Entire(txEvents, r)
  <2> SUFFICES ASSUME NEW k \in 1 .. Len(writing), NEW p \in 1 .. Len(request[writing[k]].events)
               PROVE  Has(txEvents, writing[k], p)
    BY DEF Entire, Held
  <2>1. /\ cursor[1] = Len(writing) /\ cursor[2] > Len(request[writing[cursor[1]]].events)
        /\ Len(writing) \in Nat /\ cursor[2] \in Nat
    BY LenProperties DEF Inserted, Current, TypeOK
  <2>2. Len(request[writing[k]].events) \in Nat
    <3>1. writing[k] \in 1 .. Len(request)
      BY LineType, ElementOfSeq
    <3> QED
      BY <3>1, EventsType
  <2>3. k < cursor[1] \/ k = cursor[1]
    BY <2>1
  <2>4. k = cursor[1] => p < cursor[2]
    BY <2>1, <2>2
  <2>5. k \in 1 .. cursor[1]
    BY <2>1
  <2> QED
    BY <2>3, <2>4, <2>5 DEF TxSound
<1>4. \A r : Occurs(txEvents, r) => Occurs(events, r) \/ Held(writing, r)
  <2>1. \A i \in 1 .. Len(txEvents) : i \in 1 .. Len(events) \/ i \in Len(events) + 1 .. Len(txEvents)
    BY <1>1
  <2>2. \A i \in Len(events) + 1 .. Len(txEvents) : Held(writing, txEvents[i].req)
    <3>1. 1 .. cursor[1] \subseteq 1 .. Len(writing)
      BY DEF Inserted
    <3> QED
      BY <3>1 DEF TxSound, Held
  <2> QED
    BY <1>1, <2>1, <2>2 DEF Occurs
<1>5. \A r \in 1 .. Len(request) : Held(writing, r) => outcome[r] = "pending"
  BY DEF InLine, IsPending
<1>6. ~ Written
  BY DEF Written, Inserted
<1> QED
  BY <1>2, <1>3, <1>4, <1>5, <1>6 DEF TableSound

\* Nothing enters the table and no transaction waits.
LEMMA TableTold ==
  ASSUME TableSound, request' = request, events' = events, ~ Written',
         \A r : Occurs(events, r) => outcome'[r] # "rejected" /\ Ahead(r)',
         \A r \in 1 .. Len(request) : outcome'[r] = "ok" => outcome[r] = "ok" \/ Entire(events, r)
  PROVE  TableSound'
<1>1. RowsMatch(events)' /\ RowsOrdered(events)'
  BY DEF TableSound, RowsMatch, RowsOrdered
<1>2. \A r : (Entire(events, r)' <=> Entire(events, r)) /\ (Occurs(events, r)' <=> Occurs(events, r))
  BY DEF Entire, Has, Occurs
<1> QED
  BY <1>1, <1>2 DEF TableSound

LEMMA TableStays ==
  ASSUME TableSound, request' = request, outcome' = outcome, events' = events,
         \/ writing' = writing /\ (Written' <=> Written)
         \/ ~ Written /\ ~ Written'
  PROVE  TableSound'
<1>1. RowsMatch(events)' /\ RowsOrdered(events)'
  BY DEF TableSound, RowsMatch, RowsOrdered
<1>2. \A r : (Entire(events, r)' <=> Entire(events, r)) /\ (Occurs(events, r)' <=> Occurs(events, r))
  BY DEF Entire, Has, Occurs
<1>3. \A r : Ahead(r)' <=> Ahead(r)
  BY DEF IsPending, Ahead
<1>4. CASE writing' = writing /\ (Written' <=> Written)
  <2>1. \A r : Held(writing, r)' <=> Held(writing, r)
    BY <1>4 DEF Held
  <2> QED
    BY <1>1, <1>2, <1>3, <1>4, <2>1 DEF TableSound
<1>5. CASE ~ Written /\ ~ Written'
  BY <1>1, <1>2, <1>3, <1>5 DEF TableSound
<1> QED
  BY <1>4, <1>5

LEMMA TableEntered ==
  ASSUME TypeOK, TableSound, NEW kind, NEW es, Entered(kind, es)
  PROVE  TableSound'
<1>1. PICK n : n = Len(request) + 1
  OBVIOUS
<1>2. /\ Len(request) \in Nat /\ Len(request') = n
      /\ \A r \in 1 .. Len(request) : request'[r] = request[r] /\ outcome'[r] = outcome[r]
      /\ outcome'[n] = "pending"
      /\ \A r : IsPending(r)' <=> IsPending(r) \/ r = n
  BY <1>1, EnteredFacts
<1>3. /\ events' = events /\ writing' = writing /\ (Written' <=> Written)
  BY DEF Entered, tx, store, Written
<1>4. \A r : r \in 1 .. Len(request') <=> r \in 1 .. Len(request) \/ r = n
  BY <1>1, <1>2
<1>5. \A r \in 1 .. Len(request) : r < n
  BY <1>1, <1>2
<1>6. RowsMatch(events)' /\ RowsOrdered(events)'
  BY <1>2, <1>3, <1>4 DEF TableSound, RowsMatch, RowsOrdered
<1>7. \A r \in 1 .. Len(request) : Entire(events, r)' <=> Entire(events, r)
  BY <1>2, <1>3 DEF Entire, Has
<1>8. \A r : Held(writing, r)' <=> Held(writing, r)
  BY <1>3 DEF Held
<1>9. \A r : Occurs(events, r)' => r \in 1 .. Len(request) /\ Occurs(events, r)
  BY <1>3 DEF Occurs, TableSound, RowsMatch
<1>10. ~ Held(writing, n)
  <2>1. n \notin 1 .. Len(request)
    BY <1>1, <1>2
  <2> QED
    BY <2>1, HeldType, LineType
<1>11. \A r \in 1 .. Len(request) : Ahead(r) => Ahead(r)'
  BY <1>2, <1>4, <1>5 DEF Ahead
<1>12. ASSUME NEW r \in 1 .. Len(request')
       PROVE  /\ Occurs(events, r)' =>
                   /\ Entire(events, r)'
                   /\ outcome'[r] # "rejected"
                   /\ Ahead(r)' \/ (Written' /\ Held(writing, r)')
              /\ (Written' /\ Held(writing, r)') \/ outcome'[r] = "ok" => Entire(events, r)'
  <2>1. CASE r \in 1 .. Len(request)
    BY <1>2, <1>3, <1>7, <1>8, <1>9, <1>11, <2>1 DEF TableSound
  <2>2. CASE r \notin 1 .. Len(request)
    BY <1>2, <1>4, <1>8, <1>9, <1>10, <2>2
  <2> QED
    BY <2>1, <2>2
<1> QED
  BY <1>6, <1>12 DEF TableSound

\* The answer to a transaction of which nothing is in the table.
LEMMA TableRefused ==
  ASSUME TypeOK, InLine, TableSound, ~ Written, ~ Written', NEW o \in {"rejected", "uncertain"},
         Tell(writing, o), request' = request, events' = events
  PROVE  TableSound'
<1>1. \A r \in 1 .. Len(request) : outcome'[r] = IF Held(writing, r) THEN o ELSE outcome[r]
  BY TellHeld
<1>2. \A r : IsPending(r)' => IsPending(r)
  BY TellPending
<1>3. \A r : Occurs(events, r) => Ahead(r) /\ ~ IsPending(r) /\ r \in 1 .. Len(request)
  BY RowsBehind, RowsAsked DEF TableSound
<1>4. \A r : Occurs(events, r) => outcome'[r] # "rejected" /\ Ahead(r)'
  <2>1. \A r \in 1 .. Len(request) : Held(writing, r) => IsPending(r)
    BY DEF InLine
  <2>2. \A r : Ahead(r) => Ahead(r)'
    BY <1>2 DEF Ahead
  <2> QED
    BY <1>1, <1>3, <2>1, <2>2 DEF TableSound
<1>5. \A r \in 1 .. Len(request) : outcome'[r] = "ok" => outcome[r] = "ok"
  BY <1>1
<1> QED
  BY <1>4, <1>5, TableTold

\* Those who still wait when a transaction is answered are behind it.
LEMMA WritingAhead ==
  ASSUME TypeOK, InLine, NEW o, o # "pending", Tell(writing, o), request' = request
  PROVE  \A k : Held(writing, k) \/ Ahead(k) => Ahead(k)'
<1>1. \A r : IsPending(r)' <=> IsPending(r) /\ ~ Held(writing, r)
  BY TellPending
<1>2. \A r : IsPending(r)' => r \in Requests /\ (Held(group, r) \/ Held(batch, r) \/ Held(queue, r))
  BY <1>1, LineType DEF IsPending, InLine
<1>3. \A k : Held(writing, k) => k \in Requests
  BY LineSeqs, HeldType
<1>4. \A k : Held(writing, k) => Ahead(k)'
  BY <1>2, <1>3 DEF InLine, Line, Before, Ahead
<1>5. \A k : Ahead(k) => Ahead(k)'
  BY <1>1 DEF Ahead
<1> QED
  BY <1>4, <1>5

LEMMA TableCommitted ==
  ASSUME TypeOK, InLine, TableSound, TxSound, Inserted, Committed, request' = request,
         \/ outcome' = outcome /\ writing' = writing /\ Written'
         \/ Tell(writing, "uncertain") /\ ~ Written'
  PROVE  TableSound'
<1>1. \A r \in 1 .. Len(request) :
        /\ Occurs(txEvents, r) =>
             /\ Entire(txEvents, r)
             /\ outcome[r] # "rejected"
             /\ Ahead(r) \/ Held(writing, r)
        /\ Held(writing, r) => Entire(txEvents, r)
        /\ Entire(events, r) => Entire(txEvents, r)
  BY TxWhole
<1>2. events' = txEvents
  BY DEF Committed
<1>3. RowsMatch(events)' /\ RowsOrdered(events)'
  BY <1>2 DEF TxSound, RowsMatch, RowsOrdered
<1>4. \A r : (Entire(events, r)' <=> Entire(txEvents, r)) /\ (Occurs(events, r)' <=> Occurs(txEvents, r))
  BY <1>2 DEF Entire, Has, Occurs
<1>5. \A r \in 1 .. Len(request) : outcome[r] = "ok" => Entire(txEvents, r)
  BY <1>1 DEF TableSound
<1>6. CASE outcome' = outcome /\ writing' = writing /\ Written'
  <2>1. \A r : (Held(writing, r)' <=> Held(writing, r)) /\ (Ahead(r)' <=> Ahead(r))
    BY <1>6 DEF Held, IsPending, Ahead
  <2> QED
    BY <1>1, <1>3, <1>4, <1>5, <1>6, <2>1 DEF TableSound
<1>7. CASE Tell(writing, "uncertain") /\ ~ Written'
  <2>1. \A r \in 1 .. Len(request) : outcome'[r] = IF Held(writing, r) THEN "uncertain" ELSE outcome[r]
    BY <1>7, TellHeld
  <2>2. \A r : Held(writing, r) \/ Ahead(r) => Ahead(r)'
    BY <1>7, WritingAhead
  <2> QED
    BY <1>1, <1>3, <1>4, <1>5, <1>7, <2>1, <2>2 DEF TableSound
<1> QED
  BY <1>6, <1>7

LEMMA TableAcknowledged ==
  ASSUME TypeOK, InLine, TableSound, Acknowledge
  PROVE  TableSound'
<1>1. /\ request' = request /\ events' = events /\ ~ Written' /\ Written /\ Tell(writing, "ok")
  BY DEF Acknowledge, client, store, Written
<1>2. \A r \in 1 .. Len(request) : outcome'[r] = IF Held(writing, r) THEN "ok" ELSE outcome[r]
  BY <1>1, TellHeld
<1>3. \A r : Held(writing, r) \/ Ahead(r) => Ahead(r)'
  BY <1>1, WritingAhead
<1>4. \A r : Occurs(events, r) => outcome'[r] # "rejected" /\ Ahead(r)'
  <2>1. \A r : Occurs(events, r) => r \in 1 .. Len(request)
    BY RowsAsked DEF TableSound
  <2> QED
    BY <1>2, <1>3, <2>1 DEF TableSound
<1>5. \A r \in 1 .. Len(request) : outcome'[r] = "ok" => outcome[r] = "ok" \/ Entire(events, r)
  BY <1>1, <1>2 DEF TableSound
<1> QED
  BY <1>1, <1>4, <1>5, TableTold

\* A barrier or a close has no events; whoever has waited is lost.
LEMMA TableBarrier ==
  ASSUME TypeOK, InLine, TableSound, RunBarrier
  PROVE  TableSound'
<1>1. PICK h : h = Head(batch)
  OBVIOUS
<1>2. /\ request' = request /\ events' = events /\ ~ Written' /\ ~ Written
      /\ Tell(<<h>>, "ok") /\ request[h].kind = "barrier" /\ batch # <<>>
  BY <1>1 DEF RunBarrier, client, store, Written
<1>3. \A r \in 1 .. Len(request) : outcome'[r] = IF r = h THEN "ok" ELSE outcome[r]
  <2>1. \A r \in 1 .. Len(request) : outcome'[r] = IF Held(<<h>>, r) THEN "ok" ELSE outcome[r]
    BY <1>2, TellHeld
  <2>2. \A r : Held(<<h>>, r) <=> r = h
    BY DEF Held
  <2> QED
    BY <2>1, <2>2
<1>4. \A r : IsPending(r)' => IsPending(r)
  BY <1>1, LineBarrier
<1>5. \A r : Occurs(events, r) => outcome'[r] # "rejected" /\ Ahead(r)'
  <2>1. \A r : Ahead(r) => Ahead(r)'
    BY <1>2, <1>4 DEF Ahead
  <2>2. \A r : Occurs(events, r) => r \in 1 .. Len(request) /\ Ahead(r)
    BY <1>2, RowsBehind, RowsAsked DEF TableSound
  <2> QED
    BY <1>3, <2>1, <2>2 DEF TableSound
<1>6. h \in 1 .. Len(request)
  BY <1>1, <1>2, LineType, HeadTailProperties
<1>7. Entire(events, h)
  <2>1. request[h].events = <<>>
    BY <1>2, <1>6 DEF InLine
  <2> QED
    BY <2>1, EmptySeq DEF Entire
<1> QED
  BY <1>2, <1>3, <1>5, <1>7, TableTold

LEMMA TableLost ==
  ASSUME TypeOK, InLine, TableSound, Stop \/ Reopen
  PROVE  TableSound'
<1>1. /\ request' = request /\ events' = events /\ ~ Written'
  BY DEF Stop, Reopen, store, Written
<1>2. \A r : ~ IsPending(r)'
  BY <1>1, NobodyWaits DEF Reopen
<1>3. \A r \in 1 .. Len(request) :
        \/ outcome'[r] \in {outcome[r], "lost"}
        \/ outcome'[r] = "ok" /\ request[r].kind # "append"
  <2>1. Len(outcome) = Len(request)
    BY DEF TypeOK
  <2> QED
    BY <2>1 DEF Stop, Reopen
<1>4. \A r : Occurs(events, r) => outcome'[r] # "rejected" /\ Ahead(r)'
  <2>1. \A r : Occurs(events, r) => r \in 1 .. Len(request)
    BY RowsAsked DEF TableSound
  <2> QED
    BY <1>2, <1>3, <2>1 DEF TableSound, Ahead
<1>5. \A r \in 1 .. Len(request) : outcome'[r] = "ok" => outcome[r] = "ok" \/ Entire(events, r)
  <2>1. \A r \in 1 .. Len(request) : request[r].kind # "append" => Entire(events, r)
    BY EmptySeq DEF InLine, Entire
  <2> QED
    BY <1>3, <2>1
<1> QED
  BY <1>1, <1>4, <1>5, TableTold

LEMMA TableKept ==
  GaplessInv /\ InLine /\ TableSound /\ (phase = "write" => TxSound) /\ [Next]_vars => TableSound'
<1> SUFFICES ASSUME TypeOK, InLine, TableSound, phase = "write" => TxSound, [Next]_vars
             PROVE  TableSound'
  BY DEF GaplessInv
<1>1. \A es \in Payloads : Submit("append", es) => TableSound'
  <2>1. \A es \in Payloads : Submit("append", es) => Entered("append", es)
    BY DEF Submit, Entered, Kinds
  <2> QED
    BY <2>1, TableEntered
<1>2. Submit("barrier", <<>>) => TableSound'
  <2>1. Submit("barrier", <<>>) => Entered("barrier", <<>>)
    BY DEF Submit, Entered, Kinds
  <2> QED
    BY <2>1, TableEntered
<1>3. SendClose => TableSound'
  <2>1. SendClose => Entered("close", <<>>)
    BY DEF SendClose, Entered, Kinds
  <2> QED
    BY <2>1, TableEntered
<1>4. TakeSender \/ Drain \/ Insert \/ NextAppend \/ UNCHANGED vars => TableSound'
  BY TableStays DEF TakeSender, Drain, Insert, NextAppend, vars, client, tx, store, Written
<1>5. BeginGroup \/ BeginSingle => TableSound'
  BY TableStays DEF BeginGroup, BeginSingle, Begin, client, store, Written
<1>6. Deliver => TableSound'
  BY TableStays DEF Deliver, client, tx, store, Written
<1>7. Conflict \/ Fail => TableSound'
  <2> SUFFICES ASSUME Abort, phase = "write" PROVE TableSound'
    BY DEF Conflict, Fail
  <2>1. ~ Written /\ ~ Written' /\ request' = request /\ events' = events
    BY DEF Abort, Rollback, Written, client, store
  <2>2. outcome' = outcome \/ Tell(writing, "rejected")
    BY DEF Abort, RetryOrRefuse
  <2>3. outcome' = outcome => TableSound'
    BY <2>1, TableStays
  <2>4. Tell(writing, "rejected") => TableSound'
    BY <2>1, TableRefused
  <2> QED
    BY <2>2, <2>3, <2>4
<1>8. Commit => TableSound'
  <2> SUFFICES ASSUME Commit PROVE TableSound'
    OBVIOUS
  <2>1. /\ TxSound /\ Inserted /\ Committed /\ request' = request
        /\ outcome' = outcome /\ writing' = writing /\ Written'
    BY DEF Commit, Inserted, CallbackFirst, client, tx, Written
  <2> QED
    BY <2>1, TableCommitted
<1>9. CommitUncertain => TableSound'
  <2> SUFFICES ASSUME CommitUncertain PROVE TableSound'
    OBVIOUS
  <2>1. /\ TxSound /\ Inserted /\ request' = request /\ Tell(writing, "uncertain")
        /\ ~ Written /\ ~ Written'
        /\ Committed \/ events' = events
    BY DEF CommitUncertain, TellUncertain, Inserted, client, store, Written
  <2> QED
    BY <2>1, TableCommitted, TableRefused
<1>10. Acknowledge => TableSound'
  BY TableAcknowledged
<1>11. RunBarrier => TableSound'
  BY TableBarrier
<1>12. Stop \/ Reopen => TableSound'
  BY TableLost
<1> QED
  BY <1>1, <1>2, <1>3, <1>4, <1>5, <1>6, <1>7, <1>8, <1>9, <1>10, <1>11, <1>12 DEF Next, Writer

-----------------------------------------------------------------------------
(* The transaction                                                         *)

LEMMA TxBegun ==
  ASSUME TypeOK, TypeOK', TableSound, NEW rs, Begin(rs), rs # <<>>, UNCHANGED <<request, events, names>>
  PROVE  TxSound'
<1>1. writing' = rs /\ cursor' = <<1, 1>> /\ txEvents' = events /\ txNames' = names
  BY DEF Begin
<1>2. Len(rs) \in Nat /\ Len(rs) >= 1
  <2>1. rs \in Seq(1 .. Len(request'))
    BY <1>1 DEF TypeOK
  <2> QED
    BY <2>1, LenProperties, EmptySeq
<1>3. Len(Current') \in Nat
  <2>1. rs[1] \in 1 .. Len(request)
    <3>1. rs \in Seq(1 .. Len(request))
      BY <1>1 DEF TypeOK
    <3> QED
      BY <1>2, <3>1, ElementOfSeq
  <2>2. Current' = request[rs[1]].events
    BY <1>1 DEF Current
  <2> QED
    BY <2>1, <2>2, EventsType
<1>4. cursor'[1] \in 1 .. Len(writing') /\ cursor'[2] \in 1 .. Len(Current') + 1
  BY <1>1, <1>2, <1>3
<1>5. Len(events) \in Nat
  BY LenProperties DEF TypeOK
<1>6. RowsMatch(txEvents)' /\ RowsOrdered(txEvents)'
  BY <1>1 DEF TableSound, RowsMatch, RowsOrdered
<1>7. ~ \E i : i \in Len(events') + 1 .. Len(txEvents')
  BY <1>1, <1>5
<1>8. \A k \in 1 .. cursor'[1] : \A p \in 1 .. Len(request'[writing'[k]].events) :
        ~ (k < cursor'[1] \/ p < cursor'[2])
  BY <1>1
<1>9. /\ Len(events') <= Len(txEvents')
      /\ \A i \in 1 .. Len(events') : txEvents'[i] = events'[i]
      /\ \A c \in Channels : txNames'[c] = names'[c]
  BY <1>1, <1>5
<1> QED
  BY <1>4, <1>6, <1>7, <1>8, <1>9 DEF TxSound

LEMMA TxEntered ==
  ASSUME TypeOK, TxSound, NEW kind, NEW es, Entered(kind, es)
  PROVE  TxSound'
<1>1. /\ Len(request) \in Nat /\ Len(request') = Len(request) + 1
      /\ \A r \in 1 .. Len(request) : request'[r] = request[r]
  BY EnteredFacts
<1>2. UNCHANGED <<writing, cursor, txEvents, txNames, events, names>>
  BY DEF Entered, tx, store
<1>3. \A k \in 1 .. Len(writing) : writing[k] \in 1 .. Len(request)
  BY LineType, ElementOfSeq
<1>4. \A r \in 1 .. Len(request) : r \in 1 .. Len(request')
  BY <1>1
<1>5. RowsMatch(txEvents)' /\ RowsOrdered(txEvents)'
  <2>1. \A i \in 1 .. Len(txEvents) :
          txEvents[i].req \in 1 .. Len(request') /\ request'[txEvents[i].req] = request[txEvents[i].req]
    BY <1>1, <1>4 DEF TxSound, RowsMatch
  <2>2. RowsMatch(txEvents)'
    BY <1>2, <2>1 DEF TxSound, RowsMatch
  <2>3. RowsOrdered(txEvents)'
    BY <1>2 DEF TxSound, RowsOrdered
  <2> QED
    BY <2>2, <2>3
<1>6. cursor[1] \in 1 .. Len(writing) /\ 1 .. cursor[1] \subseteq 1 .. Len(writing)
  BY SMTT(30), LenProperties DEF TxSound, TypeOK
<1>7. Current' = Current
  BY <1>1, <1>2, <1>3, <1>6 DEF Current
<1>8. \A k \in 1 .. cursor[1] : request'[writing[k]] = request[writing[k]]
  BY <1>1, <1>3, <1>6
<1>9. \A c : Wrote(c)' <=> Wrote(c)
  BY <1>2 DEF Wrote
<1>10. \A r, p : Has(txEvents, r, p)' <=> Has(txEvents, r, p)
  BY <1>2 DEF Has
<1>11. \A k \in 1 .. cursor'[1] : \A p \in 1 .. Len(request'[writing'[k]].events) :
         k < cursor'[1] \/ p < cursor'[2] => Has(txEvents', writing'[k], p)
  BY <1>2, <1>8 DEF TxSound
<1> QED
  BY <1>2, <1>5, <1>7, <1>9, <1>11 DEF TxSound

LEMMA TxStays ==
  ASSUME TxSound, UNCHANGED <<request, writing, cursor, txEvents, txNames, events, names>>
  PROVE  TxSound'
<1>1. RowsMatch(txEvents)' /\ RowsOrdered(txEvents)' /\ Current' = Current
  <2>1. RowsMatch(txEvents)' <=> RowsMatch(txEvents)
    BY DEF RowsMatch
  <2>2. RowsOrdered(txEvents)' <=> RowsOrdered(txEvents)
    BY DEF RowsOrdered
  <2>3. Current' = Current
    BY DEF Current
  <2> QED
    BY <2>1, <2>2, <2>3 DEF TxSound
<1>2. \A c : Wrote(c)' <=> Wrote(c)
  BY DEF Wrote
<1> QED
  BY <1>1, <1>2 DEF TxSound

LEMMA TxNext ==
  ASSUME TypeOK, TypeOK', TxSound, NextAppend
  PROVE  TxSound'
<1>1. /\ cursor' = <<cursor[1] + 1, 1>> /\ cursor[1] < Len(writing) /\ cursor[2] > Len(Current)
      /\ UNCHANGED <<request, writing, txEvents, txNames, events, names>>
  BY DEF NextAppend, client, store
<1>2. cursor[1] \in Nat \ {0} /\ cursor[2] \in Nat \ {0} /\ Len(writing) \in Nat
  BY LenProperties DEF TypeOK
<1>3. RowsMatch(txEvents)' /\ RowsOrdered(txEvents)'
  <2>1. RowsMatch(txEvents)' <=> RowsMatch(txEvents)
    BY <1>1 DEF RowsMatch
  <2>2. RowsOrdered(txEvents)' <=> RowsOrdered(txEvents)
    BY <1>1 DEF RowsOrdered
  <2> QED
    BY <2>1, <2>2 DEF TxSound
<1>4. Len(Current') \in Nat
  <2>1. cursor[1] + 1 \in 1 .. Len(writing)
    BY <1>1, <1>2
  <2>2. writing[cursor[1] + 1] \in 1 .. Len(request)
    BY <2>1, LineType, ElementOfSeq
  <2>3. Current' = request[writing[cursor[1] + 1]].events
    BY <1>1 DEF Current
  <2> QED
    BY <2>2, <2>3, EventsType
<1>5. cursor'[1] \in 1 .. Len(writing') /\ cursor'[2] \in 1 .. Len(Current') + 1
  BY <1>1, <1>2, <1>4
<1>6. \A i \in Len(events) + 1 .. Len(txEvents) : \E k \in 1 .. cursor'[1] :
        txEvents[i].req = writing[k] /\ k # cursor'[1]
  <2>1. \A k \in 1 .. cursor[1] : k \in 1 .. cursor[1] + 1 /\ k # cursor[1] + 1
    BY <1>2
  <2>2. cursor'[1] = cursor[1] + 1
    BY <1>1
  <2> QED
    BY <2>1, <2>2 DEF TxSound
<1>7. \A k \in 1 .. cursor'[1] : \A p \in 1 .. Len(request[writing[k]].events) :
        k < cursor'[1] \/ p < cursor'[2] => Has(txEvents, writing[k], p)
  <2> SUFFICES ASSUME NEW k \in 1 .. cursor'[1], NEW p \in 1 .. Len(request[writing[k]].events),
                      k < cursor'[1] \/ p < cursor'[2]
               PROVE  Has(txEvents, writing[k], p)
    OBVIOUS
  <2>1. k \in 1 .. cursor[1]
    BY <1>1, <1>2
  <2>2. k < cursor[1] \/ p < cursor[2]
    <3>1. k = cursor[1] => p \in 1 .. Len(Current)
      BY DEF Current
    <3>2. Len(Current) \in Nat
      <4>1. cursor[1] \in 1 .. Len(writing)
        BY DEF TxSound
      <4>2. writing[cursor[1]] \in 1 .. Len(request)
        BY <4>1, LineType, ElementOfSeq
      <4> QED
        BY <4>2, EventsType DEF Current
    <3> QED
      BY <1>1, <1>2, <2>1, <3>1, <3>2
  <2> QED
    BY <2>1, <2>2 DEF TxSound
<1>8. \A c : Wrote(c)' <=> Wrote(c)
  BY <1>1 DEF Wrote
<1>9. UNCHANGED <<request, writing, txEvents, txNames, events, names>>
  BY <1>1
<1> QED
  BY <1>3, <1>5, <1>6, <1>7, <1>8, <1>9 DEF TxSound

\* The rows of the transaction are before the event at its cursor.
LEMMA CursorBehind ==
  ASSUME TypeOK, InLine, TableSound, TxSound, phase = "write"
  PROVE  /\ writing[cursor[1]] \in 1 .. Len(request)
         /\ \A i \in 1 .. Len(txEvents) :
              \/ txEvents[i].req < writing[cursor[1]]
              \/ txEvents[i].req = writing[cursor[1]] /\ txEvents[i].pos < cursor[2]
<1>1. PICK w : w = writing[cursor[1]]
  OBVIOUS
<1>2. cursor[1] \in 1 .. Len(writing)
  BY DEF TxSound
<1>3. w \in 1 .. Len(request) /\ Held(writing, w)
  BY <1>1, <1>2, LineType, ElementOfSeq DEF Held
<1>4. IsPending(w)
  BY <1>3 DEF InLine
<1>5. \A i \in 1 .. Len(events) : events[i].req < w
  <2>1. \A i \in 1 .. Len(events) : Occurs(events, events[i].req)
    BY DEF Occurs
  <2>2. ~ Written
    BY DEF Written
  <2> QED
    BY <1>3, <1>4, <2>1, <2>2, RowsBehind DEF Ahead
<1>6. \A i \in Len(events) + 1 .. Len(txEvents) :
        txEvents[i].req < w \/ (txEvents[i].req = w /\ txEvents[i].pos < cursor[2])
  <2> SUFFICES ASSUME NEW i \in Len(events) + 1 .. Len(txEvents)
               PROVE  txEvents[i].req < w \/ (txEvents[i].req = w /\ txEvents[i].pos < cursor[2])
    OBVIOUS
  <2>1. PICK k \in 1 .. cursor[1] :
          txEvents[i].req = writing[k] /\ (k = cursor[1] => txEvents[i].pos < cursor[2])
    BY DEF TxSound
  <2>2. CASE k = cursor[1]
    BY <1>1, <2>1, <2>2
  <2>3. CASE k # cursor[1]
    <3>1. k \in 1 .. Len(writing) /\ k < cursor[1]
      BY <1>2, <2>3
    <3>2. Sorted(writing)
      BY DEF InLine, Line
    <3>3. writing[k] < w
      BY <1>1, <1>2, <3>1, <3>2 DEF Sorted
    <3> QED
      BY <2>1, <3>3
  <2> QED
    BY <2>2, <2>3
<1>7. /\ \A i \in 1 .. Len(events) : txEvents[i] = events[i]
      /\ \A i \in 1 .. Len(txEvents) : i \in 1 .. Len(events) \/ i \in Len(events) + 1 .. Len(txEvents)
  BY LenProperties DEF TxSound, TypeOK
<1> QED
  BY <1>1, <1>3, <1>5, <1>6, <1>7

LEMMA TxInserted ==
  ASSUME TypeOK, InLine, TableSound, TxSound, Insert
  PROVE  TxSound'
<1>1. PICK w, e, row :
        /\ w = writing[cursor[1]] /\ e = Current[cursor[2]]
        /\ row = [channel |-> e.channel, seq |-> NextSeq(e.channel), req |-> w, pos |-> cursor[2]]
  OBVIOUS
<1>2. /\ txEvents' = Append(txEvents, row) /\ txNames' = Indexed(txNames, e)
      /\ cursor' = <<cursor[1], cursor[2] + 1>> /\ InsertDue /\ phase = "write"
      /\ UNCHANGED <<request, writing, events, names>>
  BY <1>1 DEF Insert, client, store
<1>3. /\ w \in 1 .. Len(request)
      /\ \A i \in 1 .. Len(txEvents) :
           txEvents[i].req < w \/ (txEvents[i].req = w /\ txEvents[i].pos < cursor[2])
  BY <1>1, <1>2, CursorBehind
<1>4. row.channel = e.channel /\ row.req = w /\ row.pos = cursor[2]
  BY <1>1
<1>5. PICK l : l = txEvents'
  OBVIOUS
<1>6. PICK n : n = Len(txEvents) + 1
  OBVIOUS
<1>7. /\ Len(l) = n /\ Len(txEvents) \in Nat
      /\ \A i \in 1 .. Len(txEvents) : l[i] = txEvents[i]
      /\ l[n] = row
  <2>1. txEvents \in Seq(Row \cup {row}) /\ row \in Row \cup {row}
    <3>1. txEvents \in Seq(Row)
      BY DEF TypeOK
    <3> QED
      BY <3>1, SeqMonotonic
  <2>2. l = Append(txEvents, row)
    BY <1>2, <1>5
  <2> QED
    BY <1>6, <2>1, <2>2, AppendProperties, LenProperties
<1>8. \A i \in 1 .. Len(l) : i \in 1 .. Len(txEvents) \/ i = n
  BY <1>6, <1>7
<1>9. /\ cursor[1] \in 1 .. Len(writing) /\ cursor[2] \in 1 .. Len(Current)
      /\ Len(Current) \in Nat /\ Current = request[w].events
  <2>1. Current = request[w].events
    BY <1>1 DEF Current
  <2>2. Len(request[w].events) \in Nat
    BY <1>3, EventsType
  <2> QED
    BY <1>2, <2>1, <2>2 DEF InsertDue
<1>10. RowsMatch(l)
  <2>1. \A i \in 1 .. Len(txEvents) :
          /\ l[i].req \in 1 .. Len(request) /\ l[i].pos \in 1 .. Len(request[l[i].req].events)
          /\ l[i].channel = request[l[i].req].events[l[i].pos].channel
    BY <1>7 DEF TxSound, RowsMatch
  <2>2. /\ l[n].req \in 1 .. Len(request) /\ l[n].pos \in 1 .. Len(request[l[n].req].events)
        /\ l[n].channel = request[l[n].req].events[l[n].pos].channel
    BY <1>1, <1>3, <1>4, <1>7, <1>9
  <2> QED
    BY <1>8, <2>1, <2>2 DEF RowsMatch
<1>11. RowsOrdered(l)
  <2>1. \A i, j \in 1 .. Len(l) : i < j => i \in 1 .. Len(txEvents)
    BY <1>6, <1>7
  <2>2. \A i \in 1 .. Len(txEvents) :
          l[i].req < l[n].req \/ (l[i].req = l[n].req /\ l[i].pos < l[n].pos)
    BY <1>3, <1>4, <1>7
  <2>3. \A i, j \in 1 .. Len(txEvents) :
          i < j => l[i].req < l[j].req \/ (l[i].req = l[j].req /\ l[i].pos < l[j].pos)
    <3>1. RowsOrdered(txEvents)
      BY DEF TxSound
    <3> QED
      BY <1>7, <3>1 DEF RowsOrdered
  <2> QED
    BY <1>8, <2>1, <2>2, <2>3 DEF RowsOrdered
<1>12. cursor[1] \in 1 .. Len(writing) /\ cursor[2] + 1 \in 1 .. Len(Current) + 1
  <2>1. \A c \in 1 .. Len(Current) : c + 1 \in 1 .. Len(Current) + 1
    BY <1>9
  <2> QED
    BY <1>9, <2>1
<1>13. \A i \in Len(events) + 1 .. Len(l) : \E k \in 1 .. cursor[1] :
         /\ l[i].req = writing[k]
         /\ k = cursor[1] => l[i].pos < cursor[2] + 1
  <2> SUFFICES ASSUME NEW i \in Len(events) + 1 .. Len(l)
               PROVE  \E k \in 1 .. cursor[1] :
                        /\ l[i].req = writing[k]
                        /\ k = cursor[1] => l[i].pos < cursor[2] + 1
    OBVIOUS
  <2>1. CASE i = n
    <3>1. cursor[1] \in 1 .. cursor[1] /\ cursor[2] < cursor[2] + 1
      BY <1>9
    <3> QED
      BY <1>1, <1>4, <1>7, <2>1, <3>1
  <2>2. CASE i # n
    <3>1. i \in Len(events) + 1 .. Len(txEvents) /\ i \in 1 .. Len(txEvents)
      <4>1. Len(events) \in Nat
        BY LenProperties DEF TypeOK
      <4> QED
        BY <1>6, <1>7, <2>2, <4>1
    <3>2. PICK k \in 1 .. cursor[1] :
            txEvents[i].req = writing[k] /\ (k = cursor[1] => txEvents[i].pos < cursor[2])
      BY <3>1 DEF TxSound
    <3>3. txEvents[i].pos \in Nat /\ cursor[2] \in Nat
      <4>1. txEvents[i] \in Row
        BY <3>1, ElementOfSeq DEF TypeOK
      <4> QED
        BY <1>9, <4>1 DEF Row
    <3>4. txEvents[i].pos < cursor[2] => txEvents[i].pos < cursor[2] + 1
      BY <3>3
    <3> QED
      BY <1>7, <3>1, <3>2, <3>4
  <2> QED
    BY <2>1, <2>2
<1>14. \A k \in 1 .. cursor[1] : \A p \in 1 .. Len(request[writing[k]].events) :
         k < cursor[1] \/ p < cursor[2] + 1 => Has(l, writing[k], p)
  <2>1. \A r, p : Has(txEvents, r, p) => Has(l, r, p)
    <3>1. \A i \in 1 .. Len(txEvents) : i \in 1 .. Len(l)
      BY <1>6, <1>7
    <3> QED
      BY <1>7, <3>1 DEF Has
  <2>2. Has(l, w, cursor[2])
    <3>1. n \in 1 .. Len(l)
      BY <1>6, <1>7
    <3> QED
      BY <1>4, <1>7, <3>1 DEF Has
  <2> SUFFICES ASSUME NEW k \in 1 .. cursor[1], NEW p \in 1 .. Len(request[writing[k]].events),
                      k < cursor[1] \/ p < cursor[2] + 1
               PROVE  Has(l, writing[k], p)
    OBVIOUS
  <2>3. CASE k < cursor[1] \/ p < cursor[2]
    BY <2>1, <2>3 DEF TxSound
  <2>4. CASE ~ (k < cursor[1] \/ p < cursor[2])
    <3>1. k = cursor[1] /\ p = cursor[2]
      BY <1>9, <2>4
    <3> QED
      BY <1>1, <2>2, <3>1
  <2> QED
    BY <2>3, <2>4
<1>15. \A c \in Channels : ~ Wrote(c)' => txNames'[c] = names[c]
  <2> SUFFICES ASSUME NEW c \in Channels, ~ Wrote(c)' PROVE txNames'[c] = names[c]
    OBVIOUS
  <2>1. Len(events) \in Nat /\ Len(events) <= Len(txEvents) /\ txNames \in [Channels -> Names \cup {NoName}]
    BY LenProperties DEF TypeOK, TxSound
  <2>2. \A i \in Len(events) + 1 .. Len(l) : l[i].channel # c
    BY <1>2, <1>5 DEF Wrote
  <2>3. n \in Len(events) + 1 .. Len(l)
    BY <1>6, <1>7, <2>1
  <2>4. e.channel # c
    BY <1>4, <1>7, <2>2, <2>3
  <2>5. \A i \in Len(events) + 1 .. Len(txEvents) :
          i \in Len(events) + 1 .. Len(l) /\ i \in 1 .. Len(txEvents)
    BY <1>6, <1>7, <2>1
  <2>6. ~ Wrote(c)
    BY <1>7, <2>2, <2>5 DEF Wrote
  <2> QED
    BY <1>2, <2>1, <2>4, <2>6 DEF TxSound, Indexed
<1>16. /\ Len(events) <= Len(l)
       /\ \A i \in 1 .. Len(events) : l[i] = events[i]
  <2>1. /\ Len(events) \in Nat /\ Len(events) <= Len(txEvents)
        /\ \A i \in 1 .. Len(events) : txEvents[i] = events[i]
    BY LenProperties DEF TypeOK, TxSound
  <2>2. \A i \in 1 .. Len(events) : i \in 1 .. Len(txEvents)
    BY <1>7, <2>1
  <2> QED
    BY <1>6, <1>7, <2>1, <2>2
<1>17. Current' = Current /\ cursor'[1] = cursor[1] /\ cursor'[2] = cursor[2] + 1
  BY <1>2 DEF Current
<1>18. RowsMatch(txEvents)' /\ RowsOrdered(txEvents)'
  <2>1. request' = request /\ txEvents' = l
    BY <1>2, <1>5
  <2> QED
    BY <1>10, <1>11, <2>1 DEF RowsMatch, RowsOrdered
<1>19. UNCHANGED <<request, writing, events, names>> /\ txEvents' = l
  BY <1>2, <1>5
<1> QED
  BY SMTT(30), <1>12, <1>13, <1>14, <1>15, <1>16, <1>17, <1>18, <1>19 DEF TxSound

LEMMA TxKept ==
  /\ GaplessInv /\ InLine /\ TableSound
  /\ phase = "write" => TxSound
  /\ [Next]_vars
  => (phase' = "write" => TxSound')
<1> SUFFICES ASSUME TypeOK, TypeOK', InLine, TableSound, phase = "write" => TxSound, [Next]_vars,
                    phase' = "write"
             PROVE  TxSound'
  BY NextGaplessInv DEF GaplessInv
<1>1. ASSUME NEW kind, NEW es, Entered(kind, es)
      PROVE  TxSound'
  <2>1. phase = "write"
    BY <1>1 DEF Entered
  <2> QED
    BY <1>1, <2>1, TxEntered
<1>2. (\E es \in Payloads : Submit("append", es)) \/ Submit("barrier", <<>>) \/ SendClose => TxSound'
  BY <1>1 DEF Submit, SendClose, Entered, Kinds
<1>3. TakeSender \/ UNCHANGED vars => TxSound'
  BY TxStays DEF TakeSender, vars, client, tx, store
<1>4. BeginGroup => TxSound'
  <2> SUFFICES ASSUME BeginGroup PROVE TxSound'
    OBVIOUS
  <2>1. PICK n \in 1 .. Len(batch) : Begin(SubSeq(batch, 1, n))
    BY DEF BeginGroup
  <2>2. SubSeq(batch, 1, n) # <<>>
    <3>1. n \in 0 .. Len(batch) /\ n # 0
      OBVIOUS
    <3>2. Len(SubSeq(batch, 1, n)) = n
      BY <3>1, LineSeqs, CutType
    <3> QED
      BY <3>1, <3>2, EmptySeq
  <2>3. UNCHANGED <<request, events, names>>
    BY DEF BeginGroup, client, store
  <2> QED
    BY <2>1, <2>2, <2>3, TxBegun
<1>5. BeginSingle => TxSound'
  <2> SUFFICES ASSUME BeginSingle PROVE TxSound'
    OBVIOUS
  <2>1. <<Head(group)>> # <<>>
    OBVIOUS
  <2>2. Begin(<<Head(group)>>) /\ UNCHANGED <<request, events, names>>
    BY DEF BeginSingle, client, store
  <2> QED
    BY <2>1, <2>2, TxBegun
<1>6. Insert => TxSound'
  BY TxInserted DEF Insert
<1>7. NextAppend => TxSound'
  BY TxNext DEF NextAppend
<1>8. ~ (\/ Drain \/ Conflict \/ Fail \/ CommitUncertain \/ Commit \/ Deliver \/ Acknowledge
         \/ RunBarrier \/ Stop \/ Reopen)
  <2>1. ~ (Conflict \/ Fail \/ CommitUncertain \/ Stop \/ Reopen)
    BY DEF Conflict, Fail, Abort, CommitUncertain, Stop, Reopen
  <2>2. ~ (Drain \/ Commit \/ Deliver \/ Acknowledge \/ RunBarrier)
    BY DEF Drain, Commit, CallbackFirst, Deliver, Acknowledge, RunBarrier
  <2> QED
    BY <2>1, <2>2
<1> QED
  BY <1>2, <1>3, <1>4, <1>5, <1>6, <1>7, <1>8 DEF Next, Writer

-----------------------------------------------------------------------------
(* Barriers                                                                *)

\* Every step but a submission only ends waits; a submission waits itself.
LEMMA WaitsEnd ==
  ASSUME TypeOK, InLine, [Next]_vars
  PROVE  /\ Len(request) <= Len(request') /\ Len(request') \in Nat
         /\ \A r : IsPending(r)' => IsPending(r) \/ r > Len(request)
<1>1. ASSUME NEW kind, NEW es, Entered(kind, es)
      PROVE  /\ Len(request) <= Len(request') /\ Len(request') \in Nat
             /\ \A r : IsPending(r)' => IsPending(r) \/ r > Len(request)
  <2>1. /\ Len(request) \in Nat /\ Len(request') = Len(request) + 1
        /\ \A r : IsPending(r)' <=> IsPending(r) \/ r = Len(request) + 1
    BY <1>1, EnteredFacts
  <2>2. Len(request) + 1 > Len(request) /\ Len(request) <= Len(request') /\ Len(request') \in Nat
    BY <2>1
  <2> QED
    BY <2>1, <2>2
<1>2. Len(request) \in Nat
  BY LineType
<1>3. ASSUME request' = request, \A r \in 1 .. Len(request) : outcome'[r] = "pending" => outcome[r] = "pending"
      PROVE  /\ Len(request) <= Len(request') /\ Len(request') \in Nat
             /\ \A r : IsPending(r)' => IsPending(r) \/ r > Len(request)
  BY <1>2, <1>3 DEF IsPending
<1>4. CASE (\E es \in Payloads : Submit("append", es)) \/ Submit("barrier", <<>>) \/ SendClose
  BY <1>1, <1>4 DEF Submit, SendClose, Entered, Kinds
<1>5. CASE TakeSender \/ Drain \/ BeginGroup \/ BeginSingle \/ Insert \/ NextAppend \/ UNCHANGED vars
  BY <1>3, <1>5 DEF TakeSender, Drain, BeginGroup, BeginSingle, Insert, NextAppend, client, vars
<1>6. CASE Conflict \/ Fail \/ CommitUncertain \/ Acknowledge \/ RunBarrier
  <2>1. \A r \in 1 .. Len(request) : outcome'[r] = "pending" => outcome[r] = "pending"
    BY <1>6, TellAnswers
    DEF Conflict, Fail, Abort, RetryOrRefuse, CommitUncertain, TellUncertain, Acknowledge, RunBarrier
  <2>2. request' = request
    BY <1>6 DEF Conflict, Fail, Abort, CommitUncertain, Acknowledge, RunBarrier, client
  <2> QED
    BY <1>3, <2>1, <2>2
<1>7. CASE Commit \/ Deliver
  BY <1>3, <1>7 DEF Commit, Deliver, client
<1>8. CASE Stop \/ Reopen
  <2>1. request' = request
    BY <1>8 DEF Stop, Reopen
  <2>2. \A r : ~ IsPending(r)'
    BY <1>8, <2>1, NobodyWaits DEF Reopen
  <2> QED
    BY <1>2, <2>1, <2>2
<1> QED
  BY <1>4, <1>5, <1>6, <1>7, <1>8 DEF Next, Writer

\* What the table is after a step: what it was, or what the transaction saw.
LEMMA TableChanges ==
  ASSUME [Next]_vars
  PROVE  \/ UNCHANGED store
         \/ Committed /\ Inserted /\ (Commit \/ CommitUncertain)
<1>1. Commit => Committed /\ Inserted
  BY DEF Commit
<1>2. CommitUncertain => Inserted /\ (Committed \/ UNCHANGED store)
  BY DEF CommitUncertain
<1>3. (\E es \in Payloads : Submit("append", es)) \/ Submit("barrier", <<>>) \/ TakeSender \/ SendClose
      \/ Drain \/ BeginGroup \/ BeginSingle \/ Insert \/ NextAppend => UNCHANGED store
  BY DEF Submit, TakeSender, SendClose, Drain, BeginGroup, BeginSingle, Insert, NextAppend
<1>4. Conflict \/ Fail \/ Deliver \/ Acknowledge \/ RunBarrier \/ Stop \/ Reopen => UNCHANGED store
  BY DEF Conflict, Fail, Abort, Rollback, Deliver, Acknowledge, RunBarrier, Stop, Reopen
<1>5. UNCHANGED vars => UNCHANGED store
  BY DEF vars
<1> QED
  BY <1>1, <1>2, <1>3, <1>4, <1>5 DEF Next, Writer

\* The table grows by rows of the transaction.
LEMMA TableGrows ==
  ASSUME TypeOK, InLine, phase = "write" => TxSound, [Next]_vars
  PROVE  /\ Len(events) \in Nat /\ Len(events') \in Nat /\ Len(events) <= Len(events')
         /\ \A i \in 1 .. Len(events) : events'[i] = events[i]
         /\ \A i \in Len(events) + 1 .. Len(events') :
              Held(writing, events'[i].req) /\ IsPending(events'[i].req)
<1>1. Len(events) \in Nat /\ Len(txEvents) \in Nat
  BY LenProperties DEF TypeOK
<1>2. CASE UNCHANGED store
  <2>1. events' = events /\ ~ \E i : i \in Len(events) + 1 .. Len(events)
    BY <1>1, <1>2 DEF store
  <2> QED
    BY <1>1, <2>1
<1>3. CASE Committed /\ Inserted
  <2>1. events' = txEvents /\ TxSound
    BY <1>3 DEF Committed, Inserted
  <2>2. \A i \in Len(events) + 1 .. Len(txEvents) : Held(writing, txEvents[i].req)
    <3>1. 1 .. cursor[1] \subseteq 1 .. Len(writing)
      BY <1>3 DEF Inserted
    <3> QED
      BY <2>1, <3>1 DEF TxSound, Held
  <2>3. \A r : Held(writing, r) => IsPending(r)
    BY LineType, HeldType DEF InLine
  <2> QED
    BY <1>1, <2>1, <2>2, <2>3 DEF TxSound
<1> QED
  BY <1>2, <1>3, TableChanges

LEMMA BarriersKept ==
  /\ GaplessInv /\ InLine /\ TableSound
  /\ phase = "write" => TxSound
  /\ BarriersSound /\ [Next]_vars
  => BarriersSound'
<1> SUFFICES ASSUME TypeOK, InLine, TableSound, phase = "write" => TxSound, BarriersSound, [Next]_vars
             PROVE  BarriersSound'
  BY DEF GaplessInv
<1>1. /\ Len(request) <= Len(request') /\ Len(request') \in Nat /\ Len(request) \in Nat
      /\ \A r : IsPending(r)' => IsPending(r) \/ r > Len(request)
  BY WaitsEnd, LineType
<1>2. /\ Len(events) \in Nat /\ Len(events') \in Nat /\ Len(events) <= Len(events')
      /\ \A i \in 1 .. Len(events) : events'[i] = events[i]
      /\ \A i \in Len(events) + 1 .. Len(events') : IsPending(events'[i].req)
  BY TableGrows
<1>3. \A r : IsPending(r) => r \in 1 .. Len(request)
  BY DEF IsPending
<1>4. \A r \in 1 .. Len(request') : r \in Nat
  BY <1>1
<1>5. ASSUME NEW b \in barriers
      PROVE  /\ b.req \in 1 .. Len(request') /\ b.rows <= Len(events')
             /\ \A r \in 1 .. Len(request') : IsPending(r)' => b.req < r
             /\ \A i \in 1 .. Len(events') : events'[i].req < b.req <=> i <= b.rows
  <2>1. /\ b.req \in 1 .. Len(request) /\ b.rows <= Len(events)
        /\ \A r \in 1 .. Len(request) : IsPending(r) => b.req < r
        /\ \A i \in 1 .. Len(events) : events[i].req < b.req <=> i <= b.rows
    BY DEF BarriersSound
  <2>2. b.rows \in Nat
    BY DEF TypeOK, Barrier
  <2>3. \A r \in 1 .. Len(request') : IsPending(r)' => b.req < r
    BY <1>1, <1>3, <1>4, <2>1
  <2>4. \A i \in Len(events) + 1 .. Len(events') : ~ (events'[i].req < b.req) /\ ~ (i <= b.rows)
    <3>1. \A i \in Len(events) + 1 .. Len(events') : b.req < events'[i].req /\ events'[i].req \in 1 .. Len(request)
      BY <1>2, <1>3, <2>1
    <3>2. \A i \in Len(events) + 1 .. Len(events') : ~ (events'[i].req < b.req)
      BY <1>1, <2>1, <3>1
    <3>3. \A i \in Len(events) + 1 .. Len(events') : ~ (i <= b.rows)
      BY <1>2, <2>1, <2>2
    <3> QED
      BY <3>2, <3>3
  <2>5. \A i \in 1 .. Len(events') : i \in 1 .. Len(events) \/ i \in Len(events) + 1 .. Len(events')
    BY <1>2
  <2> QED
    BY <1>1, <1>2, <2>1, <2>2, <2>3, <2>4, <2>5
<1>6. CASE barriers' = barriers
  BY <1>5, <1>6 DEF BarriersSound
<1>7. CASE RunBarrier
  <2>1. PICK h : h = Head(batch)
    OBVIOUS
  <2>2. PICK new : new = [req |-> h, rows |-> Len(events), delivered |-> Len(delivered)]
    OBVIOUS
  <2>3. /\ barriers' = barriers \cup {new} /\ events' = events /\ request' = request /\ ~ Written
    BY <1>7, <2>1, <2>2 DEF RunBarrier, client, store, Written
  <2>4. /\ IsPending(h)
        /\ \A r : IsPending(r)' => h < r
    BY <1>7, <2>1, LineBarrier
  <2>5. \A i \in 1 .. Len(events) : events[i].req < h
    <3>1. \A i \in 1 .. Len(events) : Occurs(events, events[i].req)
      BY DEF Occurs
    <3> QED
      BY <1>3, <2>3, <2>4, <3>1, RowsBehind DEF Ahead
  <2>6. new.req = h /\ new.rows = Len(events)
    BY <2>2
  <2>7. /\ new.req \in 1 .. Len(request') /\ new.rows <= Len(events')
        /\ \A r \in 1 .. Len(request') : IsPending(r)' => new.req < r
        /\ \A i \in 1 .. Len(events') : events'[i].req < new.req <=> i <= new.rows
    BY <1>2, <1>3, <2>3, <2>4, <2>5, <2>6
  <2> QED
    BY <1>5, <2>3, <2>7 DEF BarriersSound
<1>8. barriers' = barriers \/ RunBarrier
  <2>1. (\E es \in Payloads : Submit("append", es)) \/ Submit("barrier", <<>>) \/ TakeSender \/ SendClose
        \/ Drain \/ BeginGroup \/ BeginSingle \/ Insert \/ NextAppend => barriers' = barriers
    BY DEF Submit, TakeSender, SendClose, Drain, BeginGroup, BeginSingle, Insert, NextAppend, seen
  <2>2. Conflict \/ Fail \/ Commit \/ CommitUncertain \/ Deliver \/ Acknowledge \/ Stop \/ Reopen
        => barriers' = barriers
    BY DEF Conflict, Fail, Abort, Commit, CommitUncertain, Deliver, Acknowledge, Stop, Reopen, seen
  <2>3. UNCHANGED vars => barriers' = barriers
    BY DEF vars, seen
  <2> QED
    BY <2>1, <2>2, <2>3 DEF Next, Writer
<1> QED
  BY <1>6, <1>7, <1>8

-----------------------------------------------------------------------------
(* The column last_seq                                                     *)

\* LastSeq looks at the rows of its channel only.
LEMMA LastSeqSame ==
  ASSUME NEW l, NEW m, NEW c,
         \A i \in 1 .. Len(l) : l[i].channel = c => i \in 1 .. Len(m) /\ m[i] = l[i],
         \A i \in 1 .. Len(m) : m[i].channel = c => i \in 1 .. Len(l) /\ m[i] = l[i]
  PROVE  LastSeq(l, c) = LastSeq(m, c)
<1> DEFINE L == {l[i].seq : i \in {j \in 1 .. Len(l) : l[j].channel = c}}
           M == {m[i].seq : i \in {j \in 1 .. Len(m) : m[j].channel = c}}
<1>1. L = M
  OBVIOUS
<1>2. /\ LastSeq(l, c) = IF L = {} THEN 0 ELSE CHOOSE x \in L : \A n \in L : n <= x
      /\ LastSeq(m, c) = IF M = {} THEN 0 ELSE CHOOSE x \in M : \A n \in M : n <= x
  BY DEF LastSeq
<1> HIDE DEF L, M
<1> QED
  BY <1>1, <1>2

LEMMA LastSeqKept ==
  /\ GaplessInv
  /\ phase = "write" => TxSound
  /\ LastSeqAgrees /\ [Next]_vars
  => LastSeqAgrees'
<1> SUFFICES ASSUME TypeOK, phase = "write" => TxSound, LastSeqAgrees, [Next]_vars
             PROVE  LastSeqAgrees'
  BY DEF GaplessInv
<1>1. CASE UNCHANGED store
  <2>1. events' = events /\ names' = names /\ lastSeq' = lastSeq
    BY <1>1 DEF store
  <2>2. \A c : LastSeq(events', c) = LastSeq(events, c)
    BY <2>1
  <2>3. \A c \in Channels : names'[c] # NoName => lastSeq'[c] = LastSeq(events', c)
    BY <2>1, <2>2 DEF LastSeqAgrees
  <2> QED
    BY <2>3 DEF LastSeqAgrees
<1>2. CASE Committed /\ Inserted
  <2> SUFFICES ASSUME NEW c \in Channels, names'[c] # NoName
               PROVE  lastSeq'[c] = LastSeq(events', c)
    BY DEF LastSeqAgrees
  <2>1. /\ events' = txEvents /\ names' = txNames /\ TxSound
        /\ lastSeq'[c] = IF UpdateDue(c) THEN LastSeq(txEvents, c) ELSE lastSeq[c]
    BY <1>2 DEF Committed, Inserted
  <2>2. CASE Wrote(c)
    BY <2>1, <2>2 DEF UpdateDue
  <2>3. CASE ~ Wrote(c)
    <3>1. names[c] = txNames[c] /\ lastSeq'[c] = lastSeq[c]
      BY <2>1, <2>3 DEF TxSound, UpdateDue
    <3>2. lastSeq[c] = LastSeq(events, c)
      BY <2>1, <3>1 DEF LastSeqAgrees
    <3>3. LastSeq(events, c) = LastSeq(txEvents, c)
      <4>1. /\ Len(events) \in Nat /\ Len(txEvents) \in Nat /\ Len(events) <= Len(txEvents)
            /\ \A i \in 1 .. Len(events) : txEvents[i] = events[i]
        BY <2>1, LenProperties DEF TxSound, TypeOK
      <4>2. \A i \in 1 .. Len(txEvents) : i \in 1 .. Len(events) \/ i \in Len(events) + 1 .. Len(txEvents)
        BY <4>1
      <4>3. \A i \in 1 .. Len(events) : i \in 1 .. Len(txEvents)
        BY <4>1
      <4>4. \A i \in 1 .. Len(txEvents) : txEvents[i].channel = c => i \in 1 .. Len(events)
        BY <2>3, <4>2 DEF Wrote
      <4> QED
        BY <4>1, <4>3, <4>4, LastSeqSame
    <3> QED
      BY <2>1, <3>1, <3>2, <3>3
  <2> QED
    BY <2>2, <2>3
<1> QED
  BY <1>1, <1>2, TableChanges

-----------------------------------------------------------------------------
(* What the callback gets                                                  *)

\* The rows of the transaction are the last ones of the table.
LEMMA LastRows ==
  ASSUME TypeOK, InLine, TableSound, phase = "deliver",
         NEW i \in 1 .. Len(events), NEW j \in 1 .. Len(events), i <= j,
         Held(writing, events[i].req)
  PROVE  Held(writing, events[j].req)
<1>1. events[i].req \in 1 .. Len(request) /\ events[j].req \in 1 .. Len(request)
  BY DEF TableSound, RowsMatch
<1>2. events[i].req <= events[j].req
  <2>1. i = j \/ i < j
    BY LenProperties DEF TypeOK
  <2> QED
    BY <1>1, <2>1 DEF TableSound, RowsOrdered
<1>3. IsPending(events[i].req)
  BY <1>1 DEF InLine
<1>4. ~ Ahead(events[j].req)
  BY <1>1, <1>2, <1>3 DEF Ahead
<1>5. Occurs(events, events[j].req)
  BY DEF Occurs
<1> QED
  BY <1>1, <1>4, <1>5 DEF TableSound

\* Hence the rows that write() returned are those of the transaction.
LEMMA NumberedRows ==
  ASSUME TypeOK, InLine, TableSound, phase = "deliver"
  PROVE  /\ Numbered \in Seq(Row)
         /\ \A k \in 1 .. Len(Numbered) : \E i \in 1 .. Len(events) :
              Numbered[k] = events[i] /\ Held(writing, events[i].req)
         /\ \A i \in 1 .. Len(events) : Held(writing, events[i].req) =>
              \E k \in 1 .. Len(Numbered) : Numbered[k] = events[i]
<1> DEFINE n == Len(events)
           mine == {i \in 1 .. n : \E j \in 1 .. Len(writing) : writing[j] = events[i].req}
           m == n - Cardinality(mine) + 1
<1>1. n \in Nat /\ \A i \in 1 .. n : events[i] \in Row
  BY LenProperties, ElementOfSeq DEF TypeOK
<1>2. \A i \in 1 .. n : i \in mine <=> Held(writing, events[i].req)
  BY DEF Held
<1>3. \A i, j \in 1 .. n : i <= j /\ i \in mine => j \in mine
  BY <1>2, LastRows
<1>4. mine \subseteq 1 .. n
  OBVIOUS
<1>5. Numbered = SubSeq(events, m, n)
  BY DEF Numbered
<1> HIDE DEF mine
<1>6. /\ IsFiniteSet(mine) /\ Cardinality(mine) \in Nat /\ Cardinality(mine) <= n
  <2>1. IsFiniteSet(1 .. n) /\ Cardinality(1 .. n) = n
    <3>1. n \in Nat
      BY <1>1
    <3> HIDE DEF n
    <3>2. 1 \in Int /\ n \in Int
      BY <3>1
    <3>3. /\ IsFiniteSet(1 .. n)
          /\ Cardinality(1 .. n) = IF 1 > n THEN 0 ELSE n - 1 + 1
      BY <3>2, FS_Interval
    <3> QED
      BY <3>1, <3>3
  <2> QED
    BY <1>4, <2>1, FS_Subset, FS_CardinalityType
<1>7. \A i \in mine : m <= i
  <2> SUFFICES ASSUME NEW i \in mine PROVE m <= i
    OBVIOUS
  <2>1. i \in 1 .. n
    BY <1>4
  <2>2. i .. n \subseteq mine
    BY <1>1, <1>3, <2>1
  <2>3. IsFiniteSet(i .. n) /\ Cardinality(i .. n) = n - i + 1
    <3>1. i \in Int /\ n \in Int /\ i <= n
      BY <1>1, <2>1
    <3> QED
      BY <3>1, FS_Interval
  <2>4. Cardinality(i .. n) <= Cardinality(mine)
    BY <1>6, <2>2, FS_Subset
  <2> QED
    BY <1>1, <1>6, <2>1, <2>3, <2>4
<1>8. \A i \in 1 .. n : m <= i => i \in mine
  <2> SUFFICES ASSUME NEW i \in 1 .. n, m <= i, i \notin mine PROVE FALSE
    OBVIOUS
  <2>1. mine \subseteq i + 1 .. n
    <3>1. \A j \in mine : j \in 1 .. n /\ ~ (j <= i)
      BY <1>3, <1>4
    <3> QED
      BY <1>1, <3>1
  <2>2. IsFiniteSet(i + 1 .. n) /\ Cardinality(i + 1 .. n) = n - i
    <3>1. i + 1 \in Int /\ n \in Int
      BY <1>1
    <3>2. /\ IsFiniteSet(i + 1 .. n)
          /\ Cardinality(i + 1 .. n) = IF i + 1 > n THEN 0 ELSE n - (i + 1) + 1
      BY <3>1, FS_Interval
    <3> QED
      BY <1>1, <3>2
  <2>3. Cardinality(mine) <= n - i
    <3>1. PICK rest : rest = i + 1 .. n
      OBVIOUS
    <3>2. Cardinality(mine) <= Cardinality(rest)
      <4>1. IsFiniteSet(rest) /\ mine \subseteq rest
        BY <2>1, <2>2, <3>1
      <4> QED
        BY <4>1, FS_Subset
    <3> QED
      BY <2>2, <3>1, <3>2
  <2> QED
    BY <1>1, <1>6, <2>3
<1>9. m \in 1 .. n + 1
  BY <1>1, <1>6
<1> HIDE DEF m
<1>10. /\ Numbered \in Seq(Row) /\ Len(Numbered) = n - m + 1
       /\ \A k \in 1 .. n - m + 1 : Numbered[k] = events[m + k - 1]
  <2>1. \A i \in m .. n : events[i] \in Row
    BY <1>1, <1>9
  <2>2. /\ Numbered \in Seq(Row) /\ Len(Numbered) = IF m <= n THEN n - m + 1 ELSE 0
        /\ \A k \in 1 .. n - m + 1 : Numbered[k] = events[m + k - 1]
    BY <1>1, <1>5, <1>9, <2>1, SubSeqProperties
  <2> QED
    BY <1>1, <1>9, <2>2
<1>11. \A k \in 1 .. n - m + 1 : m + k - 1 \in 1 .. n /\ m + k - 1 \in mine
  <2>1. \A k \in 1 .. n - m + 1 : m + k - 1 \in 1 .. n /\ m <= m + k - 1
    BY <1>1, <1>9
  <2> QED
    BY <1>8, <2>1
<1>12. \A i \in mine : i \in 1 .. n /\ i - m + 1 \in 1 .. n - m + 1 /\ m + (i - m + 1) - 1 = i
  BY <1>1, <1>4, <1>7, <1>9
<1>13. \A i \in mine : Numbered[i - m + 1] = events[i]
  BY <1>10, <1>12
<1> QED
  BY <1>2, <1>10, <1>11, <1>12, <1>13

\* The callback has had the rows of the table, those of the transaction not
\* yet in the phase in which it is due.
LEMMA DeliveredKept ==
  /\ GaplessInv /\ InLine /\ TableSound
  /\ phase = "write" => TxSound
  /\ DeliveredSound /\ [Next]_vars
  => DeliveredSound'
<1> SUFFICES ASSUME TypeOK, InLine, TableSound, phase = "write" => TxSound, DeliveredSound, [Next]_vars
             PROVE  DeliveredSound'
  BY DEF GaplessInv
<1>1. /\ Len(events) \in Nat /\ Len(events') \in Nat /\ Len(events) <= Len(events')
      /\ \A i \in 1 .. Len(events) : i \in 1 .. Len(events') /\ events'[i] = events[i]
  BY TableGrows
<1>2. \A i \in 1 .. Len(delivered) : \E j \in 1 .. Len(events') :
        delivered[i] = events'[j] /\ j \in 1 .. Len(events)
  BY <1>1 DEF DeliveredSound
<1>3. ASSUME delivered' = delivered, phase' \notin {"deliver", "ack"}
      PROVE  DeliveredSound'
  BY <1>2, <1>3 DEF DeliveredSound
<1>4. ASSUME UNCHANGED <<delivered, phase, writing, events>>
      PROVE  DeliveredSound'
  BY <1>4 DEF DeliveredSound, Held
<1>5. CASE (\E es \in Payloads : Submit("append", es)) \/ Submit("barrier", <<>>) \/ SendClose
           \/ TakeSender \/ UNCHANGED vars
  BY <1>4, <1>5 DEF Submit, SendClose, TakeSender, tx, store, seen, vars
<1>6. CASE Drain \/ BeginGroup \/ BeginSingle \/ Insert \/ NextAppend
  BY <1>3, <1>6 DEF Drain, BeginGroup, BeginSingle, Begin, Insert, NextAppend, seen
<1>7. CASE Conflict \/ Fail \/ CommitUncertain \/ Acknowledge
  BY <1>3, <1>7 DEF Conflict, Fail, Abort, CommitUncertain, Acknowledge, seen
<1>8. CASE RunBarrier \/ Stop
  BY <1>3, <1>8 DEF RunBarrier, Stop, seen
<1>9. CASE Commit
  <2>1. /\ delivered' = delivered /\ writing' = writing /\ phase' = "deliver" /\ ~ Written
        /\ events' = txEvents
    BY <1>9 DEF Commit, CallbackFirst, Committed, Inserted, Written, tx, seen
  <2>2. \A j \in 1 .. Len(events) : ~ Held(writing, events[j].req)
    <3>1. \A j \in 1 .. Len(events) : Occurs(events, events[j].req)
      BY DEF Occurs
    <3>2. \A r : Held(writing, r) => IsPending(r)
      BY LineType, HeldType DEF InLine
    <3> QED
      BY <2>1, <3>1, <3>2, RowsBehind
  <2>3. \A i \in 1 .. Len(delivered) : \E j \in 1 .. Len(events') :
          delivered[i] = events'[j] /\ ~ Held(writing, events'[j].req)
    BY <1>1, <1>2, <2>2
  <2> QED
    BY <2>1, <2>3 DEF DeliveredSound, Held
<1>10. CASE Deliver
  <2>1. /\ delivered' = delivered \o Numbered /\ writing' = writing /\ phase' = "ack"
        /\ events' = events /\ phase = "deliver"
    BY <1>10 DEF Deliver, tx, store
  <2>2. /\ Numbered \in Seq(Row)
        /\ \A k \in 1 .. Len(Numbered) : \E i \in 1 .. Len(events) : Numbered[k] = events[i]
        /\ \A i \in 1 .. Len(events) : Held(writing, events[i].req) =>
             \E k \in 1 .. Len(Numbered) : Numbered[k] = events[i]
    BY <2>1, NumberedRows
  <2>3. PICK n, l, d : n = Numbered /\ l = delivered' /\ d = delivered
    OBVIOUS
  <2>4. /\ Len(l) = Len(d) + Len(n) /\ Len(d) \in Nat /\ Len(n) \in Nat
        /\ \A i \in 1 .. Len(l) : l[i] = IF i <= Len(d) THEN d[i] ELSE n[i - Len(d)]
    <3>1. d \in Seq(Row) /\ n \in Seq(Row) /\ l = d \o n
      BY <2>1, <2>2, <2>3 DEF TypeOK
    <3> QED
      BY <3>1, ConcatProperties, LenProperties
  <2>5. \A i \in 1 .. Len(l) : \E j \in 1 .. Len(events) : l[i] = events[j]
    <3> SUFFICES ASSUME NEW i \in 1 .. Len(l) PROVE \E j \in 1 .. Len(events) : l[i] = events[j]
      OBVIOUS
    <3>1. CASE i <= Len(d)
      <4>1. i \in 1 .. Len(d) /\ l[i] = d[i]
        BY <2>4, <3>1
      <4> QED
        BY <2>3, <4>1 DEF DeliveredSound
    <3>2. CASE ~ (i <= Len(d))
      <4>1. i - Len(d) \in 1 .. Len(n) /\ l[i] = n[i - Len(d)]
        BY <2>4, <3>2
      <4> QED
        BY <2>2, <2>3, <4>1
    <3> QED
      BY <3>1, <3>2
  <2>6. \A i \in 1 .. Len(events) : Held(writing, events[i].req) =>
          \E k \in 1 .. Len(l) : l[k] = events[i]
    <3> SUFFICES ASSUME NEW i \in 1 .. Len(events), Held(writing, events[i].req)
                 PROVE  \E k \in 1 .. Len(l) : l[k] = events[i]
      OBVIOUS
    <3>1. PICK k \in 1 .. Len(n) : n[k] = events[i]
      BY <2>2, <2>3
    <3>2. Len(d) + k \in 1 .. Len(l) /\ ~ (Len(d) + k <= Len(d)) /\ (Len(d) + k) - Len(d) = k
      BY <2>4
    <3>3. l[Len(d) + k] = n[k]
      BY <2>4, <3>2
    <3> QED
      BY <3>1, <3>2, <3>3
  <2> QED
    BY <2>1, <2>3, <2>5, <2>6 DEF DeliveredSound, Held
<1>11. CASE Reopen
  <2>1. delivered' = <<>> /\ phase' = "process"
    BY <1>11 DEF Reopen
  <2> QED
    BY <2>1, EmptySeq DEF DeliveredSound
<1> QED
  BY <1>5, <1>6, <1>7, <1>8, <1>9, <1>10, <1>11 DEF Next, Writer

-----------------------------------------------------------------------------
(* What the journal reports                                                *)

LEMMA InitRInv == Init => RInv
<1> SUFFICES ASSUME Init PROVE RInv
  OBVIOUS
<1>1. /\ request = <<>> /\ outcome = <<>> /\ queue = <<>> /\ batch = <<>> /\ group = <<>>
      /\ writing = <<>> /\ events = <<>> /\ delivered = <<>> /\ barriers = {}
      /\ phase = "process" /\ names = [c \in Channels |-> NoName]
  BY DEF Init
<1>2. ~ \E i : i \in 1 .. Len(<<>>)
  BY EmptySeq
<1>3. InLine
  BY <1>1, <1>2, EmptyLine, EmptySeq DEF InLine, Line
<1>4. TableSound
  BY <1>1, <1>2 DEF TableSound, RowsMatch, RowsOrdered
<1>5. BarriersSound /\ DeliveredSound /\ LastSeqAgrees
  BY <1>1, <1>2 DEF BarriersSound, DeliveredSound, LastSeqAgrees
<1> QED
  BY <1>1, <1>3, <1>4, <1>5 DEF RInv

LEMMA NextRInv == GaplessInv /\ RInv /\ [Next]_vars => RInv'
BY LineKept, TableKept, TxKept, BarriersKept, DeliveredKept, LastSeqKept DEF RInv

LEMMA RInvReports == RInv => ReportsAreTrue
<1> SUFFICES ASSUME RInv PROVE ReportsAreTrue
  OBVIOUS
<1>1. AnswersAreTrue
  <2> SUFFICES ASSUME NEW r \in 1 .. Len(request)
               PROVE  /\ outcome[r] = "ok" => RowsOf(r) = 1 .. Len(request[r].events)
                      /\ outcome[r] = "rejected" => RowsOf(r) = {}
    BY DEF AnswersAreTrue
  <2>1. \A p : p \in RowsOf(r) <=> Has(events, r, p)
    BY DEF RowsOf, Has
  <2>2. \A p : Has(events, r, p) => p \in 1 .. Len(request[r].events) /\ Occurs(events, r)
    BY DEF Has, Occurs, RInv, TableSound, RowsMatch
  <2>3. outcome[r] = "ok" => \A p \in 1 .. Len(request[r].events) : Has(events, r, p)
    BY DEF RInv, TableSound, Entire
  <2>4. outcome[r] = "rejected" => ~ Occurs(events, r)
    BY DEF RInv, TableSound
  <2> QED
    BY <2>1, <2>2, <2>3, <2>4
<1>2. BarrierSeparates
  BY DEF RInv, BarriersSound, BarrierSeparates
<1> QED
  BY <1>1, <1>2 DEF RInv, ReportsAreTrue

\* What the journal tells is true: an acknowledged append is in the table
\* whole and a refused one not at all, a barrier has behind it what was
\* submitted before it and nothing else, and last_seq is the table's.
THEOREM ReportsCorrect == Spec => []ReportsAreTrue
BY InitGaplessInv, NextGaplessInv, InitRInv, NextRInv, RInvReports, PTL DEF Spec

-----------------------------------------------------------------------------
(* The journal implements the ordered log                                  *)

\* The state of the ordered log, in the words of the journal.
LEMMA PromiseView ==
  ASSUME TypeOK
  PROVE  /\ Len(Asked) = Len(request) /\ Len(ToldEach) = Len(request)
         /\ \A r \in 1 .. Len(request) :
              /\ ToldEach[r] = Told(outcome[r])
              /\ Len(Asked[r]) = Len(request[r].events)
              /\ \A p \in 1 .. Len(request[r].events) : Asked[r][p] = request[r].events[p].channel
         /\ \A r : r \in Promise!Pending <=> IsPending(r)
         /\ \A r : Promise!Logged(r) <=> Occurs(events, r)
<1>1. Len(request) \in Nat /\ Len(outcome) = Len(request)
  BY LineType
<1>2. Len(Asked) = Len(request) /\ Len(ToldEach) = Len(request)
  BY <1>1 DEF Asked, ToldEach
<1>3. ASSUME NEW r \in 1 .. Len(request)
      PROVE  /\ ToldEach[r] = Told(outcome[r])
             /\ Len(Asked[r]) = Len(request[r].events)
             /\ \A p \in 1 .. Len(request[r].events) : Asked[r][p] = request[r].events[p].channel
  <2>1. Asked[r] = [i \in 1 .. Len(request[r].events) |-> request[r].events[i].channel]
    BY DEF Asked
  <2>2. Len(request[r].events) \in Nat
    BY EventsType
  <2>3. ToldEach[r] = Told(outcome[r])
    BY <1>1 DEF ToldEach
  <2> QED
    BY <2>1, <2>2, <2>3
<1>4. \A r : r \in Promise!Pending <=> IsPending(r)
  <2>1. \A r \in 1 .. Len(request) : ToldEach[r] = "pending" <=> outcome[r] = "pending"
    BY <1>3 DEF Told
  <2> QED
    BY <1>2, <2>1 DEF Promise!Pending, IsPending
<1>5. \A r : Promise!Logged(r) <=> Occurs(events, r)
  BY DEF Promise!Logged, Occurs
<1> QED
  BY <1>2, <1>3, <1>4, <1>5

LEMMA PromiseTold ==
  ASSUME TypeOK, TypeOK', request' = request, NEW R, NEW o,
         \A r \in 1 .. Len(request) : Told(outcome'[r]) = IF r \in R THEN o ELSE Told(outcome[r])
  PROVE  Promise!Answer(R, o) /\ Asked' = Asked
<1>1. Len(outcome') = Len(request) /\ Len(ToldEach) = Len(request)
  BY PromiseView DEF TypeOK
<1>2. ToldEach' = [r \in 1 .. Len(request) |-> Told(outcome'[r])]
  BY <1>1 DEF ToldEach
<1>3. \A r \in 1 .. Len(request) : ToldEach[r] = Told(outcome[r])
  BY PromiseView
<1>4. ToldEach' = [r \in 1 .. Len(ToldEach) |-> IF r \in R THEN o ELSE ToldEach[r]]
  BY <1>1, <1>2, <1>3
<1>5. Asked' = Asked
  BY DEF Asked
<1> QED
  BY <1>4, <1>5 DEF Promise!Answer

LEMMA InitPromise == Init => Promise!Init
<1> SUFFICES ASSUME Init PROVE Promise!Init
  OBVIOUS
<1>1. /\ request = <<>> /\ outcome = <<>> /\ events = <<>> /\ delivered = <<>>
  BY DEF Init
<1>2. Len(<<>>) = 0 /\ ~ \E i : i \in 1 .. 0
  BY EmptySeq
<1>3. Asked = <<>> /\ ToldEach = <<>>
  BY <1>1, <1>2 DEF Asked, ToldEach
<1>4. Published = {}
  BY <1>1, <1>2 DEF Published
<1> QED
  BY <1>1, <1>3, <1>4 DEF Promise!Init

LEMMA PromiseEntered ==
  ASSUME TypeOK, TypeOK', NEW kind, NEW es, Entered(kind, es)
  PROVE  Promise!Submit
<1>1. /\ Len(request) \in Nat /\ Len(request') = Len(request) + 1
      /\ \A r \in 1 .. Len(request) : request'[r] = request[r] /\ outcome'[r] = outcome[r]
      /\ outcome'[Len(request) + 1] = "pending"
  BY EnteredFacts
<1>2. /\ Len(Asked) = Len(request) /\ Len(ToldEach) = Len(request)
      /\ Len(outcome) = Len(request) /\ Len(outcome') = Len(request')
  BY PromiseView DEF TypeOK
<1>3. /\ Asked' = [r \in 1 .. Len(request') |->
                     [i \in 1 .. Len(request'[r].events) |-> request'[r].events[i].channel]]
      /\ ToldEach' = [r \in 1 .. Len(request') |-> Told(outcome'[r])]
  BY <1>2 DEF Asked, ToldEach
<1>4. Len(Asked') = Len(request') /\ Len(ToldEach') = Len(request')
  BY <1>1, <1>3
<1>5. \A r \in 1 .. Len(request) : r \in 1 .. Len(request')
  BY <1>1
<1>6. \A r \in 1 .. Len(request) : Asked'[r] = Asked[r]
  BY <1>1, <1>3, <1>5 DEF Asked
<1>7. \A r \in 1 .. Len(request) : ToldEach'[r] = ToldEach[r]
  BY <1>1, <1>2, <1>3, <1>5 DEF ToldEach
<1>8. ToldEach'[Len(request')] = "pending"
  BY <1>1, <1>3 DEF Told
<1>9. events' = events /\ Published' = Published
  BY DEF Entered, store, seen, Published
<1> QED
  BY <1>1, <1>2, <1>4, <1>6, <1>7, <1>8, <1>9 DEF Promise!Submit

\* The requests of the transaction are the first in line.
LEMMA PromiseInTurn ==
  ASSUME TypeOK, InLine, NEW R, \A r : r \in R <=> Held(writing, r)
  PROVE  /\ \A r \in R : r \in 1 .. Len(request) /\ IsPending(r)
         /\ R \in SUBSET Promise!Pending /\ Promise!InTurn(R)
<1>1. \A r \in R : r \in 1 .. Len(request) /\ IsPending(r) /\ r \in Requests
  BY LineType, HeldType DEF InLine
<1>2. \A r : r \in Promise!Pending <=> IsPending(r)
  BY PromiseView
<1>3. ASSUME NEW r \in R, NEW q, IsPending(q), q < r
      PROVE  q \in R
  <2>1. q \in Requests /\ (Held(writing, q) \/ Held(group, q) \/ Held(batch, q) \/ Held(queue, q))
    BY <1>3, LineType DEF IsPending, InLine
  <2>2. ~ (Held(group, q) \/ Held(batch, q) \/ Held(queue, q))
    <3>1. Held(group, q) \/ Held(batch, q) \/ Held(queue, q) => r < q
      BY <1>1, <2>1 DEF InLine, Line, Before
    <3>2. \A a, b \in Requests : ~ (a < b /\ b < a)
      BY DEF Requests
    <3> QED
      BY <1>1, <1>3, <2>1, <3>1, <3>2
  <2> QED
    BY <2>1, <2>2
<1>4. Promise!InTurn(R)
  BY <1>2, <1>3 DEF Promise!InTurn
<1> QED
  BY <1>1, <1>2, <1>4

\* The new rows are those of the requests of the transaction, in order.
LEMMA PromiseExtended ==
  ASSUME GaplessInv, GaplessInv', InLine, TableSound, TxSound, Inserted, Committed, request' = request,
         NEW R, \A r : r \in R <=> Held(writing, r)
  PROVE  Promise!Extend(R) /\ \A r \in R : ~ Promise!Logged(r)
<1>a. TypeOK /\ Gapless(txEvents)
  BY DEF GaplessInv
<1>b. PICK l, n : l = txEvents /\ n = Len(events)
  OBVIOUS
<1>1. events' = l /\ n \in Nat /\ Len(l) \in Nat /\ n <= Len(l) /\ \A i \in 1 .. n : l[i] = events[i]
  BY <1>a, <1>b, LenProperties DEF Committed, TypeOK, TxSound
<1>2. \A r \in R : r \in 1 .. Len(request) /\ IsPending(r)
  BY <1>a, PromiseInTurn
<1>3. \A r \in R : ~ Occurs(events, r)
  <2>1. ~ Written
    BY DEF Written, Inserted
  <2> QED
    BY <1>a, <1>2, <2>1, RowsBehind
<1>4. \A j \in n + 1 .. Len(l) : j \in 1 .. Len(l)
  BY <1>1
<1>5. ASSUME NEW j \in n + 1 .. Len(l)
      PROVE  /\ \A i \in 1 .. j - 1 : Promise!Ordered(l, i, j)
             /\ Promise!Numbered(l, j)
             /\ l[j].channel = Asked[l[j].req][l[j].pos]
  <2>1. \A i \in 1 .. j - 1 : i \in 1 .. Len(l) /\ i < j
    BY <1>1
  <2>2. \A i \in 1 .. j - 1 : Promise!Ordered(l, i, j)
    <3>1. \A i \in 1 .. j - 1 : l[i].channel = l[j].channel => l[i].seq < l[j].seq
      BY <1>a, <1>b, <1>4 DEF Gapless
    <3>2. \A i \in 1 .. j - 1 : l[i].req < l[j].req \/ (l[i].req = l[j].req /\ l[i].pos < l[j].pos)
      BY <1>b, <1>4, <2>1 DEF TxSound, RowsOrdered
    <3> QED
      BY <3>1, <3>2 DEF Promise!Ordered
  <2>3. Promise!Numbered(l, j)
    BY <1>a, <1>b, <1>4 DEF Gapless, Promise!Numbered
  <2>4. /\ l[j].req \in 1 .. Len(request) /\ l[j].pos \in 1 .. Len(request[l[j].req].events)
        /\ l[j].channel = request[l[j].req].events[l[j].pos].channel
    BY <1>b, <1>4 DEF TxSound, RowsMatch
  <2>5. l[j].channel = Asked[l[j].req][l[j].pos]
    BY <1>a, <2>4, PromiseView
  <2> QED
    BY <2>2, <2>3, <2>5
<1>6. ASSUME NEW j \in n + 1 .. Len(l)
      PROVE  l[j].req \in R /\ l[j].pos \in 1 .. Len(Asked[l[j].req])
  <2>1. Held(writing, l[j].req)
    <3>1. 1 .. cursor[1] \subseteq 1 .. Len(writing)
      BY DEF Inserted
    <3> QED
      BY <1>b, <3>1 DEF TxSound, Held
  <2>2. l[j].req \in 1 .. Len(request) /\ l[j].pos \in 1 .. Len(request[l[j].req].events)
    BY <1>b, <1>4 DEF TxSound, RowsMatch
  <2> QED
    BY <1>a, <2>1, <2>2, PromiseView
<1>7. ASSUME NEW r \in R, NEW p \in 1 .. Len(Asked[r])
      PROVE  \E j \in n + 1 .. Len(l) : l[j].req = r /\ l[j].pos = p
  <2>1. p \in 1 .. Len(request[r].events)
    BY <1>a, <1>2, PromiseView
  <2>2. Entire(txEvents, r)
    BY <1>a, <1>2, TxWhole
  <2>3. PICK j \in 1 .. Len(l) : l[j].req = r /\ l[j].pos = p
    BY <1>b, <2>1, <2>2 DEF Entire, Has
  <2>4. j \notin 1 .. n
    BY <1>1, <1>b, <1>3, <2>3 DEF Occurs
  <2>5. j \in n + 1 .. Len(l)
    BY <1>1, <2>4
  <2> QED
    BY <2>3, <2>5
<1>8. {<<l[j].req, l[j].pos>> : j \in n + 1 .. Len(l)} = UNION {{r} \X (1 .. Len(Asked[r])) : r \in R}
  <2>1. ASSUME NEW x \in {<<l[j].req, l[j].pos>> : j \in n + 1 .. Len(l)}
        PROVE  x \in UNION {{r} \X (1 .. Len(Asked[r])) : r \in R}
    <3>1. PICK j \in n + 1 .. Len(l) : x = <<l[j].req, l[j].pos>>
      OBVIOUS
    <3>2. x \in {l[j].req} \X (1 .. Len(Asked[l[j].req])) /\ l[j].req \in R
      BY <1>6, <3>1
    <3> QED
      BY <3>2
  <2>2. ASSUME NEW x \in UNION {{r} \X (1 .. Len(Asked[r])) : r \in R}
        PROVE  x \in {<<l[j].req, l[j].pos>> : j \in n + 1 .. Len(l)}
    <3>1. PICK r \in R : x \in {r} \X (1 .. Len(Asked[r]))
      OBVIOUS
    <3>2. PICK p \in 1 .. Len(Asked[r]) : x = <<r, p>>
      BY <3>1
    <3>3. PICK j \in n + 1 .. Len(l) : l[j].req = r /\ l[j].pos = p
      BY <1>7
    <3> QED
      BY <3>2, <3>3
  <2> QED
    BY <2>1, <2>2
<1>9. Promise!Extend(R)
  BY <1>1, <1>b, <1>5, <1>8 DEF Promise!Extend
<1>10. \A r \in R : ~ Promise!Logged(r)
  BY <1>a, <1>3, PromiseView
<1> QED
  BY <1>9, <1>10

\* tx.commit(): the requests of the transaction enter the log.
LEMMA PromiseCommitted ==
  ASSUME GaplessInv, GaplessInv', InLine, TableSound, TxSound, Inserted, Committed, request' = request,
         \/ outcome' = outcome
         \/ Tell(writing, "uncertain"),
         delivered' = delivered
  PROVE  Promise!Write
<1>a. TypeOK /\ TypeOK'
  BY DEF GaplessInv
<1>1. PICK R : R = {r \in 1 .. Len(request) : Held(writing, r)}
  OBVIOUS
<1>2. \A r : r \in R <=> Held(writing, r)
  <2>1. \A r : Held(writing, r) => r \in 1 .. Len(request)
    BY <1>a, LineType, HeldType
  <2> QED
    BY <1>1, <2>1
<1>3. Promise!Extend(R) /\ \A r \in R : ~ Promise!Logged(r)
  BY <1>2, PromiseExtended
<1>4. R \in SUBSET Promise!Pending
  BY <1>a, <1>2, PromiseInTurn
<1>5. Asked' = Asked /\ Published' = Published
  BY DEF Asked, Published
<1>6. CASE outcome' = outcome
  <2>1. ToldEach' = ToldEach
    BY <1>6 DEF ToldEach
  <2> QED
    BY <1>3, <1>4, <1>5, <2>1 DEF Promise!Write
<1>7. CASE Tell(writing, "uncertain")
  <2>1. \A r \in 1 .. Len(request) : outcome'[r] = IF Held(writing, r) THEN "uncertain" ELSE outcome[r]
    BY <1>7, <1>a, TellHeld
  <2>2. \A r \in 1 .. Len(request) : Told(outcome'[r]) = IF r \in R THEN "error" ELSE Told(outcome[r])
    BY <1>2, <2>1 DEF Told
  <2>3. Promise!Answer(R, "error")
    BY <1>a, <2>2, PromiseTold
  <2> QED
    BY <1>3, <1>4, <1>5, <2>3 DEF Promise!Write
<1> QED
  BY <1>6, <1>7

\* A transaction of which nothing is in the table is refused.
LEMMA PromiseRefused ==
  ASSUME TypeOK, TypeOK', InLine, TableSound, phase = "write",
         NEW o \in {"rejected", "uncertain"}, Tell(writing, o),
         request' = request, events' = events, delivered' = delivered
  PROVE  Promise!Fail
<1>1. PICK R : R = {r \in 1 .. Len(request) : Held(writing, r)}
  OBVIOUS
<1>2. \A r : r \in R <=> Held(writing, r)
  <2>1. \A r : Held(writing, r) => r \in 1 .. Len(request)
    BY LineType, HeldType
  <2> QED
    BY <1>1, <2>1
<1>3. /\ \A r \in R : IsPending(r)
      /\ R \in SUBSET Promise!Pending /\ Promise!InTurn(R)
  BY <1>2, PromiseInTurn
<1>4. \A r \in R : ~ Promise!Logged(r)
  <2>1. ~ Written
    BY DEF Written
  <2> QED
    BY <1>3, <2>1, RowsBehind, PromiseView
<1>5. \A r \in 1 .. Len(request) : Told(outcome'[r]) = IF r \in R THEN "error" ELSE Told(outcome[r])
  <2>1. \A r \in 1 .. Len(request) : outcome'[r] = IF Held(writing, r) THEN o ELSE outcome[r]
    BY TellHeld
  <2> QED
    BY <1>2, <2>1 DEF Told
<1>6. Promise!Answer(R, "error") /\ Asked' = Asked
  BY <1>5, PromiseTold
<1>7. Published' = Published
  BY DEF Published
<1> QED
  BY <1>3, <1>4, <1>6, <1>7 DEF Promise!Fail

\* The callback publishes the rows of the transaction, after all the others.
LEMMA PromisePublished ==
  ASSUME TypeOK, InLine, TableSound, DeliveredSound, Deliver
  PROVE  Promise!Publish
<1>1. /\ delivered' = delivered \o Numbered /\ phase = "deliver"
      /\ request' = request /\ outcome' = outcome /\ events' = events
  BY DEF Deliver, client, store
<1>2. /\ Numbered \in Seq(Row)
      /\ \A k \in 1 .. Len(Numbered) : \E i \in 1 .. Len(events) :
           Numbered[k] = events[i] /\ Held(writing, events[i].req)
      /\ \A i \in 1 .. Len(events) : Held(writing, events[i].req) =>
           \E k \in 1 .. Len(Numbered) : Numbered[k] = events[i]
  BY <1>1, NumberedRows
<1>3. PICK I : I = {i \in 1 .. Len(events) : Held(writing, events[i].req)}
  OBVIOUS
<1>4. PICK n, d, l : n = Numbered /\ d = delivered /\ l = delivered'
  OBVIOUS
<1>5. /\ Len(l) = Len(d) + Len(n) /\ Len(d) \in Nat /\ Len(n) \in Nat
      /\ \A i \in 1 .. Len(l) : l[i] = IF i <= Len(d) THEN d[i] ELSE n[i - Len(d)]
  <2>1. d \in Seq(Row) /\ n \in Seq(Row) /\ l = d \o n
    BY <1>1, <1>2, <1>4 DEF TypeOK
  <2> QED
    BY <2>1, ConcatProperties, LenProperties
<1>6. \A x : x \in Published <=> \E i \in 1 .. Len(d) : x = d[i]
  BY <1>4 DEF Published
<1>7. \A x : x \in Published' <=> \E i \in 1 .. Len(l) : x = l[i]
  BY <1>4 DEF Published
<1>8. \A x : x \in {events[i] : i \in I} <=> \E k \in 1 .. Len(n) : x = n[k]
  <2>1. \A x : x \in {events[i] : i \in I} <=> \E i \in I : x = events[i]
    OBVIOUS
  <2>2. \A i \in I : \E k \in 1 .. Len(n) : events[i] = n[k]
    BY <1>2, <1>3, <1>4
  <2>3. \A k \in 1 .. Len(n) : \E i \in I : n[k] = events[i]
    BY <1>2, <1>3, <1>4
  <2> QED
    BY <2>1, <2>2, <2>3
<1>9. \A x : x \in Published' <=> x \in Published \/ x \in {events[i] : i \in I}
  <2>1. ASSUME NEW i \in 1 .. Len(l)
        PROVE  (\E k \in 1 .. Len(d) : l[i] = d[k]) \/ (\E k \in 1 .. Len(n) : l[i] = n[k])
    <3>1. CASE i <= Len(d)
      <4>1. i \in 1 .. Len(d) /\ l[i] = d[i]
        BY <1>5, <3>1
      <4> QED
        BY <4>1
    <3>2. CASE ~ (i <= Len(d))
      <4>1. i - Len(d) \in 1 .. Len(n) /\ l[i] = n[i - Len(d)]
        BY <1>5, <3>2
      <4> QED
        BY <4>1
    <3> QED
      BY <3>1, <3>2
  <2>2. ASSUME NEW k \in 1 .. Len(d)
        PROVE  \E i \in 1 .. Len(l) : d[k] = l[i]
    <3>1. k \in 1 .. Len(l) /\ l[k] = d[k]
      BY <1>5
    <3> QED
      BY <3>1
  <2>3. ASSUME NEW k \in 1 .. Len(n)
        PROVE  \E i \in 1 .. Len(l) : n[k] = l[i]
    <3>1. Len(d) + k \in 1 .. Len(l) /\ ~ (Len(d) + k <= Len(d)) /\ (Len(d) + k) - Len(d) = k
      BY <1>5
    <3>2. l[Len(d) + k] = n[k]
      BY <1>5, <3>1
    <3> QED
      BY <3>1, <3>2
  <2>4. ASSUME NEW x
        PROVE  (\E i \in 1 .. Len(l) : x = l[i])
               <=> (\E i \in 1 .. Len(d) : x = d[i]) \/ (\E k \in 1 .. Len(n) : x = n[k])
    <3>1. ASSUME NEW i \in 1 .. Len(l), x = l[i]
          PROVE  (\E k \in 1 .. Len(d) : x = d[k]) \/ (\E k \in 1 .. Len(n) : x = n[k])
      BY <2>1, <3>1
    <3>2. ASSUME NEW k \in 1 .. Len(d), x = d[k]
          PROVE  \E i \in 1 .. Len(l) : x = l[i]
      BY <2>2, <3>2
    <3>3. ASSUME NEW k \in 1 .. Len(n), x = n[k]
          PROVE  \E i \in 1 .. Len(l) : x = l[i]
      BY <2>3, <3>3
    <3> QED
      BY <3>1, <3>2, <3>3
  <2> QED
    BY <1>6, <1>7, <1>8, <2>4
<1>10. Published' = Published \cup {events[i] : i \in I}
  BY <1>9
<1>11. I \in SUBSET {i \in 1 .. Len(events) : events[i].req \in Promise!Pending}
  <2>1. \A r : Held(writing, r) => r \in Promise!Pending
    BY LineType, HeldType, PromiseView DEF InLine
  <2> QED
    BY <1>3, <2>1
<1>12. \A i \in I, j \in 1 .. Len(events) : j >= i => events[j] \notin Published
  <2> SUFFICES ASSUME NEW i \in I, NEW j \in 1 .. Len(events), j >= i, events[j] \in Published
               PROVE  FALSE
    OBVIOUS
  <2>1. i \in 1 .. Len(events) /\ i <= j /\ Held(writing, events[i].req)
    BY <1>3
  <2>2. Held(writing, events[j].req)
    BY <1>1, <2>1, LastRows
  <2>3. PICK k \in 1 .. Len(delivered) : events[j] = delivered[k]
    BY <1>4, <1>6
  <2>4. PICK m \in 1 .. Len(events) : delivered[k] = events[m] /\ ~ Held(writing, events[m].req)
    BY <1>1 DEF DeliveredSound
  <2> QED
    BY <2>2, <2>3, <2>4
<1>13. Asked' = Asked /\ ToldEach' = ToldEach
  BY <1>1 DEF Asked, ToldEach
<1> QED
  BY <1>1, <1>10, <1>11, <1>12, <1>13 DEF Promise!Publish

LEMMA PromiseAcknowledged ==
  ASSUME TypeOK, TypeOK', InLine, TableSound, DeliveredSound, Acknowledge
  PROVE  Promise!Succeed
<1>1. /\ phase = "ack" /\ Written /\ Tell(writing, "ok")
      /\ request' = request /\ events' = events /\ delivered' = delivered
  BY DEF Acknowledge, client, store, seen, Written
<1>2. PICK R : R = {r \in 1 .. Len(request) : Held(writing, r)}
  OBVIOUS
<1>3. \A r : r \in R <=> Held(writing, r)
  <2>1. \A r : Held(writing, r) => r \in 1 .. Len(request)
    BY LineType, HeldType
  <2> QED
    BY <1>2, <2>1
<1>4. /\ \A r \in R : r \in 1 .. Len(request)
      /\ R \in SUBSET Promise!Pending /\ Promise!InTurn(R)
  BY <1>3, PromiseInTurn
<1>5. ASSUME NEW r \in R, NEW p \in 1 .. Len(Asked[r])
      PROVE  \E row \in Published : row.req = r /\ row.pos = p
  <2>1. p \in 1 .. Len(request[r].events)
    BY <1>4, PromiseView
  <2>2. Entire(events, r)
    BY <1>1, <1>3, <1>4 DEF TableSound
  <2>3. PICK j \in 1 .. Len(events) : events[j].req = r /\ events[j].pos = p
    BY <2>1, <2>2 DEF Entire, Has
  <2>4. PICK i \in 1 .. Len(delivered) : delivered[i] = events[j]
    BY <1>1, <1>3, <2>3 DEF DeliveredSound
  <2>5. delivered[i] \in Published
    BY DEF Published
  <2> QED
    BY <2>3, <2>4, <2>5
<1>6. Promise!Answer(R, "ok") /\ Asked' = Asked
  <2>1. \A r \in 1 .. Len(request) : outcome'[r] = IF Held(writing, r) THEN "ok" ELSE outcome[r]
    BY <1>1, TellHeld
  <2>2. \A r \in 1 .. Len(request) : Told(outcome'[r]) = IF r \in R THEN "ok" ELSE Told(outcome[r])
    BY <1>3, <2>1 DEF Told
  <2> QED
    BY <1>1, <2>2, PromiseTold
<1>7. Published' = Published
  BY <1>1 DEF Published
<1> QED
  BY <1>1, <1>4, <1>5, <1>6, <1>7 DEF Promise!Succeed

\* The first in line, when it has no events, is answered as it is.
LEMMA PromiseFirst ==
  ASSUME TypeOK, TypeOK', NEW h, IsPending(h), request[h].events = <<>>,
         \A q : IsPending(q) => ~ (q < h),
         \A r \in 1 .. Len(request) : outcome'[r] = IF r = h THEN "ok" ELSE outcome[r],
         UNCHANGED <<request, events, delivered>>
  PROVE  Promise!Succeed
<1>1. PICK R : R = {h}
  OBVIOUS
<1>2. h \in 1 .. Len(request)
  BY DEF IsPending
<1>3. R \in SUBSET Promise!Pending /\ Promise!InTurn(R)
  <2>1. \A r : r \in Promise!Pending <=> IsPending(r)
    BY PromiseView
  <2> QED
    BY <1>1, <2>1 DEF Promise!InTurn
<1>4. \A r \in R : Len(Asked[r]) = 0
  BY <1>1, <1>2, PromiseView, EmptySeq
<1>5. Promise!Answer(R, "ok") /\ Asked' = Asked
  <2>1. \A r \in 1 .. Len(request) : Told(outcome'[r]) = IF r \in R THEN "ok" ELSE Told(outcome[r])
    BY <1>1 DEF Told
  <2> QED
    BY <2>1, PromiseTold
<1>6. Published' = Published /\ events' = events
  BY DEF Published
<1>7. \A r \in R : \A i \in 1 .. Len(Asked[r]) : \E row \in Published : row.req = r /\ row.pos = i
  BY <1>4
<1> QED
  BY <1>3, <1>5, <1>6, <1>7 DEF Promise!Succeed

LEMMA PromiseBarrier ==
  ASSUME TypeOK, TypeOK', InLine, RunBarrier
  PROVE  Promise!Succeed
<1>1. PICK h : h = Head(batch)
  OBVIOUS
<1>2. /\ request[h].kind = "barrier" /\ Tell(<<h>>, "ok")
      /\ UNCHANGED <<request, events, delivered>>
  BY <1>1 DEF RunBarrier, client, store
<1>3. /\ IsPending(h)
      /\ \A r : IsPending(r)' <=> IsPending(r) /\ r # h
      /\ \A r : IsPending(r)' => h < r
  BY <1>1, LineBarrier
<1>4. h \in 1 .. Len(request) /\ request[h].events = <<>>
  BY <1>2, <1>3 DEF IsPending, InLine
<1>5. \A q : IsPending(q) => ~ (q < h)
  <2>1. \A q : IsPending(q) => q \in Int /\ (q = h \/ h < q)
    BY <1>3 DEF IsPending
  <2> QED
    BY <1>4, <2>1
<1>6. \A r \in 1 .. Len(request) : outcome'[r] = IF r = h THEN "ok" ELSE outcome[r]
  <2>1. \A r \in 1 .. Len(request) : outcome'[r] = IF Held(<<h>>, r) THEN "ok" ELSE outcome[r]
    BY <1>2, TellHeld
  <2>2. \A r : Held(<<h>>, r) <=> r = h
    BY DEF Held
  <2> QED
    BY <2>1, <2>2
<1> QED
  BY <1>2, <1>3, <1>4, <1>5, <1>6, PromiseFirst

\* A close that is reached is all that waits.
LEMMA PromiseStopped ==
  ASSUME TypeOK, TypeOK', InLine, CloseInv, Stop
  PROVE  Promise!Succeed
<1>1. PICK h, l : h = Head(batch) /\ l = Tail(batch)
  OBVIOUS
<1>2. /\ request[h].kind = "close" /\ batch # <<>> /\ writing = <<>> /\ group = <<>>
      /\ outcome' = [r \in 1 .. Len(outcome) |->
                       IF r = h THEN "ok"
                       ELSE IF outcome[r] = "pending" THEN "lost" ELSE outcome[r]]
      /\ UNCHANGED <<request, events, delivered>>
  BY <1>1 DEF Stop, GroupAnswered, store, seen, InLine
<1>3. /\ h \in Requests /\ Before(<<h>>, l)
      /\ \A r : Held(batch, r) <=> r = h \/ Held(l, r)
      /\ \A r : Held(<<h>>, r) <=> r = h
  <2>1. batch \in Seq(Requests) /\ Sorted(batch)
    BY LineSeqs DEF InLine, Line
  <2> QED
    BY <1>1, <1>2, <2>1, HeadLine
<1>4. IsPending(h) /\ h \in 1 .. Len(request)
  <2>1. h \in 1 .. Len(request)
    BY <1>3, HeldType, LineType
  <2> QED
    BY <1>3, <2>1 DEF InLine
<1>5. h = Len(request)
  BY <1>2, <1>4 DEF CloseInv, PendingClose, IsPending
<1>6. \A r : IsPending(r) => r = h
  <2> SUFFICES ASSUME NEW r, IsPending(r), r # h PROVE FALSE
    OBVIOUS
  <2>1. r \in 1 .. Len(request) /\ r \in Requests
    BY LineType DEF IsPending
  <2>2. Held(l, r) \/ Held(queue, r)
    BY <1>2, <1>3, <2>1, EmptyHolds DEF InLine
  <2>3. h < r
    BY <1>3, <2>1, <2>2 DEF InLine, Line, Before
  <2> QED
    BY <1>5, <2>1, <2>3, LineType
<1>7. request[h].events = <<>>
  BY <1>2, <1>4 DEF InLine
<1>8. \A r \in 1 .. Len(request) : outcome'[r] = IF r = h THEN "ok" ELSE outcome[r]
  <2>1. Len(outcome) = Len(request)
    BY LineType
  <2>2. \A r \in 1 .. Len(request) : r # h => outcome[r] # "pending"
    BY <1>6 DEF IsPending
  <2> QED
    BY <1>2, <2>1, <2>2
<1>9. \A q : IsPending(q) => ~ (q < h)
  BY <1>4, <1>6
<1> QED
  BY <1>2, <1>4, <1>7, <1>8, <1>9, PromiseFirst

LEMMA PromiseRestarted ==
  ASSUME TypeOK, TypeOK', Reopen
  PROVE  Promise!Restart
<1>1. /\ UNCHANGED <<request, events>> /\ delivered' = <<>>
      /\ outcome' = [r \in 1 .. Len(outcome) |->
                       IF outcome[r] = "pending" THEN "lost" ELSE outcome[r]]
  BY DEF Reopen, store
<1>2. \A r \in 1 .. Len(request) :
        Told(outcome'[r]) = IF r \in Promise!Pending THEN "error" ELSE Told(outcome[r])
  <2>1. \A r \in 1 .. Len(request) : r \in Promise!Pending <=> outcome[r] = "pending"
    BY PromiseView DEF IsPending
  <2>2. Len(outcome) = Len(request)
    BY LineType
  <2> QED
    BY <1>1, <2>1, <2>2 DEF Told
<1>3. Promise!Answer(Promise!Pending, "error") /\ Asked' = Asked
  BY <1>1, <1>2, PromiseTold
<1>4. Published' = {}
  BY <1>1, EmptySeq DEF Published
<1> QED
  BY <1>1, <1>3, <1>4 DEF Promise!Restart

\* Every step of the journal is a step of the ordered log, or none.
LEMMA PromiseStep ==
  ASSUME GaplessInv, GaplessInv', RInv, CloseInv, [Next]_vars
  PROVE  [Promise!Next]_(Promise!vars)
<1>a. /\ TypeOK /\ TypeOK' /\ InLine /\ TableSound /\ DeliveredSound
      /\ phase = "write" => TxSound
  BY DEF GaplessInv, RInv
<1>1. ASSUME UNCHANGED <<request, outcome, events, delivered>>
      PROVE  UNCHANGED Promise!vars
  BY <1>1 DEF Promise!vars, Asked, ToldEach, Published
<1>2. CASE (\E es \in Payloads : Submit("append", es)) \/ Submit("barrier", <<>>) \/ SendClose
  <2>1. PICK kind, es : Entered(kind, es)
    BY <1>2 DEF Submit, SendClose, Entered, Kinds
  <2> QED
    BY <1>a, <2>1, PromiseEntered DEF Promise!Next
<1>3. CASE TakeSender \/ Drain \/ BeginGroup \/ BeginSingle \/ Insert \/ NextAppend \/ UNCHANGED vars
  BY <1>1, <1>3 DEF TakeSender, Drain, BeginGroup, BeginSingle, Insert, NextAppend, vars,
                    client, store, seen
<1>4. CASE Conflict \/ Fail
  <2>1. Abort /\ phase = "write"
    BY <1>4 DEF Conflict, Fail
  <2>2. request' = request /\ events' = events /\ delivered' = delivered
    BY <2>1 DEF Abort, Rollback, client, store, seen
  <2>3. outcome' = outcome \/ Tell(writing, "rejected")
    BY <2>1 DEF Abort, RetryOrRefuse
  <2>4. Tell(writing, "rejected") => Promise!Fail
    BY <1>a, <2>1, <2>2, PromiseRefused
  <2> QED
    BY <1>1, <2>2, <2>3, <2>4 DEF Promise!Next
<1>5. CASE Commit
  <2>1. /\ TxSound /\ Inserted /\ Committed
        /\ request' = request /\ outcome' = outcome /\ delivered' = delivered
    BY <1>a, <1>5 DEF Commit, Inserted, client, seen
  <2> QED
    BY <1>a, <2>1, PromiseCommitted DEF Promise!Next
<1>6. CASE CommitUncertain
  <2>1. /\ TxSound /\ Inserted /\ phase = "write" /\ Tell(writing, "uncertain")
        /\ request' = request /\ delivered' = delivered
    BY <1>a, <1>6 DEF CommitUncertain, TellUncertain, Inserted, client, seen
  <2>2. Committed => Promise!Write
    BY <1>a, <2>1, PromiseCommitted
  <2>3. UNCHANGED store => Promise!Fail
    BY <1>a, <2>1, PromiseRefused DEF store
  <2> QED
    BY <1>6, <2>2, <2>3 DEF CommitUncertain, Promise!Next
<1>7. CASE Deliver
  BY <1>a, <1>7, PromisePublished DEF Promise!Next
<1>8. CASE Acknowledge
  BY <1>a, <1>8, PromiseAcknowledged DEF Promise!Next
<1>9. CASE RunBarrier
  BY <1>a, <1>9, PromiseBarrier DEF Promise!Next
<1>10. CASE Stop
  BY <1>a, <1>10, PromiseStopped DEF Promise!Next
<1>11. CASE Reopen
  BY <1>a, <1>11, PromiseRestarted DEF Promise!Next
<1> QED
  BY <1>2, <1>3, <1>4, <1>5, <1>6, <1>7, <1>8, <1>9, <1>10, <1>11 DEF Next, Writer

\* The journal is the append-only log that OrderedLog describes: what is
\* batched, retried one by one, refused, left uncertain or lost with the
\* process never shows as anything but its steps.
THEOREM Refines == Spec => ImplementsOrderedLog
<1>1. Init => CloseInv
  BY DEF Init, CloseInv, PendingClose
<1>2. GaplessInv => TypeOK
  BY DEF GaplessInv
<1>3. GaplessInv /\ GaplessInv' /\ RInv /\ CloseInv /\ [Next]_vars => [Promise!Next]_(Promise!vars)
  BY PromiseStep
<1> QED
  BY <1>1, <1>2, <1>3, InitGaplessInv, NextGaplessInv, InitRInv, NextRInv, NextCloseInv,
     InitPromise, PTL DEF Spec, ImplementsOrderedLog, Promise!Spec
=============================================================================

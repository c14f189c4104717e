-------------------------- MODULE SubscriptionsProofs --------------------------
(***************************************************************************)
(* Theorems about event delivery to socket clients (src/daemon/hub.rs) for *)
(* every value of the constants: what a subscriber gets is the log from    *)
(* where it asked, whole and in order, through replay and the handoff to   *)
(* live delivery.                                                          *)
(***************************************************************************)
EXTENDS Subscriptions, TLAPS, SequenceTheorems, FiniteSetTheorems, NaturalsInduction

-----------------------------------------------------------------------------
(* The inductive invariant                                                 *)

Replaying(s) == call[s].stage \in {"read", "barrier", "replay"}
Live(s) == subs[call[s].client][call[s].channel].call = s

\* A frame is one of a call of that client for that channel, which started.
FramesOwned ==
  \A cl \in Clients : \A i \in 1 .. Len(sent[cl]) :
    LET s == sent[cl][i].call
    IN /\ call[s].client = cl /\ call[s].channel = sent[cl][i].channel
       /\ call[s].stage \notin {"idle", "lock"}

\* Nothing is live for the channel that is replayed.
ReplayIsAlone ==
  \A s \in Calls : Replaying(s) => subs[call[s].client][call[s].channel] = NoSub

\* What was replayed is what lies between the row asked for and the last one.
UpTo(s, last) ==
  /\ last >= First(s) - 1
  /\ \A i \in 1 .. Len(sent[call[s].client]) :
       sent[call[s].client][i].call = s => sent[call[s].client][i].seq <= last
WasSent(cl, ch, n, s) == \E i \in 1 .. Len(sent[cl]) : IsSent(cl, i, ch, n, s)
Whole(s) ==
  /\ UpTo(s, call[s].last)
  /\ \A n \in First(s) .. call[s].last : WasSent(call[s].client, call[s].channel, n, s)
ReplayIsWhole == \A s \in Calls : Replaying(s) => Whole(s)

\* The callback still brings the client a row.
Coming(cl, ch, n) ==
  \E i \in 1 .. Len(callback) :
    /\ callback[i] = [channel |-> ch, seq |-> n]
    /\ i = 1 => cl \in audience

\* A live subscription is past what was sent, and the rest is coming.
RestIsComing(cl, ch, last) ==
  \A n \in last + 1 .. rows[ch] : IsHidden(ch, n) \/ Coming(cl, ch, n)
LiveWhole(cl, ch, s, last) ==
  /\ call[s].client = cl /\ call[s].channel = ch /\ call[s].stage = "done"
  /\ UpTo(s, last)
  /\ cl \notin closed =>
       /\ \A n \in First(s) .. last : WasSent(cl, ch, n, s) \/ IsHidden(ch, n)
       /\ RestIsComing(cl, ch, last)
LiveAt(cl, ch) ==
  IF subs[cl][ch].call = NoCall THEN subs[cl][ch] = NoSub
  ELSE LiveWhole(cl, ch, subs[cl][ch].call, subs[cl][ch].last)
LiveIsWhole == \A cl \in Clients, ch \in Channels : LiveAt(cl, ch)

\* No other call for the channel was sent anything since this one was.
GoesOn(s) ==
  \A i, j \in 1 .. Len(sent[call[s].client]) :
    /\ i < j
    /\ sent[call[s].client][i].call = s
    /\ sent[call[s].client][j].channel = call[s].channel
    => sent[call[s].client][j].call = s
NewestGoesOn == \A s \in Calls : Replaying(s) \/ Live(s) => GoesOn(s)

\* The callback saw every client that is open.
OpenIsSeen ==
  \A cl \in Clients \ closed : cl \in connected /\ (callback # <<>> => cl \in snapshot)

\* The callback delivers rows of the table, those of a channel in order.
CallbackInOrder ==
  /\ \A i \in 1 .. Len(callback) : callback[i].seq <= rows[callback[i].channel]
  /\ \A i, j \in 1 .. Len(callback) :
       i < j /\ callback[i].channel = callback[j].channel => callback[i].seq < callback[j].seq

IInv ==
  /\ TypeOK /\ FramesOwned /\ ReplayIsAlone /\ ReplayIsWhole /\ LiveIsWhole
  /\ NewestGoesOn /\ OpenIsSeen /\ CallbackInOrder
  /\ Contiguous /\ NoInterleaving /\ LockHeldByReplay

-----------------------------------------------------------------------------
(* The rows of a commit                                                    *)

Hits(es, ch, i) == Cardinality({j \in 1 .. i : es[j] = ch})

LEMMA HitsStep ==
  ASSUME NEW es, NEW ch, NEW i \in Nat
  PROVE  /\ Hits(es, ch, i) \in Nat
         /\ Hits(es, ch, 0) = 0
         /\ Hits(es, ch, i + 1) = Hits(es, ch, i) + (IF es[i + 1] = ch THEN 1 ELSE 0)
<1> DEFINE H(k) == {j \in 1 .. k : es[j] = ch}
<1>0. \A k : Hits(es, ch, k) = Cardinality(H(k))
  BY DEF Hits
<1>1. \A k \in Nat : IsFiniteSet(H(k))
  <2> TAKE k \in Nat
  <2>1. IsFiniteSet(1 .. k) /\ H(k) \subseteq 1 .. k
    BY FS_Interval
  <2> QED
    BY <2>1, FS_Subset
<1>2. \A k \in Nat : Hits(es, ch, k) \in Nat
  BY <1>0, <1>1, FS_CardinalityType
<1>3. Hits(es, ch, 0) = 0
  <2>1. H(0) = {}
    OBVIOUS
  <2> QED
    BY <1>0, <2>1, FS_EmptySet
<1>4. ASSUME es[i + 1] = ch
      PROVE  Hits(es, ch, i + 1) = Hits(es, ch, i) + 1
  <2>1. H(i + 1) = H(i) \cup {i + 1} /\ i + 1 \notin H(i)
    BY <1>4
  <2>2. Cardinality(H(i) \cup {i + 1}) = Cardinality(H(i)) + 1
    BY <1>1, <2>1, FS_AddElement
  <2> QED
    BY <1>0, <2>1, <2>2
<1>5. ASSUME es[i + 1] # ch
      PROVE  Hits(es, ch, i + 1) = Hits(es, ch, i)
  <2>1. H(i + 1) = H(i)
    BY <1>5
  <2> QED
    BY <1>0, <2>1
<1> QED
  BY <1>1, <1>2, <1>3, <1>4, <1>5

LEMMA HitsGrow ==
  ASSUME NEW es, NEW ch, NEW i \in Nat, NEW j \in Nat, i <= j
  PROVE  Hits(es, ch, i) <= Hits(es, ch, j)
<1>1. {k \in 1 .. i : es[k] = ch} \subseteq {k \in 1 .. j : es[k] = ch}
  OBVIOUS
<1>2. IsFiniteSet({k \in 1 .. j : es[k] = ch})
  <2>1. IsFiniteSet(1 .. j) /\ {k \in 1 .. j : es[k] = ch} \subseteq 1 .. j
    BY FS_Interval
  <2> QED
    BY <2>1, FS_Subset
<1> QED
  BY <1>1, <1>2, FS_Subset DEF Hits

\* A row is numbered for each of the channel's places in the commit.
LEMMA HitsAll ==
  ASSUME NEW es, NEW ch, NEW m \in Nat, NEW n \in 1 .. Hits(es, ch, m)
  PROVE  \E i \in 1 .. m : es[i] = ch /\ Hits(es, ch, i) = n
<1> DEFINE Enough == {i \in Nat : Hits(es, ch, i) >= n}
           R == OpToRel(<, Nat)
<1>0. \A i \in Nat : Hits(es, ch, i) \in Nat
  BY HitsStep
<1>1. m \in Enough
  BY <1>0
<1>2. \E x \in Enough : \A y \in Enough : ~(<<y, x>> \in R)
  <2>1. IsWellFoundedOn(R, Nat)
    BY NatLessThanWellFounded
  <2>2. Enough \subseteq Nat /\ Enough # {}
    BY <1>1
  <2> HIDE DEF R, Enough
  <2> QED
    BY <2>1, <2>2, WFMin
<1>3. PICK x \in Enough : \A y \in Enough : ~(y < x)
  BY <1>2 DEF OpToRel
<1>4. x # 0
  <2>1. Hits(es, ch, 0) = 0
    BY HitsStep
  <2> QED
    BY <1>0, <2>1
<1>5. x - 1 \in Nat /\ x - 1 \notin Enough /\ x <= m
  BY <1>1, <1>3, <1>4
<1>6. Hits(es, ch, x) = Hits(es, ch, x - 1) + (IF es[x] = ch THEN 1 ELSE 0)
  <2>1. \A k \in Nat : Hits(es, ch, k + 1) = Hits(es, ch, k) + (IF es[k + 1] = ch THEN 1 ELSE 0)
    <3> TAKE k \in Nat
    <3> QED
      BY HitsStep
  <2>2. x = (x - 1) + 1
    BY <1>5
  <2> QED
    BY <1>5, <2>1, <2>2
<1>7. es[x] = ch /\ Hits(es, ch, x) = n
  BY <1>0, <1>5, <1>6
<1> QED
  BY <1>4, <1>5, <1>7

LEMMA FunctionIsSeq ==
  ASSUME NEW S, NEW n \in Nat, NEW f \in [1 .. n -> S]
  PROVE  f \in Seq(S) /\ Len(f) = n
OBVIOUS

LEMMA NewRowsType ==
  ASSUME TypeOK, NEW es \in Seq(Channels)
  PROVE  /\ NewRows(es) \in Seq(RowId) /\ Len(NewRows(es)) = Len(es)
         /\ \A i \in 1 .. Len(es) :
              NewRows(es)[i] = [channel |-> es[i], seq |-> rows[es[i]] + Hits(es, es[i], i)]
         /\ \A i, j \in 1 .. Len(es) :
              i < j /\ es[i] = es[j] => NewRows(es)[i].seq < NewRows(es)[j].seq
         /\ \A ch \in Channels : Hits(es, ch, Len(es)) \in Nat
         /\ \A ch \in Channels : \A n \in rows[ch] + 1 .. rows[ch] + Hits(es, ch, Len(es)) :
              \E i \in 1 .. Len(es) : NewRows(es)[i] = [channel |-> ch, seq |-> n]
<1>0. Len(es) \in Nat /\ (\A i \in 1 .. Len(es) : es[i] \in Channels)
  BY ElementOfSeq, LenProperties
<1>1. \A ch \in Channels : rows[ch] \in Nat
  BY SubscriptionsAssumption DEF TypeOK
<1>2. \A ch, i : i \in Nat => Hits(es, ch, i) \in Nat
  BY HitsStep
<1>3. \A i \in 1 .. Len(es) : Hits(es, es[i], i) = Hits(es, es[i], i - 1) + 1
  <2> TAKE i \in 1 .. Len(es)
  <2>1. i - 1 \in Nat /\ (i - 1) + 1 = i
    BY <1>0
  <2>2. Hits(es, es[i], (i - 1) + 1) = Hits(es, es[i], i - 1) + (IF es[(i - 1) + 1] = es[i] THEN 1 ELSE 0)
    BY ZenonT(40), <2>1, HitsStep
  <2> QED
    BY <2>1, <2>2
<1>4. \A i \in 1 .. Len(es) :
        [channel |-> es[i], seq |-> rows[es[i]] + Hits(es, es[i], i)] \in RowId
  <2> TAKE i \in 1 .. Len(es)
  <2>1. Hits(es, es[i], i) \in Nat /\ Hits(es, es[i], i - 1) \in Nat
    BY <1>0, <1>2
  <2> QED
    BY <1>0, <1>1, <1>3, <2>1 DEF RowId
<1>5. /\ NewRows(es) \in Seq(RowId) /\ Len(NewRows(es)) = Len(es)
      /\ \A i \in 1 .. Len(es) :
           NewRows(es)[i] = [channel |-> es[i], seq |-> rows[es[i]] + Hits(es, es[i], i)]
  <2>1. NewRows(es) = [i \in 1 .. Len(es) |->
                         [channel |-> es[i], seq |-> rows[es[i]] + Hits(es, es[i], i)]]
    BY Zenon DEF NewRows, Hits
  <2>2. NewRows(es) \in [1 .. Len(es) -> RowId]
    BY <1>4, <2>1
  <2> QED
    BY <1>0, <2>1, <2>2, FunctionIsSeq
<1>6. \A i, j \in 1 .. Len(es) :
        i < j /\ es[i] = es[j] => NewRows(es)[i].seq < NewRows(es)[j].seq
  <2> SUFFICES ASSUME NEW i \in 1 .. Len(es), NEW j \in 1 .. Len(es), i < j, es[i] = es[j]
               PROVE  NewRows(es)[i].seq < NewRows(es)[j].seq
    OBVIOUS
  <2>1. i \in Nat /\ j - 1 \in Nat /\ j \in Nat /\ i <= j - 1
    BY <1>0
  <2>2. Hits(es, es[i], i) <= Hits(es, es[i], j - 1)
    BY <2>1, HitsGrow
  <2>3. Hits(es, es[j], j) = Hits(es, es[j], j - 1) + 1
    BY <1>3
  <2>4. Hits(es, es[i], i) \in Nat /\ Hits(es, es[j], j - 1) \in Nat /\ rows[es[i]] \in Nat
    BY <1>0, <1>1, <1>2, <2>1
  <2>5. Hits(es, es[i], i) < Hits(es, es[j], j)
    BY <2>2, <2>3, <2>4
  <2>6. /\ NewRows(es)[i].seq = rows[es[i]] + Hits(es, es[i], i)
        /\ NewRows(es)[j].seq = rows[es[j]] + Hits(es, es[j], j)
    <3>1. /\ NewRows(es)[i] = [channel |-> es[i], seq |-> rows[es[i]] + Hits(es, es[i], i)]
          /\ NewRows(es)[j] = [channel |-> es[j], seq |-> rows[es[j]] + Hits(es, es[j], j)]
      BY <1>5, Zenon
    <3> HIDE <1>5
    <3> QED
      BY <3>1
  <2> QED
    BY <2>3, <2>4, <2>5, <2>6
<1>7. \A ch \in Channels : \A n \in rows[ch] + 1 .. rows[ch] + Hits(es, ch, Len(es)) :
        \E i \in 1 .. Len(es) : NewRows(es)[i] = [channel |-> ch, seq |-> n]
  <2> TAKE ch \in Channels
  <2> TAKE n \in rows[ch] + 1 .. rows[ch] + Hits(es, ch, Len(es))
  <2>1. n - rows[ch] \in 1 .. Hits(es, ch, Len(es))
    BY <1>0, <1>1, <1>2
  <2>2. PICK i \in 1 .. Len(es) : es[i] = ch /\ Hits(es, ch, i) = n - rows[ch]
    BY <1>0, <2>1, HitsAll
  <2>3. NewRows(es)[i] = [channel |-> ch, seq |-> n]
    BY <1>0, <1>1, <1>5, <2>2
  <2> QED
    BY <2>3
<1> QED
  BY <1>0, <1>2, <1>5, <1>6, <1>7

-----------------------------------------------------------------------------
(* Frames                                                                  *)

\* Calls keep what they ask for, and one that started has started.
CallsGoOn ==
  \A s \in Calls :
    /\ call'[s].client = call[s].client /\ call'[s].channel = call[s].channel
    /\ call'[s].from = call[s].from
    /\ call[s].stage \notin {"idle", "lock"} => call'[s].stage \notin {"idle", "lock"}

LEMMA FirstGoesOn ==
  ASSUME CallsGoOn
  PROVE  \A s \in Calls : First(s)' = First(s)
BY DEF CallsGoOn, First

LEMMA FirstType ==
  ASSUME TypeOK
  PROVE  \A s \in Calls : First(s) \in Nat \ {0}
BY DEF TypeOK, Call, First

LEMMA SentType ==
  ASSUME TypeOK, NEW cl \in Clients
  PROVE  /\ sent[cl] \in Seq(Frame) /\ Len(sent[cl]) \in Nat
         /\ \A i \in 1 .. Len(sent[cl]) :
              /\ sent[cl][i] \in Frame /\ sent[cl][i].call \in Calls
              /\ sent[cl][i].channel \in Channels /\ sent[cl][i].seq \in Nat \ {0}
<1>1. sent[cl] \in Seq(Frame)
  BY DEF TypeOK
<1>2. Len(sent[cl]) \in Nat /\ \A i \in 1 .. Len(sent[cl]) : sent[cl][i] \in Frame
  BY <1>1, LenProperties, ElementOfSeq
<1> QED
  BY <1>1, <1>2 DEF Frame

FramesAreSound == FramesOwned /\ Contiguous /\ NoInterleaving

\* Nothing is sent.
LEMMA NothingSent ==
  ASSUME TypeOK, FramesAreSound, CallsGoOn, sent' = sent, hidden \subseteq hidden'
  PROVE  FramesAreSound'
<1>1. \A s \in Calls : First(s)' = First(s)
  BY FirstGoesOn
<1>2. FramesOwned'
  BY SentType DEF FramesAreSound, FramesOwned, CallsGoOn
<1>3. NoInterleaving'
  BY DEF FramesAreSound, NoInterleaving
<1>4. Contiguous'
  <2> SUFFICES ASSUME NEW cl \in Clients, NEW i \in 1 .. Len(sent[cl])
               PROVE  /\ sent[cl][i].seq >= First(sent[cl][i].call)'
                      /\ \A j \in 1 .. i - 1 : sent[cl][j].call = sent[cl][i].call => sent[cl][j].seq < sent[cl][i].seq
                      /\ \A n \in First(sent[cl][i].call)' .. sent[cl][i].seq - 1 :
                           \/ \E j \in 1 .. i - 1 : IsSent(cl, j, sent[cl][i].channel, n, sent[cl][i].call)
                           \/ IsHidden(sent[cl][i].channel, n)'
    BY DEF Contiguous, IsSent
  <2>1. sent[cl][i].call \in Calls
    BY SentType
  <2>2. First(sent[cl][i].call)' = First(sent[cl][i].call)
    BY <1>1, <2>1
  <2> QED
    BY <2>2 DEF FramesAreSound, Contiguous, IsHidden
<1> QED
  BY <1>2, <1>3, <1>4 DEF FramesAreSound

Adds(cl, frame) == sent' = [sent EXCEPT ![cl] = Append(@, frame)]

LEMMA SentAfter ==
  ASSUME TypeOK, NEW cl \in Clients, NEW frame \in Frame, Adds(cl, frame)
  PROVE  /\ Len(sent'[cl]) = Len(sent[cl]) + 1
         /\ \A i \in 1 .. Len(sent[cl]) : sent'[cl][i] = sent[cl][i]
         /\ sent'[cl][Len(sent[cl]) + 1] = frame
         /\ sent' \in [Clients -> Seq(Frame)]
         /\ \A other \in Clients \ {cl} : sent'[other] = sent[other]
<1>1. sent[cl] \in Seq(Frame) /\ sent \in [Clients -> Seq(Frame)]
  BY DEF TypeOK
<1>2. sent'[cl] = Append(sent[cl], frame) /\ \A other \in Clients \ {cl} : sent'[other] = sent[other]
  BY <1>1 DEF Adds
<1>3. Append(sent[cl], frame) \in Seq(Frame)
  BY <1>1, AppendProperties
<1> QED
  BY <1>1, <1>2, <1>3, AppendProperties DEF Adds

\* A frame is sent that goes on where the call is.
Next1(cl, frame) ==
  /\ frame.call \in Calls /\ call[frame.call].client = cl /\ call[frame.call].channel = frame.channel
  /\ frame.seq >= First(frame.call)
  /\ \A i \in 1 .. Len(sent[cl]) : sent[cl][i].call = frame.call => sent[cl][i].seq < frame.seq
  /\ \A n \in First(frame.call) .. frame.seq - 1 :
       \/ \E i \in 1 .. Len(sent[cl]) : IsSent(cl, i, frame.channel, n, frame.call)
       \/ IsHidden(frame.channel, n)
  /\ \A i, j \in 1 .. Len(sent[cl]) :
       i < j /\ sent[cl][i].call = frame.call /\ sent[cl][j].channel = frame.channel
         => sent[cl][j].call = frame.call

LEMMA FrameSent ==
  ASSUME TypeOK, FramesAreSound, CallsGoOn, NEW cl \in Clients, NEW frame \in Frame,
         Adds(cl, frame), hidden' = hidden, Next1(cl, frame),
         call'[frame.call].stage \notin {"idle", "lock"}
  PROVE  FramesAreSound'
<1> DEFINE L == Len(sent[cl])
           s == frame.call
<1>1. L \in Nat /\ Len(sent'[cl]) = L + 1
  BY SentAfter, SentType
<1>2. \A i \in 1 .. L : sent'[cl][i] = sent[cl][i]
  BY SentAfter
<1>3. sent'[cl][L + 1] = frame
  BY SentAfter
<1>4. \A other \in Clients \ {cl} : sent'[other] = sent[other]
  BY SentAfter
<1>5. \A t \in Calls : First(t)' = First(t)
  BY FirstGoesOn
<1>6. \A i \in 1 .. L : sent[cl][i].call \in Calls
  BY SentType
<1>7. s \in Calls
  BY DEF Next1
<1>8. FramesOwned'
  <2> SUFFICES ASSUME NEW other \in Clients, NEW i \in 1 .. Len(sent'[other])
               PROVE  LET t == sent'[other][i].call
                      IN /\ call'[t].client = other /\ call'[t].channel = sent'[other][i].channel
                         /\ call'[t].stage \notin {"idle", "lock"}
    BY DEF FramesOwned
  <2>1. CASE other # cl
    <3>1. sent'[other] = sent[other]
      BY <1>4, <2>1
    <3>2. i \in 1 .. Len(sent[other]) /\ sent[other][i].call \in Calls
      BY <3>1, SentType
    <3> QED
      BY <3>1, <3>2 DEF FramesAreSound, FramesOwned, CallsGoOn
  <2>2. CASE other = cl /\ i = L + 1
    BY <1>3, <2>2, <1>7 DEF Next1, CallsGoOn
  <2>3. CASE other = cl /\ i # L + 1
    <3>1. i \in 1 .. L
      BY <1>1, <2>3
    <3>2. sent'[cl][i] = sent[cl][i] /\ sent[cl][i].call \in Calls
      BY <1>2, <1>6, <3>1
    <3>3. /\ call[sent[cl][i].call].client = cl /\ call[sent[cl][i].call].channel = sent[cl][i].channel
          /\ call[sent[cl][i].call].stage \notin {"idle", "lock"}
      BY <3>1 DEF FramesAreSound, FramesOwned
    <3> QED
      BY <2>3, <3>2, <3>3 DEF CallsGoOn
  <2> QED
    BY <2>1, <2>2, <2>3
<1>9. NoInterleaving'
  <2> SUFFICES ASSUME NEW other \in Clients, NEW i \in 1 .. Len(sent'[other]),
                      NEW j \in 1 .. Len(sent'[other]), NEW k \in 1 .. Len(sent'[other]),
                      i < j, j < k, sent'[other][i].channel = sent'[other][j].channel,
                      sent'[other][i].call = sent'[other][k].call
               PROVE  sent'[other][j].call = sent'[other][i].call
    BY DEF NoInterleaving
  <2>1. CASE other # cl
    BY <1>4, <2>1 DEF FramesAreSound, NoInterleaving
  <2>2. CASE other = cl
    <3>1. i \in 1 .. L /\ j \in 1 .. L
      BY <1>1, <2>2
    <3>2. sent'[cl][i] = sent[cl][i] /\ sent'[cl][j] = sent[cl][j]
      BY <1>2, <3>1
    <3>3. CASE k \in 1 .. L
      BY <1>2, <2>2, <3>1, <3>2, <3>3 DEF FramesAreSound, NoInterleaving
    <3>4. CASE k \notin 1 .. L
      <4>1. k = L + 1
        BY <1>1, <2>2, <3>4
      <4>2. sent[cl][i].call = s
        BY <1>3, <2>2, <3>2, <4>1
      <4>3. sent[cl][i].channel = frame.channel
        BY <3>1, <4>2 DEF FramesAreSound, FramesOwned, Next1
      <4> QED
        BY <2>2, <3>1, <3>2, <4>2, <4>3 DEF Next1
    <3> QED
      BY <3>3, <3>4
  <2> QED
    BY <2>1, <2>2
<1>10. Contiguous'
  <2> DEFINE F(t) == IF call'[t].from > 1 THEN call'[t].from ELSE 1
             Soundly(q, i) ==
               /\ q[i].seq >= F(q[i].call)
               /\ \A j \in 1 .. i - 1 : q[j].call = q[i].call => q[j].seq < q[i].seq
               /\ \A n \in F(q[i].call) .. q[i].seq - 1 :
                    \/ \E j \in 1 .. i - 1 : q[j] = [channel |-> q[i].channel, seq |-> n, call |-> q[i].call]
                    \/ [channel |-> q[i].channel, seq |-> n] \in hidden
  <2>0. \A t \in Calls : F(t) = First(t)
    BY DEF CallsGoOn, First
  <2>1. ASSUME NEW other \in Clients, NEW i \in 1 .. Len(sent[other])
        PROVE  Soundly(sent[other], i)
    <3>1. F(sent[other][i].call) = First(sent[other][i].call)
      BY <2>0, SentType
    <3> HIDE DEF F
    <3> QED
      BY <3>1 DEF FramesAreSound, Contiguous, IsSent, IsHidden
  <2>2. ASSUME NEW i \in 1 .. L
        PROVE  Soundly(sent'[cl], i)
    <3>1. Soundly(sent[cl], i)
      BY <2>1
    <3>2. sent'[cl][i] = sent[cl][i] /\ \A j \in 1 .. i - 1 : sent'[cl][j] = sent[cl][j]
      BY <1>1, <1>2
    <3> HIDE DEF F
    <3> QED
      BY <3>1, <3>2
  <2>3. Soundly(sent'[cl], L + 1)
    <3>1. F(s) = First(s) /\ (L + 1) - 1 = L
      BY <1>1, <1>7, <2>0
    <3> HIDE DEF F
    <3>2. \A j \in 1 .. L : sent'[cl][j].call = s => sent'[cl][j].seq < frame.seq
      BY <1>2 DEF Next1
    <3>3. \A n \in F(s) .. frame.seq - 1 :
            \/ \E j \in 1 .. L : sent'[cl][j] = [channel |-> frame.channel, seq |-> n, call |-> s]
            \/ [channel |-> frame.channel, seq |-> n] \in hidden
      BY <1>2, <3>1 DEF Next1, IsSent, IsHidden
    <3>4. frame.seq >= F(s)
      BY <3>1 DEF Next1
    <3> QED
      BY <1>3, <3>1, <3>2, <3>3, <3>4
  <2>4. ASSUME NEW other \in Clients, NEW i \in 1 .. Len(sent'[other])
        PROVE  Soundly(sent'[other], i)
    <3> HIDE DEF Soundly
    <3>1. CASE other # cl
      BY <1>4, <2>1, <3>1
    <3>2. CASE other = cl
      <4>1. i \in 1 .. L \/ i = L + 1
        BY <1>1, <3>2
      <4> QED
        BY <2>2, <2>3, <3>2, <4>1
    <3> QED
      BY <3>1, <3>2
  <2>5. \A other \in Clients : \A i \in 1 .. Len(sent'[other]) : Soundly(sent'[other], i)
    BY <2>4
  <2> QED
    BY <2>5 DEF Contiguous, IsSent, IsHidden, First
<1> QED
  BY <1>8, <1>9, <1>10 DEF FramesAreSound

-----------------------------------------------------------------------------
(* Types                                                                   *)

LEMMA RoomIsRoom ==
  ASSUME TypeOK, NEW cl \in Clients, ReplayRoom(cl)
  PROVE  QueueLen(cl) < QueueMax
<1>1. QueueMax \in Nat \ {0}
  BY SubscriptionsAssumption
<1>2. QueueMax \div 4 \in Nat /\ QueueMax \div 4 <= QueueMax
  BY <1>1
<1>3. QueueLen(cl) \in Nat
  BY DEF TypeOK
<1> QED
  BY <1>1, <1>2, <1>3 DEF ReplayRoom

LEMMA SubsTypes ==
  ASSUME TypeOK, NEW cl \in Clients, NEW ch \in Channels
  PROVE  /\ subs[cl][ch] \in Sub
         /\ subs[cl][ch] = [call |-> subs[cl][ch].call, last |-> subs[cl][ch].last]
         /\ subs[cl][ch].call \in Calls \cup {NoCall} /\ subs[cl][ch].last \in Nat
BY DEF TypeOK, Sub

LEMMA CallTypes ==
  ASSUME TypeOK, NEW s \in Calls
  PROVE  /\ call[s].stage \in Stages /\ call[s].client \in Clients
         /\ call[s].channel \in Channels /\ call[s].from \in Nat
         /\ call[s].last \in Nat /\ call[s].upto \in Nat
BY DEF TypeOK, Call

LEMMA PageEndType ==
  ASSUME TypeOK, NEW s \in Calls
  PROVE  /\ PageEnd(s) \in Nat /\ PageEnd(s) <= rows[call[s].channel]
         /\ rows[call[s].channel] \in 0 .. MaxRows
<1>1. rows[call[s].channel] \in 0 .. MaxRows
  BY CallTypes DEF TypeOK
<1>2. PageSize \in Nat /\ MaxRows \in Nat /\ call[s].last \in Nat
  BY SubscriptionsAssumption, CallTypes
<1> QED
  BY <1>1, <1>2 DEF PageEnd

\* What a call changes of itself.
LEMMA SubChanges ==
  ASSUME TypeOK, NEW cl \in Clients, NEW ch \in Channels, NEW sub \in Sub,
         subs' = [subs EXCEPT ![cl][ch] = sub]
  PROVE  /\ subs' \in [Clients -> [Channels -> Sub]]
         /\ subs'[cl][ch] = sub
         /\ \A other \in Clients, och \in Channels :
              other # cl \/ och # ch => subs'[other][och] = subs[other][och]
BY DEF TypeOK

LEMMA LastChanges ==
  ASSUME TypeOK, NEW cl \in Clients, NEW ch \in Channels, NEW n \in Nat,
         subs' = [subs EXCEPT ![cl][ch].last = n]
  PROVE  /\ subs' \in [Clients -> [Channels -> Sub]]
         /\ subs'[cl][ch] = [call |-> subs[cl][ch].call, last |-> n]
         /\ \A other \in Clients, och \in Channels :
              other # cl \/ och # ch => subs'[other][och] = subs[other][och]
<1>1. /\ subs[cl][ch] = [call |-> subs[cl][ch].call, last |-> subs[cl][ch].last]
      /\ subs[cl][ch].call \in Calls \cup {NoCall}
  BY SubsTypes
<1>2. PICK sub : sub = [call |-> subs[cl][ch].call, last |-> n]
  OBVIOUS
<1>3. sub \in Sub
  BY <1>1, <1>2 DEF Sub
<1>4. [subs[cl][ch] EXCEPT !.last = n] = sub
  BY <1>1, <1>2
<1>5. subs'[cl][ch] = sub
  BY <1>4 DEF TypeOK
<1>6. \A other \in Clients, och \in Channels :
        other # cl \/ och # ch => subs'[other][och] = subs[other][och]
  BY DEF TypeOK
<1>7. subs' \in [Clients -> [Channels -> Sub]]
  <2>1. subs' = [subs EXCEPT ![cl] = [subs[cl] EXCEPT ![ch] = sub]]
    BY <1>4
  <2>2. subs \in [Clients -> [Channels -> Sub]]
    BY DEF TypeOK
  <2>3. [subs[cl] EXCEPT ![ch] = sub] \in [Channels -> Sub]
    BY <1>3, <2>2
  <2> QED
    BY <2>1, <2>2, <2>3
<1> QED
  BY <1>2, <1>5, <1>6, <1>7

LEMMA NoCallIsNoSub ==
  ASSUME LiveIsWhole, NEW cl \in Clients, NEW ch \in Channels, subs[cl][ch].call = NoCall
  PROVE  subs[cl][ch] = NoSub
BY DEF LiveIsWhole, LiveAt

LEMMA TypeOfCommit ==
  ASSUME TypeOK, NEW es \in Groups, Commit(es)
  PROVE  TypeOK'
<1>1. es \in Seq(Channels)
  BY SubscriptionsAssumption
<1>2. /\ NewRows(es) \in Seq(RowId) /\ Len(NewRows(es)) = Len(es)
      /\ \A ch \in Channels : Hits(es, ch, Len(es)) \in Nat
  BY <1>1, NewRowsType
<1>3. rows' \in [Channels -> 0 .. MaxRows]
  <2>1. \A ch \in Channels : rows[ch] + Hits(es, ch, Len(es)) <= MaxRows
    BY DEF Commit, Hits
  <2>2. rows' = [ch \in Channels |-> rows[ch] + Hits(es, ch, Len(es))]
    BY DEF Commit, Hits
  <2>3. \A ch \in Channels : rows[ch] \in 0 .. MaxRows
    BY DEF TypeOK
  <2>4. \A ch \in Channels : rows[ch] + Hits(es, ch, Len(es)) \in 0 .. MaxRows
    BY <1>2, <2>1, <2>3, SubscriptionsAssumption
  <2> QED
    BY <2>2, <2>4
<1>4. hidden' \subseteq RowId
  <2>1. \A i \in 1 .. Len(es) : NewRows(es)[i] \in RowId
    BY <1>2, ElementOfSeq
  <2> QED
    BY SMTT(30), <2>1 DEF Commit, TypeOK
<1>5. callback' \in Seq(RowId)
  <2>1. <<>> \in Seq(RowId)
    OBVIOUS
  <2> QED
    BY <1>2, <2>1 DEF Commit, TypeOK
<1> QED
  BY <1>3, <1>4, <1>5 DEF Commit, TypeOK, QueueLen

\* One more frame in a queue with room.
LEMMA TypeOfAdds ==
  ASSUME TypeOK, NEW cl \in Clients, NEW frame \in Frame, Adds(cl, frame),
         QueueLen(cl) < QueueMax, taken' = taken
  PROVE  /\ sent' \in [Clients -> Seq(Frame)]
         /\ \A other \in Clients : QueueLen(other)' \in 0 .. QueueMax
<1>1. QueueMax \in Nat
  BY SubscriptionsAssumption
<1>2. /\ Len(sent'[cl]) = Len(sent[cl]) + 1 /\ sent' \in [Clients -> Seq(Frame)]
      /\ \A other \in Clients \ {cl} : sent'[other] = sent[other]
  BY SentAfter
<1>3. \A other \in Clients : QueueLen(other) \in 0 .. QueueMax
  BY DEF TypeOK
<1>4. Len(sent[cl]) \in Nat /\ taken[cl] \in Nat
  BY SentType DEF TypeOK
<1>5. QueueLen(cl)' = QueueLen(cl) + 1
  BY <1>2, <1>4 DEF QueueLen
<1>6. \A other \in Clients \ {cl} : QueueLen(other)' = QueueLen(other)
  BY <1>2 DEF QueueLen
<1> QED
  BY <1>1, <1>2, <1>3, <1>5, <1>6

LEMMA HeadIsRow ==
  ASSUME TypeOK, callback # <<>>
  PROVE  /\ Head(callback) = callback[1] /\ Head(callback) \in RowId
         /\ Head(callback) = [channel |-> Head(callback).channel, seq |-> Head(callback).seq]
         /\ Head(callback).channel \in Channels /\ Head(callback).seq \in Nat \ {0}
         /\ Tail(callback) \in Seq(RowId) /\ Len(callback) \in Nat \ {0}
         /\ Len(Tail(callback)) = Len(callback) - 1
         /\ \A i \in 1 .. Len(callback) - 1 : Tail(callback)[i] = callback[i + 1]
<1>1. callback \in Seq(RowId)
  BY DEF TypeOK
<1>2. Len(callback) \in Nat \ {0}
  BY <1>1, LenProperties, EmptySeq
<1>3. Head(callback) = callback[1] /\ callback[1] \in RowId
  BY <1>1, <1>2, ElementOfSeq
<1>4. /\ Tail(callback) \in Seq(RowId) /\ Len(Tail(callback)) = Len(callback) - 1
      /\ \A i \in 1 .. Len(callback) - 1 : Tail(callback)[i] = callback[i + 1]
  BY <1>1, <1>2, HeadTailProperties
<1> QED
  BY <1>2, <1>3, <1>4 DEF RowId

LEMMA TypeOfDeliver ==
  ASSUME TypeOK, LiveIsWhole, NEW cl \in Clients, Deliver(cl)
  PROVE  TypeOK'
<1> DEFINE row == Head(callback)
           sub == subs[cl][row.channel]
<1>1. /\ row \in RowId /\ row.channel \in Channels /\ row.seq \in Nat \ {0}
      /\ Tail(callback) \in Seq(RowId)
  BY HeadIsRow DEF Deliver
<1>2. callback' \in Seq(RowId) /\ audience' \subseteq Clients
  BY <1>1 DEF Deliver, TypeOK
<1>3. CASE sub = NoSub \/ Past(sub, row)
  <2>1. UNCHANGED <<subs, sent, closed>>
    BY <1>3 DEF Deliver
  <2> QED
    BY <1>2, <2>1 DEF Deliver, TypeOK, QueueLen
<1>4. CASE ~(sub = NoSub \/ Past(sub, row))
  <2>1. /\ subs' = [subs EXCEPT ![cl][row.channel].last = row.seq]
        /\ Enqueue(cl, [channel |-> row.channel, seq |-> row.seq, call |-> sub.call])
    BY <1>4 DEF Deliver
  <2>2. sub.call \in Calls
    <3>1. sub.call \in Calls \cup {NoCall}
      BY <1>1, SubsTypes
    <3> HIDE DEF row
    <3>2. sub.call = NoCall => sub = NoSub
      BY <1>1, NoCallIsNoSub
    <3> QED
      BY <1>4, <3>1, <3>2
  <2>3. subs' \in [Clients -> [Channels -> Sub]]
    BY <1>1, <2>1, LastChanges
  <2>4. [channel |-> row.channel, seq |-> row.seq, call |-> sub.call] \in Frame
    BY <1>1, <2>2 DEF Frame
  <2>5. /\ sent' \in [Clients -> Seq(Frame)] /\ closed' \subseteq Clients
        /\ \A other \in Clients : QueueLen(other)' \in 0 .. QueueMax
    <3>1. CASE UNCHANGED sent /\ closed' \subseteq closed \cup {cl}
      BY <3>1 DEF Deliver, TypeOK, QueueLen
    <3>2. CASE Adds(cl, [channel |-> row.channel, seq |-> row.seq, call |-> sub.call])
               /\ ~QueueFull(cl) /\ UNCHANGED closed
      <4>1. QueueLen(cl) < QueueMax
        BY <3>2, SubscriptionsAssumption DEF QueueFull, TypeOK
      <4>2. taken' = taken
        BY DEF Deliver
      <4> QED
        BY <2>4, <3>2, <4>1, <4>2, TypeOfAdds DEF TypeOK
    <3> QED
      BY <2>1, <3>1, <3>2 DEF Enqueue, Adds
  <2> QED
    BY <1>2, <2>3, <2>5 DEF Deliver, TypeOK
<1> QED
  BY <1>3, <1>4

LEMMA NoSubIsSub ==
  NoSub \in Sub /\ NoSub.call = NoCall
BY DEF NoSub, Sub

\* A subscribe request takes a step.
LEMMA TypeOfAdvance ==
  ASSUME TypeOK, NEW s \in Calls, Subscribe(s) \/ Advance(s)
  PROVE  TypeOK'
<1> DEFINE cl == call[s].client
           ch == call[s].channel
<1>0. /\ cl \in Clients /\ ch \in Channels /\ call[s].from \in Nat /\ call[s].last \in Nat
      /\ call[s] \in Call /\ call \in [Calls -> Call]
  BY CallTypes DEF TypeOK
<1>1. CASE Subscribe(s)
  <2>1. call' \in [Calls -> Call]
    BY <1>0, <1>1 DEF Subscribe, Goto, Call, Stages
  <2> QED
    BY <1>1, <2>1 DEF Subscribe, TypeOK, QueueLen
<1>2. CASE Start(s)
  <2>1. call' \in [Calls -> Call]
    <3>1. (IF call[s].from > 1 THEN call[s].from - 1 ELSE 0) \in Nat
      BY <1>0
    <3> QED
      BY <1>0, <1>2, <3>1 DEF Start, Call, Stages
  <2>2. subs' \in [Clients -> [Channels -> Sub]]
    BY <1>0, <1>2, NoSubIsSub DEF Start, StopLive, TypeOK
  <2>3. lock' \in [Clients -> Calls \cup {NoCall}]
    BY <1>0, <1>2 DEF Start, TypeOK
  <2> QED
    BY <1>2, <2>1, <2>2, <2>3 DEF Start, TypeOK, QueueLen
<1>3. CASE Read(s)
  <2>1. call' \in [Calls -> Call]
    BY <1>0, <1>3, PageEndType DEF Read, Call, Stages
  <2> QED
    BY <1>3, <2>1 DEF Read, TypeOK, QueueLen
<1>4. CASE RunBarrier(s)
  <2>1. call' \in [Calls -> Call]
    <3>1. CASE NothingLeft(s)
      BY SMTT(30), <1>0, <1>4, <3>1 DEF RunBarrier, Goto, Call, Stages
    <3>2. CASE ~NothingLeft(s)
      <4>1. call' = [call EXCEPT ![s].stage = "replay", ![s].upto = PageEnd(s)]
        BY <1>4, <3>2 DEF RunBarrier
      <4> QED
        BY <1>0, <4>1, PageEndType DEF Call, Stages
    <3> QED
      BY <3>1, <3>2
  <2>2. subs' \in [Clients -> [Channels -> Sub]]
    <3>1. [call |-> s, last |-> call[s].last] \in Sub
      BY <1>0 DEF Sub
    <3>2. CASE NothingLeft(s)
      <4>1. subs' = [subs EXCEPT ![cl][ch] = [call |-> s, last |-> call[s].last]]
        BY <1>4, <3>2 DEF RunBarrier
      <4> QED
        BY <1>0, <3>1, <4>1, SubChanges
    <3>3. CASE ~NothingLeft(s)
      BY <1>4, <3>3 DEF RunBarrier, TypeOK
    <3> QED
      BY <3>2, <3>3
  <2>3. lock' \in [Clients -> Calls \cup {NoCall}]
    BY <1>0, <1>4 DEF RunBarrier, TypeOK
  <2> QED
    BY <1>4, <2>1, <2>2, <2>3 DEF RunBarrier, TypeOK, QueueLen
<1>5. CASE Replay(s)
  <2>1. call' \in [Calls -> Call]
    <3>1. \/ call' = [call EXCEPT ![s].last = @ + 1, ![s].stage = "read"]
          \/ call' = [call EXCEPT ![s].last = @ + 1, ![s].stage = "replay"]
      BY <1>5 DEF Replay
    <3> QED
      BY <1>0, <3>1 DEF Call, Stages
  <2>2. [channel |-> ch, seq |-> call[s].last + 1, call |-> s] \in Frame
    BY <1>0 DEF Frame
  <2>3. /\ Adds(cl, [channel |-> ch, seq |-> call[s].last + 1, call |-> s])
        /\ taken' = taken /\ ReplayRoom(cl)
    BY <1>5 DEF Replay, Adds
  <2>4. /\ sent' \in [Clients -> Seq(Frame)]
        /\ \A other \in Clients : QueueLen(other)' \in 0 .. QueueMax
    BY <1>0, <2>2, <2>3, RoomIsRoom, TypeOfAdds
  <2> QED
    BY <1>5, <2>1, <2>4 DEF Replay, TypeOK
<1>6. CASE Bail(s)
  <2>1. call' \in [Calls -> Call]
    BY <1>0, <1>6 DEF Bail, Goto, Call, Stages
  <2>2. lock' \in [Clients -> Calls \cup {NoCall}]
    BY <1>6 DEF Bail, ReleaseLock, TypeOK
  <2> QED
    BY <1>6, <2>1, <2>2 DEF Bail, TypeOK, QueueLen
<1> QED
  BY <1>1, <1>2, <1>3, <1>4, <1>5, <1>6 DEF Advance

LEMMA TypeOfStep ==
  ASSUME TypeOK, LiveIsWhole, [Next]_vars
  PROVE  TypeOK'
<1>1. ASSUME NEW cl \in Clients, Take(cl)
      PROVE  TypeOK'
  <2>1. taken' = [taken EXCEPT ![cl] = @ + 1] /\ QueueLen(cl) > 0
    BY <1>1 DEF Take
  <2>2. taken' \in [Clients -> Nat]
    BY <2>1 DEF TypeOK
  <2>3. \A other \in Clients : QueueLen(other)' \in 0 .. QueueMax
    <3> TAKE other \in Clients
    <3>1. Len(sent[other]) \in Nat /\ taken[other] \in Nat /\ QueueLen(other) \in 0 .. QueueMax
      BY SentType DEF TypeOK
    <3>2. QueueMax \in Nat /\ sent' = sent
      BY <1>1, SubscriptionsAssumption DEF Take
    <3>3. taken'[other] = IF other = cl THEN taken[other] + 1 ELSE taken[other]
      BY <2>1 DEF TypeOK
    <3> QED
      BY <2>1, <3>1, <3>2, <3>3 DEF QueueLen
  <2> QED
    BY <1>1, <2>2, <2>3 DEF Take, TypeOK
<1>2. ASSUME NEW cl \in Clients, Disconnect(cl)
      PROVE  TypeOK'
  BY <1>2 DEF Disconnect, TypeOK, QueueLen
<1>3. ASSUME NEW cl \in Clients, NEW ch \in Channels, Unsubscribe(cl, ch)
      PROVE  TypeOK'
  <2>1. subs' \in [Clients -> [Channels -> Sub]]
    BY <1>3, NoSubIsSub DEF Unsubscribe, TypeOK
  <2> QED
    BY <1>3, <2>1 DEF Unsubscribe, TypeOK, QueueLen
<1>4. CASE UNCHANGED vars
  BY <1>4 DEF vars, TypeOK, QueueLen
<1> QED
  BY <1>1, <1>2, <1>3, <1>4, TypeOfCommit, TypeOfDeliver, TypeOfAdvance DEF Next

-----------------------------------------------------------------------------
(* What a step that has nothing to do with a call leaves alone             *)

\* What was sent stays sent, and new frames of the client are not of the call.
Grows(cl) == \A i \in 1 .. Len(sent[cl]) : i \in 1 .. Len(sent'[cl]) /\ sent'[cl][i] = sent[cl][i]
NoneFor(cl, s) ==
  \A i \in 1 .. Len(sent'[cl]) : sent'[cl][i].call = s => i \in 1 .. Len(sent[cl])

LEMMA UpToKept ==
  ASSUME TypeOK, CallsGoOn, NEW s \in Calls, NEW last,
         Grows(call[s].client), NoneFor(call[s].client, s), UpTo(s, last)
  PROVE  UpTo(s, last)'
<1>1. First(s)' = First(s)
  BY FirstGoesOn
<1>2. call'[s].client = call[s].client
  BY DEF CallsGoOn
<1> DEFINE cl == call[s].client
<1>3. ASSUME NEW i \in 1 .. Len(sent'[cl]), sent'[cl][i].call = s
      PROVE  sent'[cl][i].seq <= last
  BY <1>3 DEF UpTo, Grows, NoneFor
<1> QED
  BY <1>1, <1>2, <1>3 DEF UpTo

LEMMA WasSentKept ==
  ASSUME NEW cl, NEW ch, NEW n, NEW s, Grows(cl), WasSent(cl, ch, n, s)
  PROVE  WasSent(cl, ch, n, s)'
BY DEF WasSent, Grows, IsSent

LEMMA WholeKept ==
  ASSUME TypeOK, CallsGoOn, NEW s \in Calls, call'[s].last = call[s].last,
         Grows(call[s].client), NoneFor(call[s].client, s), Whole(s)
  PROVE  Whole(s)'
<1>1. First(s)' = First(s)
  BY FirstGoesOn
<1>2. call'[s].client = call[s].client /\ call'[s].channel = call[s].channel
  BY DEF CallsGoOn
<1>3. PICK last, cl, ch : last = call[s].last /\ cl = call[s].client /\ ch = call[s].channel
  OBVIOUS
<1>4. UpTo(s, last)'
  BY <1>3, UpToKept DEF Whole
<1>5. \A n \in First(s) .. last : WasSent(cl, ch, n, s)'
  BY <1>3, WasSentKept DEF Whole
<1>6. call'[s].last = last /\ call'[s].client = cl /\ call'[s].channel = ch
  BY <1>2, <1>3
<1> QED
  BY <1>1, <1>4, <1>5, <1>6 DEF Whole

LEMMA LiveWholeKept ==
  ASSUME TypeOK, CallsGoOn, NEW cl, NEW ch, NEW s \in Calls, NEW last,
         call'[s].stage = call[s].stage, hidden \subseteq hidden', closed \subseteq closed',
         Grows(cl), NoneFor(cl, s), LiveWhole(cl, ch, s, last),
         cl \notin closed' => RestIsComing(cl, ch, last)'
  PROVE  LiveWhole(cl, ch, s, last)'
<1>1. First(s)' = First(s)
  BY FirstGoesOn
<1>2. /\ call[s].client = cl /\ call[s].channel = ch /\ call[s].stage = "done"
      /\ UpTo(s, last)
  BY DEF LiveWhole
<1>3. call'[s].client = cl /\ call'[s].channel = ch /\ call'[s].stage = "done"
  BY <1>2 DEF CallsGoOn
<1>4. UpTo(s, last)'
  BY <1>2, UpToKept
<1>5. ASSUME cl \notin closed', NEW n \in First(s) .. last
      PROVE  WasSent(cl, ch, n, s)' \/ IsHidden(ch, n)'
  <2>1. WasSent(cl, ch, n, s) \/ IsHidden(ch, n)
    BY <1>5 DEF LiveWhole
  <2> QED
    BY <2>1, WasSentKept DEF IsHidden
<1> QED
  BY <1>1, <1>3, <1>4, <1>5 DEF LiveWhole

\* The call that is sent something goes on, and so do those of other channels.
LEMMA GoesOnKept ==
  ASSUME TypeOK, CallsGoOn, NEW s \in Calls, GoesOn(s), Grows(call[s].client),
         \A i \in 1 .. Len(sent'[call[s].client]) :
           \/ i \in 1 .. Len(sent[call[s].client])
           \/ sent'[call[s].client][i].channel # call[s].channel
           \/ sent'[call[s].client][i].call = s
  PROVE  GoesOn(s)'
<1>1. PICK cl, ch : cl = call[s].client /\ ch = call[s].channel
  OBVIOUS
<1>2. cl \in Clients
  BY <1>1, CallTypes
<1>3. call'[s].client = cl /\ call'[s].channel = ch
  BY <1>1 DEF CallsGoOn
<1>4. ASSUME NEW i \in 1 .. Len(sent'[cl]), NEW j \in 1 .. Len(sent'[cl]), i < j,
             sent'[cl][i].call = s, sent'[cl][j].channel = ch
      PROVE  sent'[cl][j].call = s
  <2>1. CASE j \in 1 .. Len(sent[cl])
    <3>1. Len(sent[cl]) \in Nat
      BY <1>2, SentType
    <3>2. i \in 1 .. Len(sent[cl])
      BY <1>4, <2>1, <3>1
    <3>3. sent'[cl][i] = sent[cl][i] /\ sent'[cl][j] = sent[cl][j]
      BY <1>1, <2>1, <3>2 DEF Grows
    <3> QED
      BY <1>1, <1>4, <2>1, <3>2, <3>3 DEF GoesOn
  <2>2. CASE j \notin 1 .. Len(sent[cl])
    BY <1>1, <1>4, <2>2
  <2> QED
    BY <2>1, <2>2
<1> QED
  BY <1>3, <1>4 DEF GoesOn

LEMMA GrowsWhenSame ==
  ASSUME sent' = sent
  PROVE  \A cl \in Clients : Grows(cl) /\ \A s \in Calls : NoneFor(cl, s)
BY DEF Grows, NoneFor

LEMMA GrowsWhenSent ==
  ASSUME TypeOK, NEW cl \in Clients, NEW frame \in Frame, Adds(cl, frame)
  PROVE  /\ \A other \in Clients : Grows(other)
         /\ \A other \in Clients, s \in Calls :
              other # cl \/ s # frame.call => NoneFor(other, s)
         /\ \A other \in Clients : \A i \in 1 .. Len(sent'[other]) :
              \/ i \in 1 .. Len(sent[other])
              \/ other = cl /\ i = Len(sent[cl]) + 1 /\ sent'[other][i] = frame
<1>1. /\ Len(sent'[cl]) = Len(sent[cl]) + 1 /\ Len(sent[cl]) \in Nat
      /\ \A i \in 1 .. Len(sent[cl]) : sent'[cl][i] = sent[cl][i]
      /\ sent'[cl][Len(sent[cl]) + 1] = frame
      /\ \A other \in Clients \ {cl} : sent'[other] = sent[other]
  BY SentAfter, SentType
<1>2. Grows(cl)
  BY <1>1 DEF Grows
<1>3. \A other \in Clients \ {cl} : Grows(other) /\ \A s \in Calls : NoneFor(other, s)
  BY <1>1 DEF Grows, NoneFor
<1>4. \A i \in 1 .. Len(sent'[cl]) : i \in 1 .. Len(sent[cl]) \/ i = Len(sent[cl]) + 1
  BY <1>1
<1>5. \A s \in Calls : s # frame.call => NoneFor(cl, s)
  BY <1>1, <1>4 DEF NoneFor
<1> QED
  BY <1>1, <1>2, <1>3, <1>4, <1>5

\* A subscription that the step leaves alone.
LEMMA LiveAtKept ==
  ASSUME TypeOK, LiveIsWhole, CallsGoOn, NEW cl \in Clients, NEW ch \in Channels,
         subs'[cl][ch] = subs[cl][ch],
         hidden \subseteq hidden', closed \subseteq closed',
         \A s \in Calls : s = subs[cl][ch].call =>
           /\ call[s].stage = "done" => call'[s].stage = "done"
           /\ NoneFor(cl, s),
         Grows(cl),
         \A last : last = subs[cl][ch].last /\ subs[cl][ch].call # NoCall /\ cl \notin closed'
                     => RestIsComing(cl, ch, last)'
  PROVE  LiveAt(cl, ch)'
<1>1. PICK s, last : s = subs[cl][ch].call /\ last = subs[cl][ch].last
  OBVIOUS
<1>2. subs'[cl][ch].call = s /\ subs'[cl][ch].last = last /\ s \in Calls \cup {NoCall}
  BY <1>1, SubsTypes
<1>3. CASE s = NoCall
  BY <1>1, <1>2, <1>3, NoCallIsNoSub DEF LiveAt, NoSub
<1>4. CASE s # NoCall
  <2>1. LiveWhole(cl, ch, s, last) /\ s \in Calls
    BY <1>1, <1>2, <1>4 DEF LiveIsWhole, LiveAt
  <2>2. call'[s].stage = call[s].stage /\ NoneFor(cl, s)
    BY <1>1, <2>1 DEF LiveWhole
  <2>3. cl \notin closed' => RestIsComing(cl, ch, last)'
    BY <1>1, <1>4
  <2>4. LiveWhole(cl, ch, s, last)'
    BY <2>1, <2>2, <2>3, LiveWholeKept
  <2> QED
    BY <1>2, <1>4, <2>4 DEF LiveAt
<1> QED
  BY <1>3, <1>4

LEMMA RestIsComingKept ==
  ASSUME UNCHANGED <<rows, hidden, callback, audience>>
  PROVE  \A cl, ch, last : RestIsComing(cl, ch, last) => RestIsComing(cl, ch, last)'
BY DEF RestIsComing, IsHidden, Coming

LEMMA RestOfLive ==
  ASSUME LiveIsWhole, NEW cl \in Clients \ closed, NEW ch \in Channels,
         subs[cl][ch].call # NoCall
  PROVE  RestIsComing(cl, ch, subs[cl][ch].last)
BY DEF LiveIsWhole, LiveAt, LiveWhole

\* All that is about calls and subscriptions, when neither they nor the frames change.
CallsAreSound == ReplayIsAlone /\ ReplayIsWhole /\ NewestGoesOn /\ LockHeldByReplay

LEMMA CallsKept ==
  ASSUME TypeOK, CallsAreSound, UNCHANGED <<subs, lock, sent, call>>
  PROVE  CallsAreSound' /\ CallsGoOn
<1>1. CallsGoOn
  BY DEF CallsGoOn
<1>2. ReplayIsAlone' /\ LockHeldByReplay'
  BY DEF CallsAreSound, ReplayIsAlone, LockHeldByReplay, Replaying
<1>3. ReplayIsWhole'
  BY DEF CallsAreSound, ReplayIsWhole, Replaying, Whole, UpTo, WasSent, IsSent, First
<1>4. NewestGoesOn'
  BY DEF CallsAreSound, NewestGoesOn, Replaying, Live, GoesOn
<1> QED
  BY <1>1, <1>2, <1>3, <1>4 DEF CallsAreSound

SInv == FramesAreSound /\ CallsAreSound /\ LiveIsWhole /\ OpenIsSeen /\ CallbackInOrder

LEMMA InvParts ==
  IInv <=> TypeOK /\ SInv
BY DEF IInv, SInv, FramesAreSound, CallsAreSound

-----------------------------------------------------------------------------
(* Each action keeps it                                                    *)

LEMMA CommitKeeps ==
  ASSUME TypeOK, SInv, NEW es \in Groups, Commit(es)
  PROVE  SInv'
<1>1. es \in Seq(Channels)
  BY SubscriptionsAssumption
<1>2. /\ UNCHANGED <<subs, lock, sent, call, closed, connected>> /\ hidden \subseteq hidden'
      /\ callback = <<>> /\ audience' = connected /\ snapshot' = connected
  BY DEF Commit
<1>3. CallsAreSound' /\ CallsGoOn
  BY <1>2, CallsKept DEF SInv
<1>4. FramesAreSound'
  BY <1>2, <1>3, NothingSent DEF SInv
<1>5. OpenIsSeen'
  BY <1>2 DEF SInv, OpenIsSeen
<1>6. /\ Len(NewRows(es)) = Len(es) /\ Len(es) \in Nat
      /\ \A i \in 1 .. Len(es) :
           NewRows(es)[i] = [channel |-> es[i], seq |-> rows[es[i]] + Hits(es, es[i], i)]
      /\ \A i, j \in 1 .. Len(es) :
           i < j /\ es[i] = es[j] => NewRows(es)[i].seq < NewRows(es)[j].seq
      /\ \A ch \in Channels : Hits(es, ch, Len(es)) \in Nat
      /\ \A ch \in Channels : \A n \in rows[ch] + 1 .. rows[ch] + Hits(es, ch, Len(es)) :
           \E i \in 1 .. Len(es) : NewRows(es)[i] = [channel |-> ch, seq |-> n]
  BY <1>1, NewRowsType, LenProperties
<1>7. /\ \A ch \in Channels : rows[ch] \in Nat
      /\ \A ch \in Channels : rows'[ch] = rows[ch] + Hits(es, ch, Len(es))
      /\ \A i \in 1 .. Len(es) : es[i] \in Channels
  <2>1. rows' = [ch \in Channels |-> rows[ch] + Hits(es, ch, Len(es))]
    BY DEF Commit, Hits
  <2> QED
    BY <1>1, <2>1, ElementOfSeq, SubscriptionsAssumption DEF TypeOK
<1>8. CallbackInOrder'
  <2>1. CASE callback' = <<>>
    BY <2>1 DEF CallbackInOrder
  <2>2. CASE callback' = NewRows(es)
    <3>1. ASSUME NEW i \in 1 .. Len(es)
          PROVE  NewRows(es)[i].channel = es[i] /\ NewRows(es)[i].seq <= rows'[es[i]]
      <4>1. NewRows(es)[i] = [channel |-> es[i], seq |-> rows[es[i]] + Hits(es, es[i], i)]
        BY <1>6, Zenon
      <4>2. NewRows(es)[i].channel = es[i] /\ NewRows(es)[i].seq = rows[es[i]] + Hits(es, es[i], i)
        BY ONLY <4>1
      <4>3. Hits(es, es[i], i) <= Hits(es, es[i], Len(es)) /\ Hits(es, es[i], i) \in Nat
        BY <1>6, HitsGrow, HitsStep
      <4>4. es[i] \in Channels
        BY <1>7
      <4> QED
        BY <1>6, <1>7, <4>2, <4>3, <4>4
    <3>2. \A i, j \in 1 .. Len(es) :
            i < j /\ NewRows(es)[i].channel = NewRows(es)[j].channel
              => NewRows(es)[i].seq < NewRows(es)[j].seq
      BY <1>6, <3>1
    <3> QED
      BY <1>6, <2>2, <3>1, <3>2 DEF CallbackInOrder
  <2> QED
    BY <1>2, <2>1, <2>2 DEF Commit
<1>9. LiveIsWhole'
  <2> SUFFICES ASSUME NEW cl \in Clients, NEW ch \in Channels
               PROVE  LiveAt(cl, ch)'
    BY DEF LiveIsWhole
  <2>1. ASSUME NEW last, last = subs[cl][ch].last, subs[cl][ch].call # NoCall, cl \notin closed'
        PROVE  RestIsComing(cl, ch, last)'
    <3>1. cl \in connected /\ cl \notin closed
      BY <1>2, <2>1 DEF SInv, OpenIsSeen
    <3>2. last \in Nat
      BY <2>1, SubsTypes
    <3>3. ASSUME NEW n \in last + 1 .. rows'[ch]
          PROVE  IsHidden(ch, n)' \/ Coming(cl, ch, n)'
      <4>1. CASE n <= rows[ch]
        <5>1. RestIsComing(cl, ch, last)
          BY <2>1, <3>1, RestOfLive DEF SInv
        <5>2. ~ Coming(cl, ch, n)
          BY <1>2 DEF Coming
        <5>3. n \in last + 1 .. rows[ch]
          BY <1>7, <3>2, <4>1
        <5> QED
          BY <1>2, <5>1, <5>2, <5>3 DEF RestIsComing, IsHidden
      <4>2. CASE n > rows[ch]
        <5>1. n \in rows[ch] + 1 .. rows[ch] + Hits(es, ch, Len(es))
          BY <1>6, <1>7, <3>2, <4>2
        <5>2. PICK i \in 1 .. Len(es) : NewRows(es)[i] = [channel |-> ch, seq |-> n]
          BY <1>6, <5>1
        <5>3. CASE callback' = NewRows(es)
          BY <1>2, <1>6, <3>1, <5>2, <5>3 DEF Coming
        <5>4. CASE hidden' = hidden \cup {NewRows(es)[k] : k \in 1 .. Len(es)}
          BY <5>2, <5>4 DEF IsHidden
        <5> QED
          BY <3>1, <5>3, <5>4 DEF Commit
      <4> QED
        BY <1>7, <3>2, <4>1, <4>2
    <3> QED
      BY <3>3 DEF RestIsComing
  <2>2. Grows(cl) /\ \A s \in Calls : NoneFor(cl, s)
    BY <1>2, GrowsWhenSame
  <2> QED
    BY <1>2, <1>3, <2>1, <2>2, LiveAtKept DEF SInv
<1> QED
  BY <1>3, <1>4, <1>5, <1>8, <1>9 DEF SInv

\* The callback goes on: only the row just delivered is no longer coming.
LEMMA ComingAfter ==
  ASSUME TypeOK, SInv, NEW cl \in Clients, Deliver(cl), NEW other \in Clients \ closed,
         NEW ch, NEW n, Coming(other, ch, n),
         other # cl \/ Head(callback) # [channel |-> ch, seq |-> n]
  PROVE  Coming(other, ch, n)'
<1>1. PICK i \in 1 .. Len(callback) :
        callback[i] = [channel |-> ch, seq |-> n] /\ (i = 1 => other \in audience)
  BY DEF Coming
<1>2. /\ callback # <<>> /\ cl \in audience
      /\ \/ audience = {cl} /\ callback' = Tail(callback) /\ audience' = snapshot
         \/ audience # {cl} /\ callback' = callback /\ audience' = audience \ {cl}
  BY DEF Deliver
<1>3. other \in snapshot
  BY <1>2 DEF SInv, OpenIsSeen
<1>4. /\ Head(callback) = callback[1] /\ Len(callback) \in Nat \ {0}
      /\ Len(Tail(callback)) = Len(callback) - 1
      /\ \A k \in 1 .. Len(callback) - 1 : Tail(callback)[k] = callback[k + 1]
  BY <1>2, HeadIsRow
<1>5. CASE i = 1
  <2>1. other # cl /\ other \in audience
    BY <1>1, <1>4, <1>5
  <2>2. callback' = callback /\ other \in audience'
    BY <1>2, <2>1
  <2> QED
    BY <1>1, <2>2 DEF Coming
<1>6. CASE i # 1 /\ audience = {cl}
  <2>1. i - 1 \in 1 .. Len(callback) - 1 /\ Tail(callback)[i - 1] = callback[(i - 1) + 1] /\ (i - 1) + 1 = i
    BY <1>4, <1>6
  <2>2. callback' = Tail(callback) /\ other \in audience'
    BY <1>2, <1>3, <1>6
  <2>3. i - 1 \in 1 .. Len(callback') /\ callback'[i - 1] = [channel |-> ch, seq |-> n]
    BY <1>1, <1>4, <2>1, <2>2
  <2> QED
    BY <2>2, <2>3 DEF Coming
<1>7. CASE i # 1 /\ audience # {cl}
  <2>1. callback' = callback
    BY <1>2, <1>7
  <2> QED
    BY <1>1, <1>7, <2>1 DEF Coming
<1> QED
  BY <1>5, <1>6, <1>7

LEMMA CallbackAfter ==
  ASSUME TypeOK, SInv, NEW cl \in Clients, Deliver(cl), closed \subseteq closed'
  PROVE  CallbackInOrder' /\ OpenIsSeen'
<1>1. /\ callback # <<>> /\ UNCHANGED <<rows, snapshot, connected>>
      /\ callback' = Tail(callback) \/ callback' = callback
  BY DEF Deliver
<1>2. OpenIsSeen'
  BY <1>1 DEF SInv, OpenIsSeen
<1>3. CASE callback' = callback
  BY <1>1, <1>2, <1>3 DEF SInv, CallbackInOrder
<1>4. CASE callback' = Tail(callback)
  <2>1. /\ Len(callback) \in Nat \ {0} /\ Len(Tail(callback)) = Len(callback) - 1
        /\ \A k \in 1 .. Len(callback) - 1 : Tail(callback)[k] = callback[k + 1]
    BY <1>1, HeadIsRow
  <2>2. \A i \in 1 .. Len(callback') : i + 1 \in 1 .. Len(callback) /\ callback'[i] = callback[i + 1]
    BY <1>4, <2>1
  <2>3. \A i \in 1 .. Len(callback') : callback'[i].seq <= rows'[callback'[i].channel]
    BY <1>1, <2>2 DEF SInv, CallbackInOrder
  <2>4. ASSUME NEW i \in 1 .. Len(callback'), NEW j \in 1 .. Len(callback'), i < j,
               callback'[i].channel = callback'[j].channel
        PROVE  callback'[i].seq < callback'[j].seq
    <3>1. i + 1 < j + 1 /\ i + 1 \in 1 .. Len(callback) /\ j + 1 \in 1 .. Len(callback)
      BY <2>1, <2>2, <2>4
    <3> QED
      BY <2>2, <2>4, <3>1 DEF SInv, CallbackInOrder
  <2> QED
    BY <1>2, <2>3, <2>4 DEF CallbackInOrder
<1> QED
  BY <1>1, <1>2, <1>3, <1>4

\* Nothing is sent: the client is past the row, is not subscribed, or is lost.
LEMMA NotDeliveredKeeps ==
  ASSUME TypeOK, SInv, NEW cl \in Clients, Deliver(cl), UNCHANGED <<subs, sent, closed>>,
         \/ subs[cl][Head(callback).channel] = NoSub
         \/ Past(subs[cl][Head(callback).channel], Head(callback))
  PROVE  SInv'
<1>1. UNCHANGED <<lock, call, hidden, rows>> /\ callback # <<>>
  BY DEF Deliver
<1>2. CallsAreSound' /\ CallsGoOn
  BY <1>1, CallsKept DEF SInv
<1>3. FramesAreSound'
  BY <1>1, <1>2, NothingSent DEF SInv
<1>4. CallbackInOrder' /\ OpenIsSeen'
  BY CallbackAfter
<1>5. LiveIsWhole'
  <2> SUFFICES ASSUME NEW other \in Clients, NEW ch \in Channels
               PROVE  LiveAt(other, ch)'
    BY DEF LiveIsWhole
  <2>1. ASSUME NEW last, last = subs[other][ch].last, subs[other][ch].call # NoCall,
               other \notin closed'
        PROVE  RestIsComing(other, ch, last)'
    <3>1. other \notin closed /\ last \in Nat /\ rows[ch] \in Nat
      <4>1. other \notin closed /\ last \in Nat
        BY <2>1, SubsTypes
      <4>2. rows[ch] \in Nat
        BY SubscriptionsAssumption DEF TypeOK
      <4> QED
        BY <4>1, <4>2
    <3>2. RestIsComing(other, ch, last)
      BY <2>1, <3>1, RestOfLive DEF SInv
    <3>3. ASSUME NEW n \in last + 1 .. rows[ch], other = cl
          PROVE  Head(callback) # [channel |-> ch, seq |-> n]
      <4> SUFFICES ASSUME Head(callback) = [channel |-> ch, seq |-> n]
                   PROVE  FALSE
        OBVIOUS
      <4>1. Head(callback).channel = ch /\ Head(callback).seq = n
        OBVIOUS
      <4>2. Past(subs[cl][ch], Head(callback))
        BY <2>1, <3>3, <4>1, NoSubIsSub
      <4> QED
        BY <2>1, <3>1, <3>3, <4>1, <4>2 DEF Past
    <3>4. ASSUME NEW n \in last + 1 .. rows'[ch]
          PROVE  IsHidden(ch, n)' \/ Coming(other, ch, n)'
      BY <1>1, <3>1, <3>2, <3>3, <3>4, ComingAfter DEF RestIsComing, IsHidden
    <3> QED
      BY <3>4 DEF RestIsComing
  <2>2. Grows(other) /\ \A s \in Calls : NoneFor(other, s)
    BY GrowsWhenSame
  <2> QED
    BY <1>1, <1>2, <2>1, <2>2, LiveAtKept DEF SInv
<1> QED
  BY <1>2, <1>3, <1>4, <1>5 DEF SInv

\* The subscription goes past the row but its queue is closed or full.
LEMMA LostKeeps ==
  ASSUME TypeOK, SInv, NEW cl \in Clients, Deliver(cl), UNCHANGED sent,
         closed \subseteq closed', cl \in closed',
         subs[cl][Head(callback).channel].call # NoCall,
         ~ Past(subs[cl][Head(callback).channel], Head(callback)),
         subs' = [subs EXCEPT ![cl][Head(callback).channel].last = Head(callback).seq]
  PROVE  SInv'
<1>1. UNCHANGED <<lock, call, hidden, rows>> /\ callback # <<>>
  BY DEF Deliver
<1>2. PICK ch, n, s, last : /\ ch = Head(callback).channel /\ n = Head(callback).seq
                            /\ s = subs[cl][ch].call /\ last = subs[cl][ch].last
  OBVIOUS
<1>3. ch \in Channels /\ n \in Nat /\ last \in Nat /\ s \in Calls /\ last < n
  <2>1. ch \in Channels /\ n \in Nat
    BY <1>1, <1>2, HeadIsRow
  <2>2. last \in Nat /\ s \in Calls
    BY <1>2, <2>1, SubsTypes
  <2> QED
    BY <1>2, <2>1, <2>2 DEF Past
<1>4. /\ subs'[cl][ch] = [call |-> s, last |-> n]
      /\ \A other \in Clients, och \in Channels :
           other # cl \/ och # ch => subs'[other][och] = subs[other][och]
  <2>1. subs' = [subs EXCEPT ![cl][ch].last = n]
    BY <1>2
  <2>2. subs'[cl][ch] = [call |-> subs[cl][ch].call, last |-> n]
    BY ZenonT(40), <1>3, <2>1, LastChanges
  <2>3. \A other \in Clients, och \in Channels :
           other # cl \/ och # ch => subs'[other][och] = subs[other][och]
    BY SMTT(30), <1>3, <2>1, LastChanges
  <2> QED
    BY <1>2, <2>2, <2>3
<1>5. CallsGoOn
  BY <1>1 DEF CallsGoOn
<1>6. FramesAreSound'
  BY <1>1, <1>5, NothingSent DEF SInv
<1>7. CallbackInOrder' /\ OpenIsSeen'
  BY CallbackAfter
<1>8. \A other \in Clients, och \in Channels : subs'[other][och].call = subs[other][och].call
  <2>1. subs'[cl][ch].call = s
    BY <1>4
  <2> QED
    BY <1>2, <1>4, <2>1
<1>9. LiveWhole(cl, ch, s, last)
  BY <1>2, <1>3, SubscriptionsAssumption DEF SInv, LiveIsWhole, LiveAt
<1>10. CallsAreSound'
  <2>1. ReplayIsAlone'
    <3> SUFFICES ASSUME NEW t \in Calls, Replaying(t)
                 PROVE  subs'[call[t].client][call[t].channel] = NoSub
      BY <1>1 DEF ReplayIsAlone, Replaying
    <3>1. subs[call[t].client][call[t].channel] = NoSub
      BY DEF SInv, CallsAreSound, ReplayIsAlone
    <3>2. call[t].client # cl \/ call[t].channel # ch
      BY <1>2, <1>3, <3>1, NoSubIsSub, SubscriptionsAssumption
    <3> QED
      BY <1>4, <3>1, <3>2, CallTypes
  <2>2. LockHeldByReplay'
    BY <1>1 DEF SInv, CallsAreSound, LockHeldByReplay
  <2>3. ReplayIsWhole'
    BY <1>1 DEF SInv, CallsAreSound, ReplayIsWhole, Replaying, Whole, UpTo, WasSent, IsSent, First
  <2>4. NewestGoesOn'
    <3> SUFFICES ASSUME NEW t \in Calls, (Replaying(t) \/ Live(t))'
                 PROVE  GoesOn(t)'
      BY DEF NewestGoesOn
    <3>1. Replaying(t) \/ Live(t)
      BY SMTT(30), <1>1, <1>8, CallTypes DEF Replaying, Live
    <3> QED
      BY <1>1, <3>1 DEF SInv, CallsAreSound, NewestGoesOn, GoesOn
  <2> QED
    BY <2>1, <2>2, <2>3, <2>4 DEF CallsAreSound
<1>11. ASSUME NEW other \in Clients, NEW och \in Channels
       PROVE  LiveAt(other, och)'
  <2>1. CASE other = cl /\ och = ch
    <3>1. UpTo(s, n)
      <4>1. UpTo(s, last) /\ call[s].client = cl
        BY <1>9 DEF LiveWhole
      <4>2. First(s) \in Nat /\ \A i \in 1 .. Len(sent[cl]) : sent[cl][i].seq \in Nat
        BY <1>3, FirstType, SentType
      <4> QED
        BY <1>3, <4>1, <4>2 DEF UpTo
    <3>2. UpTo(s, n)'
      BY <1>1, <3>1 DEF UpTo, First
    <3>3. LiveWhole(cl, ch, s, n)'
      BY <1>1, <1>9, <3>2 DEF LiveWhole
    <3>4. subs'[cl][ch].call = s /\ subs'[cl][ch].last = n /\ s # NoCall
      BY <1>3, <1>4, SubscriptionsAssumption
    <3> QED
      BY <2>1, <3>3, <3>4 DEF LiveAt
  <2>2. CASE ~(other = cl /\ och = ch)
    <3>1. subs'[other][och] = subs[other][och]
      BY <1>4, <2>2
    <3>2. ASSUME NEW l, l = subs[other][och].last, subs[other][och].call # NoCall,
                 other \notin closed'
          PROVE  RestIsComing(other, och, l)'
      <4>1. other \notin closed /\ other # cl /\ RestIsComing(other, och, l)
        BY <3>2, RestOfLive DEF SInv
      <4> QED
        BY <1>1, <4>1, ComingAfter DEF RestIsComing, IsHidden
    <3>3. Grows(other) /\ \A t \in Calls : NoneFor(other, t)
      BY GrowsWhenSame
    <3> QED
      BY <1>1, <1>5, <3>1, <3>2, <3>3, LiveAtKept DEF SInv
  <2> QED
    BY <2>1, <2>2
<1>12. LiveIsWhole'
  BY <1>11 DEF LiveIsWhole
<1> QED
  BY <1>6, <1>7, <1>10, <1>12 DEF SInv

\* The row is queued for the subscription.
NextRow(cl, ch, n, s, last) ==
  /\ ch = Head(callback).channel /\ n = Head(callback).seq
  /\ s = subs[cl][ch].call /\ last = subs[cl][ch].last /\ s # NoCall
  /\ ~ Past(subs[cl][ch], Head(callback))
  /\ subs' = [subs EXCEPT ![cl][ch].last = n]

LEMMA NextRowType ==
  ASSUME TypeOK, callback # <<>>, NEW cl \in Clients, NEW ch, NEW n, NEW s, NEW last,
         NextRow(cl, ch, n, s, last)
  PROVE  /\ ch \in Channels /\ n \in Nat \ {0} /\ last \in Nat /\ s \in Calls /\ last < n
         /\ callback[1] = [channel |-> ch, seq |-> n] /\ Head(callback) = callback[1]
         /\ subs[cl][ch].call = s /\ subs[cl][ch].last = last /\ s # NoCall
         /\ subs'[cl][ch] = [call |-> s, last |-> n]
         /\ \A other \in Clients, och \in Channels :
              other # cl \/ och # ch => subs'[other][och] = subs[other][och]
<1>1. /\ ch = Head(callback).channel /\ n = Head(callback).seq
      /\ s = subs[cl][ch].call /\ last = subs[cl][ch].last /\ s # NoCall
      /\ ~ Past(subs[cl][ch], Head(callback))
      /\ subs' = [subs EXCEPT ![cl][ch].last = n]
  BY DEF NextRow
<1>2. ch \in Channels /\ n \in Nat \ {0}
  BY <1>1, HeadIsRow
<1>3. last \in Nat /\ s \in Calls
  BY <1>1, <1>2, SubsTypes
<1>4. last < n
  BY SMTT(30), <1>1, <1>2, <1>3 DEF Past
<1>5. n \in Nat
  BY <1>2
<1>6. /\ subs'[cl][ch] = [call |-> subs[cl][ch].call, last |-> n]
      /\ \A other \in Clients, och \in Channels :
           other # cl \/ och # ch => subs'[other][och] = subs[other][och]
  <2>1. subs' = [subs EXCEPT ![cl][ch].last = n]
    BY <1>1
  <2>2. subs'[cl][ch] = [call |-> subs[cl][ch].call, last |-> n]
    BY <1>2, <1>5, <2>1, LastChanges
  <2>3. \A other \in Clients, och \in Channels :
           other # cl \/ och # ch => subs'[other][och] = subs[other][och]
    BY <1>2, <1>5, <2>1, LastChanges
  <2> QED
    BY <2>2, <2>3
<1>7. callback[1] = [channel |-> ch, seq |-> n] /\ Head(callback) = callback[1]
  BY <1>1, HeadIsRow
<1> QED
  BY <1>1, <1>2, <1>3, <1>4, <1>6, <1>7

LEMMA DeliveredKeeps ==
  ASSUME TypeOK, SInv, NEW cl \in Clients, Deliver(cl), cl \notin closed, UNCHANGED closed,
         NEW ch, NEW n, NEW s, NEW last, NextRow(cl, ch, n, s, last),
         Adds(cl, [channel |-> ch, seq |-> n, call |-> s])
  PROVE  SInv'
<1> DEFINE frame == [channel |-> ch, seq |-> n, call |-> s]
<1>1. UNCHANGED <<lock, call, hidden, rows>> /\ callback # <<>> /\ cl \in audience
  BY DEF Deliver
<1>0. /\ ch \in Channels /\ n \in Nat \ {0} /\ last \in Nat /\ s \in Calls /\ last < n
      /\ callback[1] = [channel |-> ch, seq |-> n] /\ Head(callback) = callback[1]
      /\ subs[cl][ch].call = s /\ subs[cl][ch].last = last /\ s # NoCall
      /\ subs'[cl][ch] = [call |-> s, last |-> n]
      /\ \A other \in Clients, och \in Channels :
           other # cl \/ och # ch => subs'[other][och] = subs[other][och]
  <2>1. callback # <<>> /\ NextRow(cl, ch, n, s, last)
    BY <1>1
  <2> QED
    BY ONLY <2>1, TypeOK, cl \in Clients, NextRowType
<1>2. ch \in Channels /\ n \in Nat /\ n \in Nat \ {0} /\ last \in Nat /\ s \in Calls /\ last < n
  BY <1>0
<1>3. frame \in Frame
  BY <1>2 DEF Frame
<1>4. /\ subs'[cl][ch] = [call |-> s, last |-> n]
      /\ \A other \in Clients, och \in Channels :
           other # cl \/ och # ch => subs'[other][och] = subs[other][och]
  BY <1>0
<1>5. CallsGoOn
  BY <1>1 DEF CallsGoOn
<1>6. CallbackInOrder' /\ OpenIsSeen'
  BY CallbackAfter
<1>7. LiveWhole(cl, ch, s, last) /\ Live(s)
  <2>1. subs[cl][ch].call = s /\ subs[cl][ch].last = last /\ s # NoCall
    BY <1>0
  <2>2. LiveWhole(cl, ch, s, last)
    BY <1>2, <2>1 DEF SInv, LiveIsWhole, LiveAt
  <2> QED
    BY <2>1, <2>2 DEF LiveWhole, Live
<1>8. call[s].client = cl /\ call[s].channel = ch /\ call[s].stage = "done"
  BY <1>7 DEF LiveWhole
<1>9. rows[ch] \in Nat /\ First(s) \in Nat
  <2>1. rows[ch] \in Nat
    BY <1>2, SubscriptionsAssumption DEF TypeOK
  <2>2. First(s) \in Nat
    BY <1>2, FirstType
  <2> QED
    BY <2>1, <2>2
<1>10. Head(callback) = callback[1] /\ Len(callback) \in Nat \ {0} /\ Head(callback) = [channel |-> ch, seq |-> n]
  BY <1>0, <1>1, HeadIsRow
<1>11. n <= rows[ch]
  BY <1>10 DEF SInv, CallbackInOrder
\* No row is stepped over but hidden ones: another would still be coming, out of order.
<1>12. \A m \in last + 1 .. n - 1 : IsHidden(ch, m)
  <2> SUFFICES ASSUME NEW m \in last + 1 .. n - 1, ~ IsHidden(ch, m)
               PROVE  FALSE
    OBVIOUS
  <2>1. m \in last + 1 .. rows[ch] /\ m < n
    BY <1>2, <1>9, <1>11
  <2>2. Coming(cl, ch, m)
    BY <1>7, <2>1 DEF LiveWhole, RestIsComing
  <2>3. PICK i \in 1 .. Len(callback) : callback[i] = [channel |-> ch, seq |-> m]
    BY <2>2 DEF Coming
  <2>4. callback[i].channel = ch /\ callback[i].seq = m
    BY <2>3
  <2>5. callback[1].channel = ch /\ callback[1].seq = n
    BY <1>10
  <2>6. CASE i = 1
    BY <2>1, <2>4, <2>5, <2>6, <1>2
  <2>7. CASE i # 1
    <3>1. 1 < i /\ 1 \in 1 .. Len(callback)
      BY <1>10, <2>7
    <3>2. n < m
      BY <2>4, <2>5, <3>1 DEF SInv, CallbackInOrder
    <3> QED
      BY <1>2, <2>1, <3>2
  <2> QED
    BY <2>6, <2>7
<1>13. UpTo(s, last) /\ \A m \in First(s) .. last : WasSent(cl, ch, m, s) \/ IsHidden(ch, m)
  BY <1>7 DEF LiveWhole
<1>14. GoesOn(s)
  BY <1>2, <1>7 DEF SInv, CallsAreSound, NewestGoesOn
<1>15. \A i \in 1 .. Len(sent[cl]) : sent[cl][i].seq \in Nat
  BY SentType
<1>16. Next1(cl, frame)
  <2>1. n >= First(s)
    BY <1>2, <1>9, <1>13 DEF UpTo
  <2>2. \A i \in 1 .. Len(sent[cl]) : sent[cl][i].call = s => sent[cl][i].seq < n
    BY <1>2, <1>8, <1>13, <1>15 DEF UpTo
  <2>3. \A m \in First(s) .. n - 1 : WasSent(cl, ch, m, s) \/ IsHidden(ch, m)
    BY <1>2, <1>9, <1>12, <1>13
  <2> QED
    BY <1>2, <1>8, <1>14, <2>1, <2>2, <2>3 DEF Next1, GoesOn, WasSent
<1>17. FramesAreSound'
  <2>1. frame.call = s
    OBVIOUS
  <2> HIDE DEF frame
  <2> QED
    BY <1>1, <1>3, <1>5, <1>8, <1>16, <2>1, FrameSent DEF SInv, frame
<1>18. /\ \A other \in Clients : Grows(other)
       /\ \A other \in Clients, t \in Calls : other # cl \/ t # s => NoneFor(other, t)
       /\ \A other \in Clients : \A i \in 1 .. Len(sent'[other]) :
              \/ i \in 1 .. Len(sent[other])
              \/ other = cl /\ i = Len(sent[cl]) + 1 /\ sent'[other][i] = frame
  <2>1. frame.call = s
    OBVIOUS
  <2> HIDE DEF frame
  <2> QED
    BY <1>3, <2>1, GrowsWhenSent DEF frame
<1>19. \A other \in Clients, och \in Channels : subs'[other][och].call = subs[other][och].call
  <2>1. subs'[cl][ch].call = s /\ subs[cl][ch].call = s
    BY <1>0
  <2> QED
    BY <1>4, <2>1
<1>20. CallsAreSound'
  <2>1. ReplayIsAlone'
    <3> SUFFICES ASSUME NEW t \in Calls, Replaying(t)
                 PROVE  subs'[call[t].client][call[t].channel] = NoSub
      BY <1>1 DEF ReplayIsAlone, Replaying
    <3>1. subs[call[t].client][call[t].channel] = NoSub
      BY DEF SInv, CallsAreSound, ReplayIsAlone
    <3>2. call[t].client # cl \/ call[t].channel # ch
      BY <1>0, <3>1, NoSubIsSub
    <3> QED
      BY <1>4, <3>1, <3>2, CallTypes
  <2>2. LockHeldByReplay'
    BY <1>1 DEF SInv, CallsAreSound, LockHeldByReplay
  <2>3. ReplayIsWhole'
    <3> SUFFICES ASSUME NEW t \in Calls, Replaying(t)
                 PROVE  Whole(t)'
      BY <1>1 DEF ReplayIsWhole, Replaying
    <3>1. t # s
      BY <1>8 DEF Replaying
    <3>2. call[t].client \in Clients /\ Whole(t)
      BY CallTypes DEF SInv, CallsAreSound, ReplayIsWhole
    <3> QED
      BY <1>1, <1>5, <1>18, <3>1, <3>2, WholeKept
  <2>4. NewestGoesOn'
    <3> SUFFICES ASSUME NEW t \in Calls, (Replaying(t) \/ Live(t))'
                 PROVE  GoesOn(t)'
      BY DEF NewestGoesOn
    <3>1. Replaying(t) \/ Live(t)
      BY <1>1, <1>19, CallTypes DEF Replaying, Live
    <3>2. call[t].client \in Clients /\ GoesOn(t)
      BY <3>1, CallTypes DEF SInv, CallsAreSound, NewestGoesOn
    <3>3. call[t].client = cl /\ call[t].channel = ch => t = s
      <4>1. Replaying(t) => subs[call[t].client][call[t].channel] = NoSub
        BY DEF SInv, CallsAreSound, ReplayIsAlone
      <4> QED
        BY <1>0, <3>1, <4>1, NoSubIsSub DEF Live
    <3>4. frame.channel = ch /\ frame.call = s
      OBVIOUS
    <3> HIDE DEF frame
    <3>5. \A i \in 1 .. Len(sent'[call[t].client]) :
            \/ i \in 1 .. Len(sent[call[t].client])
            \/ sent'[call[t].client][i].channel # call[t].channel
            \/ sent'[call[t].client][i].call = t
      BY <1>18, <3>2, <3>3, <3>4
    <3> QED
      BY <1>5, <1>18, <3>2, <3>5, GoesOnKept
  <2> QED
    BY <2>1, <2>2, <2>3, <2>4 DEF CallsAreSound
<1>21. ASSUME NEW other \in Clients, NEW och \in Channels
       PROVE  LiveAt(other, och)'
  <2>1. CASE other = cl /\ och = ch
    <3>1. First(s)' = First(s)
      BY <1>2, <1>5, FirstGoesOn
    <3>2. UpTo(s, n)'
      <4>1. \A i \in 1 .. Len(sent'[cl]) : sent'[cl][i].call = s => sent'[cl][i].seq <= n
        <5>1. \A i \in 1 .. Len(sent[cl]) : sent[cl][i].call = s => sent[cl][i].seq <= n
          BY <1>2, <1>8, <1>13, <1>15 DEF UpTo
        <5>2. frame.seq = n
          OBVIOUS
        <5> HIDE DEF frame
        <5> QED
          BY <1>2, <1>18, <5>1, <5>2 DEF Grows
      <4>2. n >= First(s) - 1
        BY <1>2, <1>9, <1>13 DEF UpTo
      <4> QED
        BY <1>1, <1>8, <3>1, <4>1, <4>2 DEF UpTo
    <3>3. \A m \in First(s) .. n : WasSent(cl, ch, m, s)' \/ IsHidden(ch, m)'
      <4> TAKE m \in First(s) .. n
      <4>1. CASE m = n
        <5>1. Len(sent[cl]) + 1 \in 1 .. Len(sent'[cl]) /\ sent'[cl][Len(sent[cl]) + 1] = frame
          BY <1>3, SentAfter, SentType
        <5> QED
          BY <4>1, <5>1 DEF WasSent, IsSent
      <4>2. CASE m # n
        <5>1. WasSent(cl, ch, m, s) \/ IsHidden(ch, m)
          BY <1>2, <1>9, <1>12, <1>13, <4>2
        <5> QED
          BY <1>1, <1>18, <5>1, WasSentKept DEF IsHidden
      <4> QED
        BY <4>1, <4>2
    <3>4. RestIsComing(cl, ch, n)'
      <4> SUFFICES ASSUME NEW m \in n + 1 .. rows[ch]
                   PROVE  IsHidden(ch, m)' \/ Coming(cl, ch, m)'
        BY <1>1 DEF RestIsComing
      <4>1. m \in last + 1 .. rows[ch] /\ m # n
        BY <1>2, <1>9
      <4>2. IsHidden(ch, m) \/ Coming(cl, ch, m)
        BY <1>7, <4>1 DEF LiveWhole, RestIsComing
      <4>3. Head(callback) # [channel |-> ch, seq |-> m]
        BY <1>10, <4>1
      <4> QED
        BY <1>1, <4>2, <4>3, ComingAfter DEF IsHidden
    <3>5. LiveWhole(cl, ch, s, n)'
      BY <1>1, <1>8, <3>1, <3>2, <3>3, <3>4 DEF LiveWhole
    <3>6. subs'[cl][ch].call = s /\ subs'[cl][ch].last = n /\ s # NoCall
      BY <1>0, <1>4
    <3> QED
      BY <2>1, <3>5, <3>6 DEF LiveAt
  <2>2. CASE ~(other = cl /\ och = ch)
    <3>1. subs'[other][och] = subs[other][och]
      BY <1>4, <2>2
    <3>2. ASSUME NEW l, l = subs[other][och].last, subs[other][och].call # NoCall,
                 other \notin closed'
          PROVE  RestIsComing(other, och, l)'
      <4>1. other \notin closed /\ RestIsComing(other, och, l)
        BY <3>2, RestOfLive DEF SInv
      <4>2. \A m : other # cl \/ Head(callback) # [channel |-> och, seq |-> m]
        BY <1>10, <2>2
      <4> QED
        BY <1>1, <4>1, <4>2, ComingAfter DEF RestIsComing, IsHidden
    <3>3. Grows(other)
      BY <1>18
    <3>4. ASSUME NEW t \in Calls, t = subs[other][och].call
          PROVE  NoneFor(other, t)
      <4>1. call[t].client = other /\ call[t].channel = och
        BY <3>4, SubscriptionsAssumption DEF SInv, LiveIsWhole, LiveAt, LiveWhole
      <4> QED
        BY <1>8, <1>18, <2>2, <4>1
    <3>5. \A t \in Calls : t = subs[other][och].call =>
            /\ call[t].stage = "done" => call'[t].stage = "done"
            /\ NoneFor(other, t)
      BY <1>1, <3>4
    <3>6. \A l : l = subs[other][och].last /\ subs[other][och].call # NoCall /\ other \notin closed'
                    => RestIsComing(other, och, l)'
      BY <3>2
    <3>7. hidden \subseteq hidden' /\ closed \subseteq closed' /\ LiveIsWhole
      BY <1>1 DEF SInv
    <3> QED
      BY ONLY TypeOK, <1>5, <3>1, <3>3, <3>5, <3>6, <3>7, LiveAtKept,
              other \in Clients, och \in Channels
  <2> QED
    BY <2>1, <2>2
<1>22. LiveIsWhole'
  BY <1>21 DEF LiveIsWhole
<1> QED
  BY <1>6, <1>17, <1>20, <1>22 DEF SInv

LEMMA DeliverKeeps ==
  ASSUME TypeOK, SInv, NEW cl \in Clients, Deliver(cl)
  PROVE  SInv'
<1>1. PICK ch, n, s, last :
        /\ ch = Head(callback).channel /\ n = Head(callback).seq
        /\ s = subs[cl][ch].call /\ last = subs[cl][ch].last
  OBVIOUS
<1>2. callback # <<>>
  BY DEF Deliver
<1>3. ch \in Channels
  BY <1>1, <1>2, HeadIsRow
<1>4. CASE subs[cl][ch] = NoSub \/ Past(subs[cl][ch], Head(callback))
  BY <1>1, <1>4, NotDeliveredKeeps DEF Deliver
<1>5. CASE ~(subs[cl][ch] = NoSub \/ Past(subs[cl][ch], Head(callback)))
  <2>1. s # NoCall
    BY <1>1, <1>3, <1>5, NoCallIsNoSub DEF SInv
  <2>2. /\ subs' = [subs EXCEPT ![cl][ch].last = n]
        /\ Enqueue(cl, [channel |-> ch, seq |-> n, call |-> s])
    BY <1>1, <1>5 DEF Deliver
  <2>3. CASE cl \in closed \/ QueueFull(cl)
    <3>1. UNCHANGED sent /\ closed \subseteq closed' /\ cl \in closed'
      BY <2>2, <2>3 DEF Enqueue
    <3> QED
      BY <1>1, <1>5, <2>1, <2>2, <3>1, LostKeeps
  <2>4. CASE ~(cl \in closed \/ QueueFull(cl))
    <3>1. /\ Adds(cl, [channel |-> ch, seq |-> n, call |-> s]) /\ UNCHANGED closed
          /\ cl \notin closed
      BY <2>2, <2>4 DEF Enqueue, Adds
    <3> QED
      BY <1>1, <1>5, <2>1, <2>2, <3>1, DeliveredKeeps DEF NextRow
  <2> QED
    BY <2>3, <2>4
<1> QED
  BY <1>4, <1>5

\* Nothing is sent and the callback stays; some subscriptions and calls change.
QuietStep ==
  /\ UNCHANGED <<rows, hidden, callback, audience, snapshot, connected, sent>>
  /\ CallsGoOn

LEMMA QuietKeeps ==
  ASSUME TypeOK, SInv, QuietStep
  PROVE  /\ FramesAreSound' /\ CallbackInOrder'
         /\ closed' = closed => OpenIsSeen'
         /\ \A s \in Calls : Whole(s) /\ call'[s].last = call[s].last => Whole(s)'
         /\ \A s \in Calls : GoesOn(s) => GoesOn(s)'
         /\ closed \subseteq closed' => \A cl \in Clients, ch \in Channels :
              /\ subs'[cl][ch] = subs[cl][ch]
              /\ \A s \in Calls : s = subs[cl][ch].call /\ call[s].stage = "done"
                                    => call'[s].stage = "done"
              => LiveAt(cl, ch)'
<1>1. FramesAreSound'
  BY NothingSent DEF SInv, QuietStep
<1>2. CallbackInOrder'
  BY DEF SInv, QuietStep, CallbackInOrder
<1>3. closed' = closed => OpenIsSeen'
  BY DEF SInv, QuietStep, OpenIsSeen
<1>4. \A cl \in Clients : Grows(cl) /\ \A s \in Calls : NoneFor(cl, s)
  BY GrowsWhenSame DEF QuietStep
<1>5. \A s \in Calls : Whole(s) /\ call'[s].last = call[s].last => Whole(s)'
  BY <1>4, CallTypes, WholeKept DEF QuietStep
<1>6. \A s \in Calls : GoesOn(s) => GoesOn(s)'
  <2> TAKE s \in Calls
  <2>1. call[s].client \in Clients /\ Grows(call[s].client)
    BY <1>4, CallTypes
  <2>2. \A i \in 1 .. Len(sent'[call[s].client]) : i \in 1 .. Len(sent[call[s].client])
    BY DEF QuietStep
  <2> QED
    BY <2>1, <2>2, GoesOnKept DEF QuietStep
<1>7. ASSUME closed \subseteq closed', NEW cl \in Clients, NEW ch \in Channels,
             subs'[cl][ch] = subs[cl][ch],
             \A s \in Calls : s = subs[cl][ch].call /\ call[s].stage = "done"
                                => call'[s].stage = "done"
      PROVE  LiveAt(cl, ch)'
  <2>1. ASSUME NEW last, last = subs[cl][ch].last, subs[cl][ch].call # NoCall, cl \notin closed'
        PROVE  RestIsComing(cl, ch, last)'
    <3>1. cl \notin closed
      BY <1>7, <2>1
    <3>2. RestIsComing(cl, ch, last)
      BY <2>1, <3>1, RestOfLive DEF SInv
    <3> QED
      BY <3>2, RestIsComingKept DEF QuietStep
  <2>2. hidden \subseteq hidden' /\ CallsGoOn
    BY DEF QuietStep
  <2> QED
    BY ONLY TypeOK, SInv, <1>4, <1>7, <2>1, <2>2, LiveAtKept, cl \in Clients, ch \in Channels DEF SInv
<1> QED
  BY <1>1, <1>2, <1>3, <1>5, <1>6, <1>7

LEMMA SocketKeeps ==
  ASSUME TypeOK, SInv, NEW cl \in Clients, Take(cl) \/ Disconnect(cl)
  PROVE  SInv'
<1>1. /\ UNCHANGED <<rows, hidden, callback, audience, snapshot, sent, subs, lock, call>>
      /\ closed \subseteq closed'
      /\ \/ UNCHANGED <<connected, closed>>
         \/ closed' = closed \cup {cl} /\ connected' = connected \ {cl}
  BY DEF Take, Disconnect
<1>2. CallsAreSound' /\ CallsGoOn
  BY <1>1, CallsKept DEF SInv
<1>3. FramesAreSound'
  BY <1>1, <1>2, NothingSent DEF SInv
<1>4. CallbackInOrder' /\ OpenIsSeen'
  BY <1>1 DEF SInv, CallbackInOrder, OpenIsSeen
<1>5. LiveIsWhole'
  <2> SUFFICES ASSUME NEW other \in Clients, NEW ch \in Channels
               PROVE  LiveAt(other, ch)'
    BY DEF LiveIsWhole
  <2>1. ASSUME NEW last, last = subs[other][ch].last, subs[other][ch].call # NoCall,
               other \notin closed'
        PROVE  RestIsComing(other, ch, last)'
    <3>1. other \notin closed
      BY <1>1, <2>1
    <3>2. RestIsComing(other, ch, last)
      BY <2>1, <3>1, RestOfLive DEF SInv
    <3> QED
      BY <1>1, <3>2, RestIsComingKept
  <2>2. Grows(other) /\ \A s \in Calls : NoneFor(other, s)
    BY <1>1, GrowsWhenSame
  <2> QED
    BY <1>1, <1>2, <2>1, <2>2, LiveAtKept DEF SInv
<1> QED
  BY <1>2, <1>3, <1>4, <1>5 DEF SInv

\* The request waits, reads or turns back to replay: whether it replays stays.
LEMMA RequestKeeps ==
  ASSUME TypeOK, SInv, NEW s \in Calls,
         Subscribe(s) \/ Read(s) \/ (RunBarrier(s) /\ ~ NothingLeft(s))
  PROVE  SInv'
<1>1. /\ UNCHANGED <<rows, hidden, callback, audience, snapshot, connected, closed,
                     subs, lock, sent>>
      /\ \A t \in Calls \ {s} : call'[t] = call[t]
      /\ call'[s].last = call[s].last /\ call'[s].from = call[s].from
      /\ call'[s].client = call[s].client /\ call'[s].channel = call[s].channel
      /\ \/ call[s].stage = "idle" /\ call'[s].stage = "lock"
         \/ call[s].stage \in {"read", "barrier"} /\ call'[s].stage \in {"barrier", "replay"}
  BY DEF Subscribe, Read, RunBarrier, Goto, TypeOK, Call
<1>2. CallsGoOn
  BY <1>1 DEF CallsGoOn
<1>3. \A t \in Calls : /\ Replaying(t)' <=> Replaying(t)
                       /\ call'[t].client = call[t].client /\ call'[t].channel = call[t].channel
                       /\ call'[t].last = call[t].last
                       /\ call[t].stage = "done" => call'[t].stage = "done"
  BY <1>1 DEF Replaying
<1>4. QuietStep
  BY <1>1, <1>2 DEF QuietStep
<1>5. LiveIsWhole'
  BY <1>1, <1>3, <1>4, QuietKeeps DEF LiveIsWhole
<1>6. ReplayIsAlone' /\ LockHeldByReplay'
  BY <1>1, <1>3 DEF SInv, CallsAreSound, ReplayIsAlone, LockHeldByReplay, Replaying
<1>7. ReplayIsWhole'
  BY <1>3, <1>4, QuietKeeps DEF SInv, CallsAreSound, ReplayIsWhole
<1>8. NewestGoesOn'
  <2> SUFFICES ASSUME NEW t \in Calls, (Replaying(t) \/ Live(t))'
               PROVE  GoesOn(t)'
    BY DEF NewestGoesOn
  <2>1. Replaying(t) \/ Live(t)
    BY <1>1, <1>3 DEF Live
  <2> QED
    BY <1>4, <2>1, QuietKeeps DEF SInv, CallsAreSound, NewestGoesOn
<1> QED
  BY <1>1, <1>4, <1>5, <1>6, <1>7, <1>8, QuietKeeps DEF SInv, CallsAreSound

\* One call at a time replays to a client.
LEMMA ReplaysAlone ==
  ASSUME SInv, NEW s \in Calls, NEW t \in Calls, Replaying(s), Replaying(t),
         call[s].client = call[t].client, call[s].client \in Clients
  PROVE  s = t /\ lock[call[s].client] = s
<1>1. s \in {u \in Calls : call[u].client = call[s].client /\ call[u].stage \in {"read", "barrier", "replay"}}
  BY DEF Replaying
<1>2. t \in {u \in Calls : call[u].client = call[s].client /\ call[u].stage \in {"read", "barrier", "replay"}}
  BY DEF Replaying
<1> QED
  BY <1>1, <1>2 DEF SInv, CallsAreSound, LockHeldByReplay

LEMMA LockIsHeld ==
  ASSUME SInv, NEW cl \in Clients, lock[cl] # NoCall
  PROVE  lock[cl] \in Calls /\ call[lock[cl]].client = cl /\ Replaying(lock[cl])
BY DEF SInv, CallsAreSound, LockHeldByReplay, Replaying

\* The lock seen from each call.
LEMMA LockFromCalls ==
  ASSUME TypeOK
  PROVE  LockHeldByReplay <=>
           \A cl \in Clients :
             /\ \A s \in Calls : call[s].client = cl /\ Replaying(s) => lock[cl] = s
             /\ lock[cl] # NoCall => call[lock[cl]].client = cl /\ Replaying(lock[cl])
<1>1. \A cl \in Clients : lock[cl] \in Calls \cup {NoCall}
  BY DEF TypeOK
<1>2. NoCall \notin Calls
  BY SubscriptionsAssumption
<1> QED
  BY <1>1, <1>2 DEF LockHeldByReplay, Replaying

\* The lock is granted.
LEMMA StartKeeps ==
  ASSUME TypeOK, TypeOK', SInv, NEW s \in Calls, Start(s)
  PROVE  SInv'
<1>1. PICK cl, ch : cl = call[s].client /\ ch = call[s].channel
  OBVIOUS
<1>2. cl \in Clients /\ ch \in Channels /\ call[s].from \in Nat /\ s # NoCall
  BY <1>1, CallTypes, SubscriptionsAssumption
<1>3. /\ UNCHANGED <<rows, hidden, callback, audience, snapshot, connected, closed, sent>>
      /\ call[s].stage = "lock" /\ lock[cl] = NoCall
      /\ lock' = [lock EXCEPT ![cl] = s]
      /\ subs' = [subs EXCEPT ![cl][ch] = NoSub]
  BY <1>1 DEF Start, StopLive
<1>4. /\ \A t \in Calls \ {s} : call'[t] = call[t]
      /\ call'[s].last = (IF call[s].from > 1 THEN call[s].from - 1 ELSE 0)
      /\ call'[s].from = call[s].from /\ call'[s].stage = "read"
      /\ call'[s].client = cl /\ call'[s].channel = ch
  BY <1>1 DEF Start, TypeOK, Call
<1>5. CallsGoOn
  BY <1>1, <1>4 DEF CallsGoOn
<1>6. QuietStep
  BY <1>3, <1>5 DEF QuietStep
<1>7. /\ subs'[cl][ch] = NoSub
      /\ \A other \in Clients, och \in Channels :
           other # cl \/ och # ch => subs'[other][och] = subs[other][och]
  BY <1>2, <1>3 DEF TypeOK
<1>8. \A t \in Calls : Replaying(t)' <=> t = s \/ Replaying(t)
  BY <1>3, <1>4 DEF Replaying
<1>9. \A t \in Calls : Replaying(t) => call[t].client # cl /\ t # s
  <2> SUFFICES ASSUME NEW t \in Calls, Replaying(t), call[t].client = cl
               PROVE  FALSE
    BY <1>1
  <2> QED
    BY <1>2, <1>3, ReplaysAlone, SubscriptionsAssumption
<1>10. \A t \in Calls : call'[t].client = call[t].client /\ call'[t].channel = call[t].channel
  BY <1>1, <1>4
<1>11. ReplayIsAlone'
  BY <1>4, <1>7, <1>8, <1>9, <1>10, CallTypes DEF SInv, CallsAreSound, ReplayIsAlone
<1>12. LockHeldByReplay'
  <2>1. lock'[cl] = s /\ \A other \in Clients \ {cl} : lock'[other] = lock[other]
    BY <1>2, <1>3 DEF TypeOK
  <2>2. \A other \in Clients :
          /\ \A t \in Calls : call[t].client = other /\ Replaying(t) => lock[other] = t
          /\ lock[other] # NoCall => call[lock[other]].client = other /\ Replaying(lock[other])
             /\ lock[other] \in Calls
    BY LockFromCalls, LockIsHeld DEF SInv, CallsAreSound
  <2>3. ASSUME NEW other \in Clients
        PROVE  /\ \A t \in Calls : call'[t].client = other /\ Replaying(t)' => lock'[other] = t
               /\ lock'[other] # NoCall =>
                    \E t \in Calls : t = lock'[other] /\ call'[t].client = other /\ Replaying(t)'
    <3>1. CASE other = cl
      BY <1>4, <1>8, <1>9, <1>10, <2>1, <3>1
    <3>2. CASE other # cl
      BY <1>1, <1>4, <1>8, <1>9, <1>10, <2>1, <2>2, <3>2
    <3> QED
      BY <3>1, <3>2
  <2> QED
    BY <2>3, <1>2, SubscriptionsAssumption DEF LockHeldByReplay, Replaying
\* No frame is of the call yet.
<1>13. \A other \in Clients : \A i \in 1 .. Len(sent[other]) : sent[other][i].call # s
  BY <1>3 DEF SInv, FramesAreSound, FramesOwned
<1>14. Whole(s)'
  <2>1. First(s)' = First(s) /\ First(s) \in Nat \ {0}
    BY <1>5, FirstGoesOn, FirstType
  <2>2. call'[s].last = First(s) - 1
    BY <1>2, <1>4 DEF First
  <2>3. \A i \in 1 .. Len(sent'[cl]) : sent'[cl][i].call # s
    BY <1>2, <1>3, <1>13
  <2>4. \A n \in First(s) .. call'[s].last : FALSE
    BY <2>1, <2>2
  <2> QED
    BY <1>4, <2>1, <2>2, <2>3, <2>4 DEF Whole, UpTo
<1>15. ReplayIsWhole'
  <2> SUFFICES ASSUME NEW t \in Calls, Replaying(t)'
               PROVE  Whole(t)'
    BY DEF ReplayIsWhole
  <2>1. CASE t = s
    BY <1>14, <2>1
  <2>2. CASE t # s
    <3>1. Whole(t) /\ call'[t].last = call[t].last
      BY <1>4, <1>8, <2>2 DEF SInv, CallsAreSound, ReplayIsWhole
    <3> QED
      BY <1>6, <3>1, QuietKeeps
  <2> QED
    BY <2>1, <2>2
<1>16. NewestGoesOn'
  <2> SUFFICES ASSUME NEW t \in Calls, (Replaying(t) \/ Live(t))'
               PROVE  GoesOn(t)'
    BY DEF NewestGoesOn
  <2>1. CASE t = s
    BY <1>2, <1>3, <1>4, <1>13, <2>1 DEF GoesOn
  <2>2. CASE t # s
    <3>1. Live(t)' => Live(t)
      BY <1>2, <1>7, <1>10, CallTypes, NoSubIsSub, SubscriptionsAssumption DEF Live
    <3>2. GoesOn(t)
      BY <1>8, <2>2, <3>1 DEF SInv, CallsAreSound, NewestGoesOn
    <3> QED
      BY <1>6, <3>2, QuietKeeps
  <2> QED
    BY <2>1, <2>2
<1>17. ASSUME NEW other \in Clients, NEW och \in Channels
       PROVE  LiveAt(other, och)'
  <2>1. CASE other = cl /\ och = ch
    BY <1>7, <2>1, NoSubIsSub DEF LiveAt
  <2>2. CASE ~(other = cl /\ och = ch)
    <3>1. subs'[other][och] = subs[other][och]
      BY <1>7, <2>2
    <3>2. \A t \in Calls : call[t].stage = "done" => call'[t].stage = "done"
      BY <1>3, <1>4
    <3> QED
      BY <1>3, <1>6, <3>1, <3>2, QuietKeeps
  <2> QED
    BY <2>1, <2>2
<1>18. LiveIsWhole'
  BY <1>17 DEF LiveIsWhole
<1>19. FramesAreSound' /\ CallbackInOrder' /\ OpenIsSeen'
  BY <1>3, <1>6, QuietKeeps
<1> QED
  BY <1>11, <1>12, <1>15, <1>16, <1>18, <1>19 DEF SInv, CallsAreSound

\* The barrier finds nothing left: the call turns live where it is.
LEMMA TurnsLive ==
  ASSUME TypeOK, TypeOK', SInv, NEW s \in Calls, RunBarrier(s), NothingLeft(s)
  PROVE  SInv'
<1>1. PICK cl, ch, last : cl = call[s].client /\ ch = call[s].channel /\ last = call[s].last
  OBVIOUS
<1>2. cl \in Clients /\ ch \in Channels /\ last \in Nat /\ s # NoCall
  BY <1>1, CallTypes, SubscriptionsAssumption
<1>3. /\ UNCHANGED <<rows, hidden, callback, audience, snapshot, connected, closed, sent>>
      /\ call[s].stage = "barrier" /\ callback = <<>>
      /\ lock' = [lock EXCEPT ![cl] = NoCall]
      /\ subs' = [subs EXCEPT ![cl][ch] = [call |-> s, last |-> last]]
      /\ call' = [call EXCEPT ![s].stage = "done"]
  BY <1>1 DEF RunBarrier, Goto
<1>4. /\ \A t \in Calls \ {s} : call'[t] = call[t]
      /\ call'[s].last = last /\ call'[s].from = call[s].from /\ call'[s].stage = "done"
      /\ call'[s].client = cl /\ call'[s].channel = ch
  BY <1>1, <1>3 DEF TypeOK, Call
<1>5. CallsGoOn
  BY <1>1, <1>4 DEF CallsGoOn
<1>6. QuietStep
  BY <1>3, <1>5 DEF QuietStep
<1>7. /\ subs'[cl][ch] = [call |-> s, last |-> last]
      /\ \A other \in Clients, och \in Channels :
           other # cl \/ och # ch => subs'[other][och] = subs[other][och]
  BY <1>2, <1>3 DEF TypeOK
<1>8. Replaying(s)
  BY <1>3 DEF Replaying
<1>9. \A t \in Calls : Replaying(t)' <=> t # s /\ Replaying(t)
  BY <1>4 DEF Replaying
<1>10. \A t \in Calls : t # s /\ Replaying(t) => call[t].client # cl
  BY <1>1, <1>2, <1>8, ReplaysAlone
<1>11. \A t \in Calls : call'[t].client = call[t].client /\ call'[t].channel = call[t].channel
  BY <1>1, <1>4
<1>12. ReplayIsAlone'
  BY <1>7, <1>9, <1>10, <1>11, CallTypes DEF SInv, CallsAreSound, ReplayIsAlone
<1>13. LockHeldByReplay'
  <2>1. lock'[cl] = NoCall /\ \A other \in Clients \ {cl} : lock'[other] = lock[other]
    BY <1>2, <1>3 DEF TypeOK
  <2>2. \A other \in Clients :
          /\ \A t \in Calls : call[t].client = other /\ Replaying(t) => lock[other] = t
          /\ lock[other] # NoCall => call[lock[other]].client = other /\ Replaying(lock[other])
             /\ lock[other] \in Calls
    BY LockFromCalls, LockIsHeld DEF SInv, CallsAreSound
  <2>3. ASSUME NEW other \in Clients
        PROVE  /\ \A t \in Calls : call'[t].client = other /\ Replaying(t)' => lock'[other] = t
               /\ lock'[other] # NoCall =>
                    \E t \in Calls : t = lock'[other] /\ call'[t].client = other /\ Replaying(t)'
    <3>1. CASE other = cl
      BY <1>9, <1>10, <1>11, <2>1, <3>1
    <3>2. CASE other # cl
      BY <1>1, <1>9, <1>10, <1>11, <2>1, <2>2, <3>2
    <3> QED
      BY <3>1, <3>2
  <2> QED
    BY <2>3, <1>2, SubscriptionsAssumption DEF LockHeldByReplay, Replaying
<1>14. ReplayIsWhole'
  <2> SUFFICES ASSUME NEW t \in Calls, Replaying(t)'
               PROVE  Whole(t)'
    BY DEF ReplayIsWhole
  <2>1. Whole(t) /\ call'[t].last = call[t].last
    BY <1>4, <1>9 DEF SInv, CallsAreSound, ReplayIsWhole
  <2> QED
    BY <1>6, <2>1, QuietKeeps
<1>15. NewestGoesOn'
  <2> SUFFICES ASSUME NEW t \in Calls, (Replaying(t) \/ Live(t))'
               PROVE  GoesOn(t)'
    BY DEF NewestGoesOn
  <2>1. t = s \/ Replaying(t) \/ Live(t)
    BY <1>7, <1>9, <1>11, CallTypes DEF Live
  <2>2. GoesOn(t)
    BY <1>8, <2>1 DEF SInv, CallsAreSound, NewestGoesOn
  <2> QED
    BY <1>6, <2>2, QuietKeeps
<1>16. LiveWhole(cl, ch, s, last)'
  <2>1. Whole(s)
    BY <1>8 DEF SInv, CallsAreSound, ReplayIsWhole
  <2>2. Whole(s)'
    BY <1>1, <1>4, <1>6, <2>1, QuietKeeps
  <2>3. UpTo(s, last)' /\ \A n \in First(s)' .. last : WasSent(cl, ch, n, s)'
    BY <1>4, <2>2 DEF Whole
  <2>4. rows[ch] <= last
    <3>1. PageEnd(s) <= last
      BY <1>1 DEF NothingLeft
    <3>2. rows[ch] \in Nat /\ PageSize \in Nat \ {0}
      BY <1>2, SubscriptionsAssumption DEF TypeOK
    <3> QED
      BY <1>1, <1>2, <3>1, <3>2 DEF PageEnd
  <2>5. RestIsComing(cl, ch, last)'
    <3>1. rows[ch] \in Nat
      BY <1>2, SubscriptionsAssumption DEF TypeOK
    <3>2. \A n \in last + 1 .. rows[ch] : FALSE
      BY <1>2, <2>4, <3>1
    <3> QED
      BY <1>3, <3>2 DEF RestIsComing
  <2> QED
    BY <1>4, <2>3, <2>5 DEF LiveWhole
<1>17. ASSUME NEW other \in Clients, NEW och \in Channels
       PROVE  LiveAt(other, och)'
  <2>1. CASE other = cl /\ och = ch
    <3>1. subs'[cl][ch].call = s /\ subs'[cl][ch].last = last
      BY <1>7
    <3> QED
      BY <1>2, <1>16, <2>1, <3>1 DEF LiveAt
  <2>2. CASE ~(other = cl /\ och = ch)
    <3>1. subs'[other][och] = subs[other][och]
      BY <1>7, <2>2
    <3>2. \A t \in Calls : call[t].stage = "done" => call'[t].stage = "done"
      BY <1>4
    <3> QED
      BY <1>3, <1>6, <3>1, <3>2, QuietKeeps
  <2> QED
    BY <2>1, <2>2
<1>18. LiveIsWhole'
  BY <1>17 DEF LiveIsWhole
<1>19. FramesAreSound' /\ CallbackInOrder' /\ OpenIsSeen'
  BY <1>3, <1>6, QuietKeeps
<1> QED
  BY <1>12, <1>13, <1>14, <1>15, <1>18, <1>19 DEF SInv, CallsAreSound

\* A row of the page is queued.
LEMMA ReplayKeeps ==
  ASSUME TypeOK, TypeOK', SInv, NEW s \in Calls, Replay(s)
  PROVE  SInv'
<1>1. PICK cl, ch, last, frame :
        /\ cl = call[s].client /\ ch = call[s].channel /\ last = call[s].last
        /\ frame = [channel |-> ch, seq |-> last + 1, call |-> s]
  OBVIOUS
<1>2. cl \in Clients /\ ch \in Channels /\ last \in Nat /\ s # NoCall
  BY <1>1, CallTypes, SubscriptionsAssumption
<1>3. /\ UNCHANGED <<rows, hidden, callback, audience, snapshot, connected, closed, subs, lock>>
      /\ call[s].stage = "replay" /\ Adds(cl, frame)
      /\ call' = [call EXCEPT ![s].last = @ + 1,
                              ![s].stage = IF call[s].last + 1 = call[s].upto THEN "read" ELSE "replay"]
  BY <1>1 DEF Replay, Adds
<1>4. /\ \A t \in Calls \ {s} : call'[t] = call[t]
      /\ call'[s].last = last + 1 /\ call'[s].from = call[s].from
      /\ call'[s].stage \in {"read", "replay"}
      /\ call'[s].client = cl /\ call'[s].channel = ch
  BY <1>1, <1>3 DEF TypeOK, Call
<1>5. CallsGoOn
  BY <1>1, <1>3, <1>4 DEF CallsGoOn
<1>6. frame \in Frame /\ frame.channel = ch /\ frame.seq = last + 1 /\ frame.call = s
  BY <1>1, <1>2 DEF Frame
<1>7. \A t \in Calls : Replaying(t)' <=> Replaying(t)
  BY <1>3, <1>4 DEF Replaying
<1>8. \A t \in Calls : call'[t].client = call[t].client /\ call'[t].channel = call[t].channel
  BY <1>1, <1>4
<1>9. Replaying(s) /\ Whole(s) /\ GoesOn(s) /\ subs[cl][ch] = NoSub
  BY <1>1, <1>3 DEF Replaying, SInv, CallsAreSound, ReplayIsWhole, ReplayIsAlone, NewestGoesOn
<1>10. \A t \in Calls : t # s /\ Replaying(t) => call[t].client # cl
  BY <1>1, <1>2, <1>9, ReplaysAlone
<1>11. \A i \in 1 .. Len(sent[cl]) : sent[cl][i].seq \in Nat
  BY <1>2, SentType
<1>12. First(s) \in Nat /\ First(s)' = First(s)
  <2>1. First(s) \in Nat
    BY FirstType
  <2> QED
    BY <1>5, <2>1, FirstGoesOn
<1>13. /\ last >= First(s) - 1
       /\ \A i \in 1 .. Len(sent[cl]) : sent[cl][i].call = s => sent[cl][i].seq <= last
       /\ \A n \in First(s) .. last : WasSent(cl, ch, n, s)
  BY <1>1, <1>9 DEF Whole, UpTo
<1>14. Next1(cl, frame)
  <2>1. frame.seq >= First(s)
    BY <1>2, <1>6, <1>12, <1>13
  <2>2. \A i \in 1 .. Len(sent[cl]) : sent[cl][i].call = s => sent[cl][i].seq < frame.seq
    BY <1>2, <1>6, <1>11, <1>13
  <2>3. \A n \in First(s) .. frame.seq - 1 : WasSent(cl, ch, n, s)
    BY <1>2, <1>6, <1>12, <1>13
  <2> QED
    BY <1>1, <1>6, <1>9, <2>1, <2>2, <2>3 DEF Next1, GoesOn, WasSent
<1>15. FramesAreSound'
  BY <1>2, <1>3, <1>4, <1>5, <1>6, <1>14, FrameSent DEF SInv
<1>16. /\ \A other \in Clients : Grows(other)
       /\ \A other \in Clients, t \in Calls : other # cl \/ t # s => NoneFor(other, t)
       /\ \A other \in Clients : \A i \in 1 .. Len(sent'[other]) :
              \/ i \in 1 .. Len(sent[other])
              \/ other = cl /\ i = Len(sent[cl]) + 1 /\ sent'[other][i] = frame
  BY <1>2, <1>3, <1>6, GrowsWhenSent
<1>17. ReplayIsAlone'
  BY <1>3, <1>7, <1>8 DEF SInv, CallsAreSound, ReplayIsAlone
<1>18. LockHeldByReplay'
  BY <1>3, <1>7, <1>8 DEF SInv, CallsAreSound, LockHeldByReplay, Replaying
<1>19. Whole(s)'
  <2>1. UpTo(s, last + 1)'
    <3>1. \A i \in 1 .. Len(sent'[cl]) : sent'[cl][i].call = s => sent'[cl][i].seq <= last + 1
      BY <1>2, <1>6, <1>11, <1>13, <1>16 DEF Grows
    <3>2. last + 1 >= First(s) - 1
      BY <1>2, <1>12, <1>13
    <3> QED
      BY <1>4, <1>12, <3>1, <3>2 DEF UpTo
  <2>2. ASSUME NEW n \in First(s) .. last + 1
        PROVE  WasSent(cl, ch, n, s)'
    <3>1. CASE n = last + 1
      <4>1. Len(sent[cl]) + 1 \in 1 .. Len(sent'[cl]) /\ sent'[cl][Len(sent[cl]) + 1] = frame
        BY <1>2, <1>3, <1>6, SentAfter, SentType
      <4> QED
        BY <1>1, <3>1, <4>1 DEF WasSent, IsSent
    <3>2. CASE n # last + 1
      <4>1. WasSent(cl, ch, n, s)
        BY <1>2, <1>12, <1>13, <3>2
      <4> QED
        BY <1>2, <1>16, <4>1, WasSentKept
    <3> QED
      BY <3>1, <3>2
  <2> QED
    BY <1>4, <1>12, <2>1, <2>2 DEF Whole
<1>20. ReplayIsWhole'
  <2> SUFFICES ASSUME NEW t \in Calls, Replaying(t)'
               PROVE  Whole(t)'
    BY DEF ReplayIsWhole
  <2>1. CASE t = s
    BY <1>19, <2>1
  <2>2. CASE t # s
    <3>1. Whole(t) /\ call'[t].last = call[t].last /\ call[t].client \in Clients
      BY <1>4, <1>7, <2>2, CallTypes DEF SInv, CallsAreSound, ReplayIsWhole
    <3> QED
      BY <1>5, <1>16, <2>2, <3>1, WholeKept
  <2> QED
    BY <2>1, <2>2
<1>21. NewestGoesOn'
  <2> SUFFICES ASSUME NEW t \in Calls, (Replaying(t) \/ Live(t))'
               PROVE  GoesOn(t)'
    BY DEF NewestGoesOn
  <2>1. Replaying(t) \/ Live(t)
    BY <1>3, <1>7, <1>8 DEF Live
  <2>2. GoesOn(t) /\ call[t].client \in Clients
    BY <2>1, CallTypes DEF SInv, CallsAreSound, NewestGoesOn
  <2>3. call[t].client = cl /\ call[t].channel = ch => t = s
    BY <1>9, <1>10, <2>1, NoSubIsSub, SubscriptionsAssumption DEF Live
  <2>4. \A i \in 1 .. Len(sent'[call[t].client]) :
          \/ i \in 1 .. Len(sent[call[t].client])
          \/ sent'[call[t].client][i].channel # call[t].channel
          \/ sent'[call[t].client][i].call = t
    BY <1>6, <1>16, <2>2, <2>3
  <2> QED
    BY <1>5, <1>16, <2>2, <2>4, GoesOnKept
<1>22. ASSUME NEW other \in Clients, NEW och \in Channels
       PROVE  LiveAt(other, och)'
  <2>1. \A l : l = subs[other][och].last /\ subs[other][och].call # NoCall /\ other \notin closed'
                 => RestIsComing(other, och, l)'
    <3>1. UNCHANGED <<rows, hidden, callback, audience>> /\ closed' = closed
      BY <1>3
    <3>2. ASSUME NEW l, l = subs[other][och].last, subs[other][och].call # NoCall, other \notin closed
          PROVE  RestIsComing(other, och, l)
      BY <3>2, RestOfLive DEF SInv
    <3> QED
      BY <3>1, <3>2, RestIsComingKept
  <2>2. \A t \in Calls : t = subs[other][och].call =>
          /\ call[t].stage = "done" => call'[t].stage = "done"
          /\ NoneFor(other, t)
    <3>1. \A t \in Calls : t = subs[other][och].call => call[t].stage = "done"
      BY <1>2, SubscriptionsAssumption DEF SInv, LiveIsWhole, LiveAt, LiveWhole
    <3> QED
      BY <1>3, <1>4, <1>16, <3>1
  <2>3. hidden \subseteq hidden' /\ closed \subseteq closed' /\ subs'[other][och] = subs[other][och]
        /\ LiveIsWhole
    BY <1>3 DEF SInv
  <2>4. Grows(other)
    BY <1>16
  <2> QED
    BY ONLY TypeOK, <1>5, <2>1, <2>2, <2>3, <2>4, LiveAtKept, other \in Clients, och \in Channels
<1>23. LiveIsWhole'
  BY <1>22 DEF LiveIsWhole
<1>24. CallbackInOrder' /\ OpenIsSeen'
  BY <1>3 DEF SInv, CallbackInOrder, OpenIsSeen
<1> QED
  BY <1>15, <1>17, <1>18, <1>20, <1>21, <1>23, <1>24 DEF SInv, CallsAreSound

\* A failed request gives the lock back.
LEMMA BailKeeps ==
  ASSUME TypeOK, TypeOK', SInv, NEW s \in Calls, Bail(s)
  PROVE  SInv'
<1>1. /\ UNCHANGED <<rows, hidden, callback, audience, snapshot, connected, closed, subs, sent>>
      /\ call[s].stage \in {"lock", "read", "replay"}
      /\ \A t \in Calls \ {s} : call'[t] = call[t]
      /\ call'[s].last = call[s].last /\ call'[s].from = call[s].from
      /\ call'[s].client = call[s].client /\ call'[s].channel = call[s].channel
      /\ call'[s].stage = "failed"
      /\ \A cl \in Clients : lock'[cl] = IF lock[cl] = s THEN NoCall ELSE lock[cl]
  BY DEF Bail, Cancellable, ReleaseLock, Goto, TypeOK, Call
<1>2. CallsGoOn
  BY <1>1 DEF CallsGoOn
<1>3. /\ \A t \in Calls : Replaying(t)' <=> t # s /\ Replaying(t)
      /\ \A t \in Calls : /\ call'[t].client = call[t].client /\ call'[t].channel = call[t].channel
                          /\ call'[t].last = call[t].last
                          /\ call[t].stage = "done" => call'[t].stage = "done"
  BY <1>1 DEF Replaying
<1>4. QuietStep
  BY <1>1, <1>2 DEF QuietStep
<1>5. LiveIsWhole'
  BY <1>1, <1>3, <1>4, QuietKeeps DEF LiveIsWhole
<1>6. ReplayIsAlone'
  BY <1>1, <1>3 DEF SInv, CallsAreSound, ReplayIsAlone
<1>7. LockHeldByReplay'
  <2>1. \A other \in Clients :
          /\ \A t \in Calls : call[t].client = other /\ Replaying(t) => lock[other] = t
          /\ lock[other] # NoCall => call[lock[other]].client = other /\ Replaying(lock[other])
             /\ lock[other] \in Calls
    BY LockFromCalls, LockIsHeld DEF SInv, CallsAreSound
  <2>2. ASSUME NEW other \in Clients
        PROVE  /\ \A t \in Calls : call'[t].client = other /\ Replaying(t)' => lock'[other] = t
               /\ lock'[other] # NoCall =>
                    \E t \in Calls : t = lock'[other] /\ call'[t].client = other /\ Replaying(t)'
    BY <1>1, <1>3, <2>1
  <2> QED
    BY <2>2, SubscriptionsAssumption DEF LockHeldByReplay, Replaying
<1>8. ReplayIsWhole'
  BY <1>3, <1>4, QuietKeeps DEF SInv, CallsAreSound, ReplayIsWhole
<1>9. NewestGoesOn'
  <2> SUFFICES ASSUME NEW t \in Calls, (Replaying(t) \/ Live(t))'
               PROVE  GoesOn(t)'
    BY DEF NewestGoesOn
  <2>1. Replaying(t) \/ Live(t)
    BY <1>1, <1>3 DEF Live
  <2> QED
    BY <1>4, <2>1, QuietKeeps DEF SInv, CallsAreSound, NewestGoesOn
<1> QED
  BY <1>1, <1>4, <1>5, <1>6, <1>7, <1>8, <1>9, QuietKeeps DEF SInv, CallsAreSound

LEMMA UnsubscribeKeeps ==
  ASSUME TypeOK, TypeOK', SInv, NEW cl \in Clients, NEW ch \in Channels, Unsubscribe(cl, ch)
  PROVE  SInv'
<1>1. /\ UNCHANGED <<rows, hidden, callback, audience, snapshot, connected, closed,
                     lock, sent, call>>
      /\ subs' = [subs EXCEPT ![cl][ch] = NoSub]
  BY DEF Unsubscribe
<1>2. CallsGoOn
  BY <1>1 DEF CallsGoOn
<1>3. QuietStep
  BY <1>1, <1>2 DEF QuietStep
<1>4. /\ subs'[cl][ch] = NoSub
      /\ \A other \in Clients, och \in Channels :
           other # cl \/ och # ch => subs'[other][och] = subs[other][och]
  BY <1>1 DEF TypeOK
<1>5. LiveIsWhole'
  <2>1. ASSUME NEW other \in Clients, NEW och \in Channels
        PROVE  LiveAt(other, och)'
    <3>1. CASE other = cl /\ och = ch
      BY <1>4, <3>1, NoSubIsSub DEF LiveAt
    <3>2. CASE ~(other = cl /\ och = ch)
      <4>1. subs'[other][och] = subs[other][och]
        BY <1>4, <3>2
      <4> QED
        BY <1>1, <1>3, <4>1, QuietKeeps
    <3> QED
      BY <3>1, <3>2
  <2> QED
    BY <2>1 DEF LiveIsWhole
<1>6. ReplayIsAlone'
  BY <1>1, <1>4, CallTypes DEF SInv, CallsAreSound, ReplayIsAlone, Replaying
<1>7. LockHeldByReplay'
  BY <1>1 DEF SInv, CallsAreSound, LockHeldByReplay
<1>8. ReplayIsWhole'
  BY <1>1, <1>3, QuietKeeps DEF SInv, CallsAreSound, ReplayIsWhole, Replaying
<1>9. NewestGoesOn'
  <2> SUFFICES ASSUME NEW t \in Calls, (Replaying(t) \/ Live(t))'
               PROVE  GoesOn(t)'
    BY DEF NewestGoesOn
  <2>1. Replaying(t) \/ Live(t)
    BY <1>1, <1>4, CallTypes, NoSubIsSub, SubscriptionsAssumption DEF Live, Replaying
  <2> QED
    BY <1>3, <2>1, QuietKeeps DEF SInv, CallsAreSound, NewestGoesOn
<1> QED
  BY <1>1, <1>3, <1>5, <1>6, <1>7, <1>8, <1>9, QuietKeeps DEF SInv, CallsAreSound

-----------------------------------------------------------------------------
(* The theorems                                                            *)

LEMMA InitIsSound ==
  Init => IInv
<1> SUFFICES ASSUME Init
             PROVE  IInv
  OBVIOUS
<1>1. TypeOK
  <2>1. call \in [Calls -> Call]
    <3>1. call \in [Calls -> [stage : {"idle"}, client : Clients, channel : Channels,
                              from : Froms, last : {0}, upto : {0}]]
      BY DEF Init
    <3>2. [stage : {"idle"}, client : Clients, channel : Channels,
           from : Froms, last : {0}, upto : {0}] \subseteq Call
      <4> SUFFICES ASSUME NEW c \in [stage : {"idle"}, client : Clients, channel : Channels,
                                     from : Froms, last : {0}, upto : {0}]
                   PROVE  c \in Call
        OBVIOUS
      <4>1. c = [stage |-> c.stage, client |-> c.client, channel |-> c.channel,
                 from |-> c.from, last |-> c.last, upto |-> c.upto]
        OBVIOUS
      <4>2. /\ c.stage \in Stages /\ c.client \in Clients /\ c.channel \in Channels
            /\ c.from \in Nat /\ c.last \in Nat /\ c.upto \in Nat
        <5>1. /\ c.stage = "idle" /\ c.client \in Clients /\ c.channel \in Channels
              /\ c.from \in Froms /\ c.last = 0 /\ c.upto = 0
          OBVIOUS
        <5>2. c.from \in Nat
          BY <5>1, SubscriptionsAssumption
        <5> QED
          BY ONLY <5>1, <5>2 DEF Stages
      <4> QED
        BY <4>1, <4>2 DEF Call
    <3> QED
      BY <3>1, <3>2
  <2>2. <<>> \in Seq(RowId) /\ <<>> \in Seq(Frame) /\ Len(<<>>) = 0
    OBVIOUS
  <2>3. subs \in [Clients -> [Channels -> Sub]]
    BY NoSubIsSub DEF Init
  <2>4. \A cl \in Clients : QueueLen(cl) \in 0 .. QueueMax
    BY <2>2, SubscriptionsAssumption DEF Init, QueueLen
  <2> QED
    BY <2>1, <2>2, <2>3, <2>4, SubscriptionsAssumption DEF Init, TypeOK
<1>2. \A cl \in Clients : Len(sent[cl]) = 0
  BY DEF Init
<1>3. \A s \in Calls : call[s].stage = "idle" /\ ~ Replaying(s)
  BY DEF Init, Replaying
<1>4. FramesAreSound
  BY <1>2 DEF FramesAreSound, FramesOwned, Contiguous, NoInterleaving
<1>5. LiveIsWhole
  BY NoSubIsSub DEF Init, LiveIsWhole, LiveAt
<1>6. \A s \in Calls : ~ Live(s)
  BY <1>1, CallTypes, NoSubIsSub, SubscriptionsAssumption DEF Init, Live
<1>7. CallsAreSound
  BY <1>3, <1>6 DEF Init, CallsAreSound, ReplayIsAlone, ReplayIsWhole, NewestGoesOn, LockHeldByReplay
<1>8. OpenIsSeen /\ CallbackInOrder
  BY DEF Init, OpenIsSeen, CallbackInOrder
<1> QED
  BY <1>1, <1>4, <1>5, <1>7, <1>8, InvParts DEF SInv

LEMMA StepIsSound ==
  IInv /\ [Next]_vars => IInv'
<1> SUFFICES ASSUME TypeOK, SInv, [Next]_vars
             PROVE  TypeOK' /\ SInv'
  BY InvParts DEF IInv, SInv, FramesAreSound, CallsAreSound
<1>1. TypeOK'
  BY TypeOfStep DEF SInv
<1>2. ASSUME NEW s \in Calls, Advance(s)
      PROVE  SInv'
  <2>1. CASE RunBarrier(s)
    <3>1. CASE NothingLeft(s)
      BY <1>1, <2>1, <3>1, TurnsLive
    <3>2. CASE ~ NothingLeft(s)
      BY <2>1, <3>2, RequestKeeps
    <3> QED
      BY <3>1, <3>2
  <2> QED
    BY <1>1, <1>2, <2>1, StartKeeps, RequestKeeps, ReplayKeeps, BailKeeps DEF Advance
<1>3. CASE UNCHANGED vars
  <2>1. UNCHANGED <<rows, hidden, callback, audience, snapshot, connected, closed,
                    subs, lock, sent, call>>
    BY <1>3 DEF vars
  <2>2. CallsAreSound' /\ CallsGoOn
    BY <2>1, CallsKept DEF SInv
  <2>3. QuietStep
    BY <2>1, <2>2 DEF QuietStep
  <2>4. LiveIsWhole'
    BY <2>1, <2>3, QuietKeeps DEF LiveIsWhole
  <2> QED
    BY <1>1, <2>1, <2>2, <2>3, <2>4, QuietKeeps DEF SInv
<1>4. ASSUME NEW es \in Groups, Commit(es)
      PROVE  SInv'
  BY <1>4, CommitKeeps
<1>5. ASSUME NEW cl \in Clients, Deliver(cl) \/ Take(cl) \/ Disconnect(cl)
      PROVE  SInv'
  BY <1>5, DeliverKeeps, SocketKeeps
<1>6. ASSUME NEW s \in Calls, Subscribe(s)
      PROVE  SInv'
  BY <1>6, RequestKeeps
<1>7. ASSUME NEW cl \in Clients, NEW ch \in Channels, Unsubscribe(cl, ch)
      PROVE  SInv'
  BY <1>1, <1>7, UnsubscribeKeeps
<1>8. CASE Next
  <2>1. \/ \E es \in Groups : Commit(es)
        \/ \E cl \in Clients : Deliver(cl) \/ Take(cl) \/ Disconnect(cl)
        \/ \E s \in Calls : Subscribe(s)
        \/ \E s \in Calls : Advance(s)
        \/ \E cl \in Clients, ch \in Channels : Unsubscribe(cl, ch)
    BY <1>8, Zenon DEF Next
  <2> QED
    BY <1>1, <1>2, <1>4, <1>5, <1>6, <1>7, <2>1
<1> QED
  BY <1>1, <1>3, <1>8

\* What the invariant says of every state: nothing was missed by a live subscriber.
LEMMA InvGetsTheLog ==
  IInv => GetsTheLog
<1> SUFFICES ASSUME IInv
             PROVE  LiveIsComplete
  BY DEF IInv, GetsTheLog
<1> SUFFICES ASSUME NEW cl \in Clients \ closed, NEW ch \in Channels, NEW s \in Calls,
                    s = subs[cl][ch].call, NEW n \in First(s) .. rows[ch]
             PROVE  WasSent(cl, ch, n, s) \/ IsHidden(ch, n) \/ InFlight(ch, n)
  BY SubsTypes DEF IInv, LiveIsComplete, WasSent
<1>1. PICK last : last = subs[cl][ch].last
  OBVIOUS
<1>2. LiveWhole(cl, ch, s, last)
  BY <1>1, SubscriptionsAssumption DEF IInv, LiveIsWhole, LiveAt
<1>3. last \in Nat /\ First(s) \in Nat
  BY <1>1, SubsTypes, FirstType DEF IInv
<1>4. rows[ch] \in Nat
  BY SubscriptionsAssumption DEF IInv, TypeOK
<1>5. CASE n <= last
  <2>1. n \in First(s) .. last
    BY <1>3, <1>4, <1>5
  <2> QED
    BY <1>2, <2>1 DEF LiveWhole
<1>6. CASE n > last
  <2>1. n \in last + 1 .. rows[ch]
    BY <1>3, <1>4, <1>6
  <2> QED
    BY <1>2, <2>1 DEF LiveWhole, RestIsComing, Coming, InFlight
<1> QED
  BY <1>3, <1>4, <1>5, <1>6

\* The variables have their types and no queue holds more than it may
\* (queue.rs), for all numbers of clients, channels, requests and rows.
THEOREM TypeCorrect == Spec => []TypeOK
<1>1. IInv => TypeOK
  BY DEF IInv
<1> QED
  BY <1>1, InitIsSound, StepIsSound, PTL DEF Spec

\* What a subscriber gets is the log from where it asked, whole and in order,
\* through replay and the handoff to live delivery, and one call at a time
\* replays it (hub.rs, Client::subscribe and Client::deliver).
THEOREM LogDelivered == Spec => []GetsTheLog
  BY InitIsSound, StepIsSound, InvGetsTheLog, PTL DEF Spec
=============================================================================

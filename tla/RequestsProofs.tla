--------------------------- MODULE RequestsProofs ---------------------------
(***************************************************************************)
(* Theorems about the requests of src/agent/state.rs for any number of     *)
(* agents, requests and stops: the state is well-typed, whoever waits for  *)
(* a reply can get one, no debt is answered twice or dropped without three *)
(* reminders, and reminders alone start three turns at most.               *)
(***************************************************************************)
EXTENDS Requests, TLAPS

Request == [from : Parties, open : SUBSET Agents, held : SUBSET Agents]

\* What the type invariant says of the requests.
Consistent(rs) ==
  /\ rs \in [Ids -> Request]
  /\ \A r \in Ids : rs[r].held \subseteq rs[r].open
  /\ \A r \in Ids : rs[r].open = {} => rs[r] = Settled

\* Requests only lost debts: who still owes one holds it if it held it before.
Fewer(new, old) ==
  \A r \in Ids : \A b \in new[r].open :
    b \in old[r].open /\ (b \in old[r].held => b \in new[r].held)

\* OpenIsReachable for given requests and inboxes.
Reachable(rs, box) ==
  \A r \in Ids : \A a \in rs[r].open : a \in rs[r].held \/ \E i \in box[a] : i.id = r

\* Reminders are counted before the next one is sent: while one is in an inbox
\* or makes up a turn, fewer than three have been ignored.
Nudged ==
  \A a \in Agents :
    /\ nudges[a] <= MAX_NUDGES
    /\ Reminder \in inbox[a] => nudges[a] < MAX_NUDGES
    /\ a \in reminded => nudges[a] < MAX_NUDGES /\ InTurn(a)
    /\ phase[a] # "idle" => Reminder \notin inbox[a]

-----------------------------------------------------------------------------
(* The operators of the fold                                               *)

LEMMA WithoutConsistent ==
  ASSUME NEW q \in Request, NEW a, q.held \subseteq q.open
  PROVE  /\ Without(q, a) \in Request
         /\ Without(q, a).held \subseteq Without(q, a).open
         /\ Without(q, a).open = {} => Without(q, a) = Settled
         /\ Without(q, a).open = q.open \ {a}
         /\ Without(q, a).held = q.held \ {a}
BY DEF Without, Request, Settled, Parties

LEMMA SettledConsistent ==
  /\ Settled \in Request
  /\ Settled.held = {} /\ Settled.open = {}
BY DEF Settled, Request, Parties

\* A response takes debts away and does nothing else.
LEMMA SettleConsistent ==
  ASSUME NEW rs, Consistent(rs), NEW a, NEW ids
  PROVE  Consistent(SettleReplies(rs, a, ids)) /\ Fewer(SettleReplies(rs, a, ids), rs)
<1> DEFINE new == SettleReplies(rs, a, ids)
<1>1. ASSUME NEW r \in Ids
      PROVE  /\ new[r] \in Request
             /\ new[r].held \subseteq new[r].open
             /\ new[r].open = {} => new[r] = Settled
             /\ \A b \in new[r].open : b \in rs[r].open /\ (b \in rs[r].held => b \in new[r].held)
  <2>1. rs[r] \in Request /\ rs[r].held \subseteq rs[r].open /\ (rs[r].open = {} => rs[r] = Settled)
    BY DEF Consistent
  <2>2. new[r] = IF r \in ids THEN Without(rs[r], a) ELSE rs[r]
    BY DEF SettleReplies
  <2> QED
    BY <2>1, <2>2, WithoutConsistent
<1>2. new \in [Ids -> Request]
  <2>1. new = [r \in Ids |-> new[r]]
    BY DEF SettleReplies
  <2> QED
    BY <1>1, <2>1
<1> QED
  BY <1>1, <1>2 DEF Consistent, Fewer

\* So does forgetting an agent.
LEMMA ForgetConsistent ==
  ASSUME NEW rs, Consistent(rs), NEW a
  PROVE  Consistent(ForgetParty(rs, a)) /\ Fewer(ForgetParty(rs, a), rs)
<1> DEFINE new == ForgetParty(rs, a)
<1>1. ASSUME NEW r \in Ids
      PROVE  /\ new[r] \in Request
             /\ new[r].held \subseteq new[r].open
             /\ new[r].open = {} => new[r] = Settled
             /\ \A b \in new[r].open : b \in rs[r].open /\ (b \in rs[r].held => b \in new[r].held)
  <2>1. rs[r] \in Request /\ rs[r].held \subseteq rs[r].open
    BY DEF Consistent
  <2>2. new[r] = IF rs[r].from = a THEN Settled ELSE Without(rs[r], a)
    BY DEF ForgetParty
  <2> QED
    BY <2>1, <2>2, WithoutConsistent, SettledConsistent
<1>2. new \in [Ids -> Request]
  <2>1. new = [r \in Ids |-> new[r]]
    BY DEF ForgetParty
  <2> QED
    BY <1>1, <2>1
<1> QED
  BY <1>1, <1>2 DEF Consistent, Fewer

\* Inboxes that only grow keep what is reachable so.
LEMMA FewerReachable ==
  ASSUME NEW new, NEW old, NEW box, NEW bigger,
         Consistent(new), Fewer(new, old), Reachable(old, box),
         \A a \in Agents : box[a] \subseteq bigger[a]
  PROVE  Reachable(new, bigger)
<1> SUFFICES ASSUME NEW r \in Ids, NEW a \in new[r].open
             PROVE  a \in new[r].held \/ \E i \in bigger[a] : i.id = r
  BY DEF Reachable
<1>1. a \in Agents
  BY DEF Consistent, Request
<1>2. a \in old[r].open /\ (a \in old[r].held => a \in new[r].held)
  BY DEF Fewer
<1>3. a \in old[r].held \/ \E i \in box[a] : i.id = r
  BY <1>2 DEF Reachable
<1> QED
  BY <1>1, <1>2, <1>3

-----------------------------------------------------------------------------
(* What the actions are built from                                         *)

\* The history keeps its type.
LEMMA RecountTyped ==
  ASSUME told \in [Ids \X Agents -> 0 .. MAX_NUDGES], NEW anew, Recount(anew)
  PROVE  told' \in [Ids \X Agents -> 0 .. MAX_NUDGES]
BY DEF Recount, MAX_NUDGES

\* Taking input holds the debts in it, and leaves the other requests alone.
LEMMA TakeHolds ==
  ASSUME TypeOK, NEW a \in Agents, NEW inputs \in SUBSET inbox[a],
         NEW nothingElse \in BOOLEAN, Take(a, inputs, nothingElse), NEW r \in Ids
  PROVE  /\ r \notin {i.id : i \in Debts(inputs)} => requests'[r] = requests[r]
         /\ r \in {i.id : i \in Debts(inputs)} =>
              /\ requests'[r].from \in Parties
              /\ requests'[r] \in Request
              /\ requests'[r].open = requests[r].open \cup {a}
              /\ requests'[r].held = requests[r].held \cup {a}
<1> DEFINE debts == {i.id : i \in Debts(inputs)}
           opened == Asked(requests, a, inputs)
<1>1. requests' = [s \in Ids |-> IF s \in debts THEN Hold(opened[s], a) ELSE opened[s]]
  BY DEF Take
<1>2. inputs \subseteq Input /\ inbox \in [Agents -> SUBSET Input]
  BY DEF TypeOK
<1>3. r \in debts <=> \E i \in Debts(inputs) : i.id = r
  OBVIOUS
<1>4. CASE r \notin debts
  BY <1>1, <1>3, <1>4 DEF Asked
<1>5. CASE r \in debts
  <2> DEFINE from == (CHOOSE i \in inputs : i.id = r).from
  <2>1. from \in Parties
    <3>1. \E i \in inputs : i.id = r
      BY <1>3, <1>5 DEF Debts
    <3>2. (CHOOSE i \in inputs : i.id = r) \in inputs
      BY <3>1
    <3> QED
      BY <1>2, <3>2 DEF Input
  <2> HIDE DEF from
  <2>2. opened[r] = [from |-> IF requests[r].open = {} THEN from ELSE requests[r].from,
                     open |-> requests[r].open \cup {a}, held |-> requests[r].held]
    BY <1>3, <1>5 DEF Asked, from
  <2>3. requests[r] \in Request
    BY DEF TypeOK, Request
  <2>4. requests'[r] = Hold(opened[r], a)
    BY <1>1, <1>5
  <2> QED
    BY <1>5, <2>1, <2>2, <2>3, <2>4 DEF Hold, Request
<1> QED
  BY <1>4, <1>5

\* Taking input: what is taken is held, what is not taken stays reachable.
LEMMA TakeKeeps ==
  ASSUME TypeOK, NEW a \in Agents, NEW inputs \in SUBSET inbox[a],
         NEW nothingElse \in BOOLEAN, Take(a, inputs, nothingElse)
  PROVE  /\ Consistent(requests')
         /\ inbox' = [inbox EXCEPT ![a] = @ \ inputs]
         /\ inbox' \in [Agents -> SUBSET Input]
         /\ told' \in [Ids \X Agents -> 0 .. MAX_NUDGES]
         /\ OpenIsReachable => OpenIsReachable'
<1> DEFINE debts == {i.id : i \in Debts(inputs)}
           opened == Asked(requests, a, inputs)
<1>1. requests' = [r \in Ids |-> IF r \in debts THEN Hold(opened[r], a) ELSE opened[r]]
  BY DEF Take
<1>2. inputs \subseteq Input /\ inbox \in [Agents -> SUBSET Input]
  BY DEF TypeOK
<1>3. ASSUME NEW r \in Ids
      PROVE  /\ r \notin debts => requests'[r] = requests[r]
             /\ r \in debts =>
                  /\ requests'[r].from \in Parties
                  /\ requests'[r] \in Request
                  /\ requests'[r].open = requests[r].open \cup {a}
                  /\ requests'[r].held = requests[r].held \cup {a}
  BY TakeHolds
<1>4. \A r \in Ids : /\ requests[r] \in Request /\ requests[r].held \subseteq requests[r].open
                     /\ requests[r].open = {} => requests[r] = Settled
  BY DEF TypeOK, Request
<1>5. Consistent(requests')
  <2> HIDE DEF debts, opened
  <2>1. requests' \in [Ids -> Request]
    <3>1. \A r \in Ids : requests'[r] \in Request
      BY <1>3, <1>4
    <3>2. requests' = [r \in Ids |-> requests'[r]]
      BY <1>1
    <3> QED
      BY <3>1, <3>2
  <2>2. \A r \in Ids : requests'[r].held \subseteq requests'[r].open
    BY <1>3, <1>4
  <2>3. \A r \in Ids : requests'[r].open = {} => requests'[r] = Settled
    BY <1>3, <1>4
  <2> QED
    BY <2>1, <2>2, <2>3 DEF Consistent
<1>6. inbox' = [inbox EXCEPT ![a] = @ \ inputs] /\ inbox' \in [Agents -> SUBSET Input]
  BY <1>2 DEF Take
<1>7. told' \in [Ids \X Agents -> 0 .. MAX_NUDGES]
  BY RecountTyped DEF TypeOK, Take
<1>8. ASSUME OpenIsReachable, NEW r \in Ids, NEW b \in requests'[r].open
      PROVE  b \in requests'[r].held \/ \E i \in inbox'[b] : i.id = r
  <2>1. CASE r \in debts
    BY <1>3, <1>6, <1>8, <2>1, <1>2, <1>4 DEF OpenIsReachable, Request
  <2>2. CASE r \notin debts
    <3>1. b \in Agents /\ (b \in requests[r].held \/ \E i \in inbox[b] : i.id = r)
      BY <1>3, <1>4, <1>8, <2>2 DEF OpenIsReachable, Request
    <3>2. CASE b \in requests[r].held
      BY <1>3, <2>2, <3>2
    <3>3. CASE \E i \in inbox[b] : i.id = r
      <4>1. PICK i \in inbox[b] : i.id = r
        BY <3>3
      <4>2. r # NoId
        BY RequestsAssumption DEF Ids, NoId
      <4>3. i \notin inputs
        BY <2>2, <4>1, <4>2 DEF Debts
      <4> QED
        BY <1>6, <1>2, <3>1, <4>1, <4>3
    <3> QED
      BY <3>1, <3>2, <3>3
  <2> QED
    BY <2>1, <2>2
<1> QED
  BY <1>5, <1>6, <1>7, <1>8 DEF OpenIsReachable

\* Sending the same input to everyone in `to`: with an id, each has it in its
\* inbox when the request is opened to it.
LEMMA DeliverKeeps ==
  ASSUME TypeOK, NEW rs, Consistent(rs), Fewer(rs, requests), NEW to \in SUBSET Parties,
         NEW input \in Input, input.id # NoId => to \cap Agents # {}, Deliver(rs, to, input)
  PROVE  /\ Consistent(requests')
         /\ inbox' \in [Agents -> SUBSET Input]
         /\ \A b \in Agents : inbox'[b] \subseteq inbox[b] \cup {input}
         /\ OpenIsReachable => OpenIsReachable'
<1>1. /\ inbox \in [Agents -> SUBSET Input]
      /\ inbox' = [b \in Agents |-> IF b \in to THEN inbox[b] \cup {input} ELSE inbox[b]]
  BY DEF TypeOK, Deliver
<1>2. /\ inbox' \in [Agents -> SUBSET Input]
      /\ \A b \in Agents : inbox[b] \subseteq inbox'[b] /\ inbox'[b] \subseteq inbox[b] \cup {input}
      /\ \A b \in to \cap Agents : input \in inbox'[b]
  BY <1>1
<1>3. OpenIsReachable => Reachable(rs, inbox')
  <2>1. OpenIsReachable => Reachable(requests, inbox)
    BY DEF OpenIsReachable, Reachable
  <2> QED
    BY <1>2, <2>1, FewerReachable
<1>4. CASE input.id = NoId
  <2>1. requests' = rs
    BY <1>4 DEF Deliver
  <2> QED
    BY <1>2, <1>3, <2>1 DEF OpenIsReachable, Reachable
<1>5. CASE input.id # NoId
  <2> DEFINE new == [from |-> input.from, open |-> to \cap Agents, held |-> {}]
  <2>1. requests' = [r \in Ids |-> IF r = input.id THEN new ELSE rs[r]]
    BY <1>5 DEF Deliver
  <2>2. new \in Request /\ new.open # {} /\ new.held = {} /\ new.open = to \cap Agents
    BY <1>5 DEF Request, Input
  <2> HIDE DEF new
  <2>3. Consistent(requests')
    BY <2>1, <2>2 DEF Consistent
  <2>4. OpenIsReachable => OpenIsReachable'
    BY <1>2, <1>3, <2>1, <2>2 DEF OpenIsReachable, Reachable
  <2> QED
    BY <1>2, <2>3, <2>4
<1> QED
  BY <1>4, <1>5

-----------------------------------------------------------------------------
(* The type invariant and who can be answered                              *)

\* TypeOK without the requests and the inboxes.
Others ==
  /\ killed \subseteq Agents /\ cancelled \subseteq Agents
  /\ nudges \in [Agents -> Nat] /\ reminded \subseteq Agents
  /\ phase \in [Agents -> Phases] /\ ended \in [Agents -> {"normally", "otherwise"}]
  /\ used \in 0 .. MaxRequests /\ stops \in 0 .. MaxStops
  /\ answered \subseteq Ids \X Agents /\ forgotten \subseteq Ids
  /\ told \in [Ids \X Agents -> 0 .. MAX_NUDGES]

LEMMA TypeParts ==
  TypeOK <=> Consistent(requests) /\ inbox \in [Agents -> SUBSET Input] /\ Others
BY DEF TypeOK, Consistent, Others, Request

LEMMA TypeParts2 ==
  TypeOK' <=> Consistent(requests') /\ inbox' \in [Agents -> SUBSET Input] /\ Others'
BY DEF TypeOK, Consistent, Others, Request

\* An action that leaves requests and inboxes alone disturbs neither.
LEMMA Untouched ==
  ASSUME TypeOK, UNCHANGED <<requests, inbox>>, Others'
  PROVE  TypeOK' /\ (OpenIsReachable => OpenIsReachable')
BY TypeParts, TypeParts2 DEF OpenIsReachable

\* An action that settles requests and adds to the inboxes.
LEMMA Settling ==
  ASSUME TypeOK, Consistent(requests'), Fewer(requests', requests), Others',
         inbox' \in [Agents -> SUBSET Input], \A b \in Agents : inbox[b] \subseteq inbox'[b]
  PROVE  TypeOK' /\ (OpenIsReachable => OpenIsReachable')
<1>1. TypeOK'
  BY TypeParts2
<1>2. OpenIsReachable => Reachable(requests', inbox')
  BY FewerReachable DEF OpenIsReachable, Reachable
<1> QED
  BY <1>1, <1>2 DEF OpenIsReachable, Reachable

LEMMA Initially == Init => TypeOK /\ OpenIsReachable /\ Nudged
<1> SUFFICES ASSUME Init PROVE TypeOK /\ OpenIsReachable /\ Nudged
  OBVIOUS
<1>1. TypeOK
  BY RequestsAssumption DEF Init, TypeOK, Settled, Parties, Phases, MAX_NUDGES
<1>2. OpenIsReachable
  BY DEF Init, OpenIsReachable, Settled
<1>3. Nudged
  BY DEF Init, Nudged, MAX_NUDGES
<1> QED
  BY <1>1, <1>2, <1>3

\* The steps of an agent's loop.
LEMMA TurnKeepsType ==
  ASSUME TypeOK, NEW a \in Agents, Turn(a) \/ Work(a)
  PROVE  TypeOK' /\ (OpenIsReachable => OpenIsReachable')
<1> USE TypeParts
<1>1. CASE BeginTurn(a)
  <2>1. Take(a, inbox[a], TRUE) /\ phase' = [phase EXCEPT ![a] = "check"]
    BY <1>1 DEF BeginTurn, Enter
  <2>2. /\ Consistent(requests') /\ inbox' \in [Agents -> SUBSET Input]
        /\ told' \in [Ids \X Agents -> 0 .. MAX_NUDGES]
        /\ OpenIsReachable => OpenIsReachable'
    BY <2>1, TakeKeeps
  <2>3. nudges' \in [Agents -> Nat] /\ reminded' \subseteq Agents
    BY <2>1 DEF Take, ResetNudges, Others
  <2>4. Others'
    BY <1>1, <2>1, <2>2, <2>3 DEF BeginTurn, Others, Phases
  <2> QED
    BY <2>2, <2>4, TypeParts2
<1>2. CASE Prepare(a)
  <2> DEFINE taken == {i \in inbox[a] : i.kind = "request"}
  <2>1. Take(a, taken, a \in reminded) /\ phase' = [phase EXCEPT ![a] = "call"]
    BY <1>2 DEF Prepare, Enter
  <2>2. /\ Consistent(requests') /\ inbox' \in [Agents -> SUBSET Input]
        /\ told' \in [Ids \X Agents -> 0 .. MAX_NUDGES]
        /\ OpenIsReachable => OpenIsReachable'
    <3> HIDE DEF taken
    <3>1. taken \in SUBSET inbox[a] /\ (a \in reminded) \in BOOLEAN
      BY DEF taken
    <3> QED
      BY <2>1, <3>1, TakeKeeps
  <2>3. nudges' \in [Agents -> Nat] /\ reminded' \subseteq Agents
    BY <2>1 DEF Take, ResetNudges, Others
  <2>4. Others'
    BY <1>2, <2>1, <2>2, <2>3 DEF Prepare, Others, Phases
  <2> QED
    BY <2>2, <2>4, TypeParts2
<1>3. CASE Check(a) \/ CallEnds(a) \/ Work(a) \/ Return(a)
  <2>1. ASSUME NEW normal \in BOOLEAN, NEW next \in Phases, EndTurn(a, normal, next)
        PROVE  UNCHANGED <<requests, inbox>> /\ Others'
    <3>1. nudges' \in [Agents -> Nat]
      BY <2>1 DEF EndTurn, Ignored, Others
    <3> QED
      BY <2>1, <3>1 DEF EndTurn, Enter, history, Others
  <2>2. UNCHANGED <<requests, inbox>> /\ Others'
    <3>1. CASE Check(a)
      <4>1. CASE EndTurn(a, FALSE, "idle") \/ EndTurn(a, FALSE, "limited")
        BY <2>1, <4>1 DEF Phases
      <4>2. CASE ~(EndTurn(a, FALSE, "idle") \/ EndTurn(a, FALSE, "limited"))
        BY <3>1, <4>2 DEF Check, Enter, fold, history, Others, Phases
      <4> QED
        BY <4>1, <4>2
    <3>2. CASE CallEnds(a)
      BY <2>1, <3>2 DEF CallEnds, Phases
    <3>3. CASE Work(a)
      BY <3>3 DEF Work, Enter, history, Others, Phases
    <3>4. CASE Return(a)
      BY <3>4 DEF Return, Enter, fold, history, Others, Phases
    <3> QED
      BY <1>3, <3>1, <3>2, <3>3, <3>4
  <2> QED
    BY <2>2, Untouched
<1>4. CASE EndReplies(a)
  <2>1. /\ inbox' \in [Agents -> SUBSET Input]
        /\ \A b \in Agents : inbox[b] \subseteq inbox'[b]
    BY <1>4 DEF EndReplies, Reminder, Input, Parties
  <2>2. told' \in [Ids \X Agents -> 0 .. MAX_NUDGES]
    <3>1. \A p \in Ids \X Agents : told[p] \in 0 .. MAX_NUDGES
      BY DEF Others
    <3>2. \A n \in 0 .. MAX_NUDGES : n < MAX_NUDGES => n + 1 \in 0 .. MAX_NUDGES
      BY DEF MAX_NUDGES
    <3>3. DOMAIN told = Ids \X Agents
      BY DEF Others
    <3> QED
      BY <1>4, <3>1, <3>2, <3>3 DEF EndReplies, Others
  <2>3. Others'
    BY <1>4, <2>2 DEF EndReplies, Enter, Others, Phases
  <2>4. Consistent(requests') /\ Fewer(requests', requests)
    <3>1. requests' = requests
      BY <1>4 DEF EndReplies
    <3> QED
      BY <3>1 DEF Fewer
  <2> QED
    BY <2>1, <2>3, <2>4, Settling
<1>5. CASE ReportLimit(a)
  <2>1. PICK settled : requests' = SettleReplies(requests, a, settled)
    BY <1>5 DEF ReportLimit
  <2>2. Consistent(requests') /\ Fewer(requests', requests)
    BY <2>1, SettleConsistent
  <2>3. /\ inbox' \in [Agents -> SUBSET Input]
        /\ \A b \in Agents : inbox[b] \subseteq inbox'[b]
    <3>1. [kind |-> "response", from |-> a, id |-> NoId] \in Input
      BY DEF Input, Parties
    <3> QED
      BY <1>5, <3>1 DEF ReportLimit
  <2>4. told' \in [Ids \X Agents -> 0 .. MAX_NUDGES]
    BY <1>5, RecountTyped DEF ReportLimit, Others
  <2>5. Others'
    BY <1>5, <2>4 DEF ReportLimit, Enter, Others, Phases
  <2> QED
    BY <2>2, <2>3, <2>5, Settling
<1> QED
  BY <1>1, <1>2, <1>3, <1>4, <1>5 DEF Turn

\* Messages, and the user's posts: the ids are new, so they are in range.
LEMMA MessageKeepsType ==
  ASSUME TypeOK,
         \/ \E a \in Agents, to \in SUBSET Agents : Ask(a, to)
         \/ \E to \in SUBSET Agents : Post(to)
         \/ \E a \in Agents, ids \in SUBSET Ids, asking \in BOOLEAN : Respond(a, ids, asking)
  PROVE  TypeOK' /\ (OpenIsReachable => OpenIsReachable')
<1> USE TypeParts
<1>1. used < MaxRequests => used + 1 \in Ids /\ used + 1 # NoId /\ used + 1 \in 0 .. MaxRequests
  BY RequestsAssumption DEF Others, Ids, NoId
<1>2. Fewer(requests, requests)
  BY DEF Fewer
<1>3. ASSUME NEW a \in Agents, NEW to \in SUBSET Agents, Ask(a, to)
      PROVE  TypeOK' /\ (OpenIsReachable => OpenIsReachable')
  <2> DEFINE input == [kind |-> "request", from |-> a, id |-> used + 1]
  <2>1. input \in Input /\ to \in SUBSET Parties /\ to \cap Agents # {}
    BY <1>1, <1>3 DEF Ask, Input, Parties
  <2>2. Deliver(requests, to, input)
    BY <1>3 DEF Ask
  <2> HIDE DEF input
  <2>3. /\ Consistent(requests') /\ inbox' \in [Agents -> SUBSET Input]
        /\ OpenIsReachable => OpenIsReachable'
    BY <1>2, <2>1, <2>2, DeliverKeeps
  <2>4. Others'
    BY <1>1, <1>3 DEF Ask, loop, history, Others
  <2> QED
    BY <2>3, <2>4, TypeParts2
<1>4. ASSUME NEW to \in SUBSET Agents, Post(to)
      PROVE  TypeOK' /\ (OpenIsReachable => OpenIsReachable')
  <2> DEFINE input == [kind |-> "request", from |-> User, id |-> used + 1]
  <2>1. input \in Input /\ to \in SUBSET Parties /\ to \cap Agents # {}
    BY <1>1, <1>4 DEF Post, Input, Parties
  <2>2. Deliver(requests, to, input)
    BY <1>4 DEF Post
  <2> HIDE DEF input
  <2>3. /\ Consistent(requests') /\ inbox' \in [Agents -> SUBSET Input]
        /\ OpenIsReachable => OpenIsReachable'
    BY <1>2, <2>1, <2>2, DeliverKeeps
  <2>4. Others'
    BY <1>1, <1>4 DEF Post, loop, history, Others
  <2> QED
    BY <2>3, <2>4, TypeParts2
<1>5. ASSUME NEW a \in Agents, NEW ids \in SUBSET Ids, NEW asking \in BOOLEAN,
             Respond(a, ids, asking)
      PROVE  TypeOK' /\ (OpenIsReachable => OpenIsReachable')
  <2> DEFINE to == {requests[r].from : r \in ids}
             expects == asking /\ to # {User}
             input == [kind |-> "response", from |-> a,
                       id |-> IF expects THEN used + 1 ELSE NoId]
             rs == SettleReplies(requests, a, ids)
  <2>1. to \in SUBSET Parties /\ to # {}
    BY <1>5 DEF Respond, Consistent, Request
  <2>2. /\ Deliver(rs, to, input)
        /\ expects => used < MaxRequests
        /\ IF expects THEN used' = used + 1 ELSE used' = used
    BY <1>5 DEF Respond
  <2>3. Consistent(rs) /\ Fewer(rs, requests)
    BY SettleConsistent
  <2>4. input \in Input /\ (input.id # NoId => expects)
    BY <1>1, <2>2 DEF Input, Parties
  <2>5. expects => to \cap Agents # {}
    BY <2>1 DEF Parties
  <2>6. used' \in 0 .. MaxRequests
    BY <1>1, <2>2 DEF Others
  <2> HIDE DEF to, input, rs, expects
  <2>7. /\ Consistent(requests') /\ inbox' \in [Agents -> SUBSET Input]
        /\ OpenIsReachable => OpenIsReachable'
    BY <2>1, <2>2, <2>3, <2>4, <2>5, DeliverKeeps
  <2>8. told' \in [Ids \X Agents -> 0 .. MAX_NUDGES]
    BY <1>5, RecountTyped DEF Respond, Others
  <2>9. Others'
    BY <1>5, <2>6, <2>8 DEF Respond, loop, Others
  <2> QED
    BY <2>7, <2>9, TypeParts2
<1> QED
  BY <1>3, <1>4, <1>5

\* Cancelling, killing and restarting.
LEMMA StopKeepsType ==
  ASSUME TypeOK, Restart \/ \E a \in Agents : Cancel(a) \/ Kill(a)
  PROVE  TypeOK' /\ (OpenIsReachable => OpenIsReachable')
<1> USE TypeParts
<1>1. Stop => stops' \in 0 .. MaxStops
  BY RequestsAssumption DEF Stop, Others
<1>2. CASE Restart
  <2>1. Others' /\ UNCHANGED <<requests, inbox>>
    BY <1>1, <1>2 DEF Restart, history, Others, Phases
  <2> QED
    BY <2>1, Untouched
<1>3. ASSUME NEW a \in Agents, Cancel(a) \/ Kill(a)
      PROVE  TypeOK' /\ (OpenIsReachable => OpenIsReachable')
  <2>1. Forget(a) /\ Stop /\ UNCHANGED inbox
    BY <1>3 DEF Cancel, Kill
  <2>2. Consistent(requests') /\ Fewer(requests', requests)
    BY <2>1, ForgetConsistent DEF Forget
  <2>3. told' \in [Ids \X Agents -> 0 .. MAX_NUDGES]
    BY <2>1, RecountTyped DEF Forget, Others
  <2>4. forgotten' \subseteq Ids /\ cancelled' \subseteq Agents
    BY <2>1 DEF Forget, Open, Others
  <2>5. Others'
    BY <1>1, <1>3, <2>1, <2>3, <2>4 DEF Cancel, Kill, Others
  <2> QED
    BY <2>1, <2>2, <2>5, Settling
<1> QED
  BY <1>2, <1>3

LEMMA StepKeepsType ==
  TypeOK /\ [Next]_vars => TypeOK' /\ (OpenIsReachable => OpenIsReachable')
<1> SUFFICES ASSUME TypeOK, [Next]_vars
             PROVE  TypeOK' /\ (OpenIsReachable => OpenIsReachable')
  OBVIOUS
<1>1. CASE UNCHANGED vars
  <2>1. Others' /\ UNCHANGED <<requests, inbox>>
    BY <1>1, TypeParts DEF vars, fold, loop, history, Others
  <2> QED
    BY <2>1, Untouched
<1>2. CASE Next
  BY <1>2, TurnKeepsType, MessageKeepsType, StopKeepsType DEF Next
<1> QED
  BY <1>1, <1>2

\* The state is of its types, and who holds a request owes it (state.rs:525-619).
THEOREM TypeCorrect == Spec => []TypeOK
<1>1. Init => TypeOK
  BY Initially
<1>2. TypeOK /\ [Next]_vars => TypeOK'
  BY StepKeepsType
<1> QED
  BY <1>1, <1>2, PTL DEF Spec

\* Whoever waits for a reply can get one: a debt is held or about to be taken,
\* whatever is answered, forgotten, re-opened or restarted (state.rs:525-619).
THEOREM ReachableCorrect == Spec => []OpenIsReachable
<1>1. Init => TypeOK /\ OpenIsReachable
  BY Initially
<1>2. (TypeOK /\ OpenIsReachable) /\ [Next]_vars => (TypeOK /\ OpenIsReachable)'
  BY StepKeepsType
<1> QED
  BY <1>1, <1>2, PTL DEF Spec

-----------------------------------------------------------------------------
(* Reminders                                                               *)

\* Input that is not a reminder.
LEMMA NoReminder ==
  \A from, id : /\ [kind |-> "request", from |-> from, id |-> id] # Reminder
                /\ [kind |-> "response", from |-> from, id |-> id] # Reminder
BY DEF Reminder

LEMMA StepKeepsNudged ==
  TypeOK /\ TypeOK' /\ Nudged /\ [Next]_vars => Nudged'
<1> SUFFICES ASSUME TypeOK, TypeOK', Nudged, [Next]_vars PROVE Nudged'
  OBVIOUS
<1> USE DEF MAX_NUDGES, InTurn
<1>0. /\ nudges \in [Agents -> Nat] /\ phase \in [Agents -> Phases]
      /\ inbox \in [Agents -> SUBSET Input] /\ reminded \subseteq Agents
      /\ nudges' \in [Agents -> Nat] /\ inbox' \in [Agents -> SUBSET Input]
  BY DEF TypeOK
\* Everything but the loop's own steps: no reminder is sent, no turn begins.
<1>1. ASSUME \A b \in Agents : Reminder \in inbox'[b] => Reminder \in inbox[b],
             \A b \in Agents : nudges'[b] = nudges[b] \/ nudges'[b] = 0,
             reminded' \subseteq reminded,
             \A b \in Agents : phase'[b] = "idle" <=> phase[b] = "idle",
             \A b \in reminded' : InTurn(b) => InTurn(b)'
      PROVE  Nudged'
  BY <1>0, <1>1 DEF Nudged
\* The same where no place of a loop changes.
<1>1a. ASSUME \A b \in Agents : Reminder \in inbox'[b] => Reminder \in inbox[b],
              \A b \in Agents : nudges'[b] = nudges[b] \/ nudges'[b] = 0,
              reminded' \subseteq reminded, phase' = phase
       PROVE  Nudged'
  BY <1>0, <1>1a DEF Nudged
<1>2. ASSUME NEW a \in Agents, BeginTurn(a)
      PROVE  Nudged'
  <2>1. /\ phase[a] = "idle" /\ phase' = [phase EXCEPT ![a] = "check"]
        /\ inbox' = [inbox EXCEPT ![a] = {}]
        /\ nudges' = nudges \/ nudges' = [nudges EXCEPT ![a] = 0]
        /\ inbox[a] # {}
    BY <1>0, <1>2 DEF BeginTurn, Enter, Take, ResetNudges
  <2>2. reminded' = IF inbox[a] \subseteq {Reminder} THEN reminded \cup {a} ELSE reminded \ {a}
    BY <1>2 DEF BeginTurn, Take
  <2>3. a \in reminded' => Reminder \in inbox[a]
    BY <2>1, <2>2
  <2> QED
    BY <1>0, <2>1, <2>2, <2>3 DEF Nudged
<1>3. ASSUME NEW a \in Agents, Prepare(a)
      PROVE  Nudged'
  <2>1. /\ phase[a] = "prepare" /\ phase' = [phase EXCEPT ![a] = "call"]
        /\ \A b \in Agents : inbox'[b] \subseteq inbox[b]
        /\ nudges' = nudges \/ nudges' = [nudges EXCEPT ![a] = 0]
    BY <1>0, <1>3 DEF Prepare, Enter, Take, ResetNudges
  <2>2. reminded' \subseteq reminded
    BY <1>3 DEF Prepare, Take
  <2> QED
    BY <1>0, <1>1, <2>1, <2>2
<1>4. ASSUME NEW a \in Agents, NEW normal \in BOOLEAN, NEW next \in Phases,
             EndTurn(a, normal, next), phase[a] # "idle"
      PROVE  Nudged'
  <2>1. /\ nudges' = [nudges EXCEPT ![a] = @ + Ignored(a, normal)]
        /\ phase' = [phase EXCEPT ![a] = next]
        /\ reminded' = reminded \ {a} /\ inbox' = inbox
    BY <1>4 DEF EndTurn, Enter
  <2>2. nudges[a] + Ignored(a, normal) <= MAX_NUDGES /\ Reminder \notin inbox[a]
    BY <1>0, <1>4 DEF Nudged, Ignored
  <2> QED
    BY <1>0, <2>1, <2>2 DEF Nudged
<1>5. ASSUME NEW a \in Agents, Check(a) \/ CallEnds(a) \/ Work(a) \/ Return(a)
      PROVE  Nudged'
  <2>1. CASE \E normal \in BOOLEAN, next \in Phases : EndTurn(a, normal, next)
    BY <1>4, <1>5, <2>1 DEF Check, CallEnds, Work, Return
  <2>2. CASE ~\E normal \in BOOLEAN, next \in Phases : EndTurn(a, normal, next)
    <3>1. /\ inbox' = inbox /\ reminded' \subseteq reminded
          /\ nudges' = nudges \/ nudges' = [nudges EXCEPT ![a] = 0]
          /\ \E next \in {"prepare", "tool", "call", "check"} :
               phase' = [phase EXCEPT ![a] = next]
          /\ phase[a] # "idle"
      BY <1>5, <2>2 DEF Check, CallEnds, Work, Return, Enter, fold, Phases
    <3> QED
      BY <1>0, <1>1, <3>1
  <2> QED
    BY <2>1, <2>2
<1>6. ASSUME NEW a \in Agents, EndReplies(a)
      PROVE  Nudged'
  <2>1. /\ phase[a] = "replies" /\ phase' = [phase EXCEPT ![a] = "idle"]
        /\ nudges' = nudges /\ reminded' = reminded
        /\ \/ inbox' = inbox
           \/ nudges[a] < MAX_NUDGES /\ inbox' = [inbox EXCEPT ![a] = @ \cup {Reminder}]
    BY <1>6 DEF EndReplies, Enter, Due
  <2>2. a \notin reminded
    BY <2>1 DEF Nudged
  <2> QED
    BY <1>0, <2>1, <2>2 DEF Nudged
\* Whoever is answered for gets a response, which is no reminder.
<1>7. ASSUME NEW a \in Agents, ReportLimit(a)
      PROVE  Nudged'
  <2>1. /\ phase[a] = "limited" /\ phase' = [phase EXCEPT ![a] = "idle"]
        /\ nudges' = nudges \/ nudges' = [nudges EXCEPT ![a] = 0]
        /\ reminded' = reminded
    BY <1>7 DEF ReportLimit, Enter
  <2>2. \A b \in Agents : Reminder \in inbox'[b] => Reminder \in inbox[b]
    BY <1>0, <1>7, NoReminder DEF ReportLimit
  <2>3. a \notin reminded
    BY <2>1 DEF Nudged
  <2> QED
    BY <1>0, <2>1, <2>2, <2>3 DEF Nudged
<1>8. ASSUME NEW rs, NEW to, NEW input, Deliver(rs, to, input), input # Reminder
      PROVE  \A b \in Agents : Reminder \in inbox'[b] => Reminder \in inbox[b]
  BY <1>8 DEF Deliver
<1>9. ASSUME NEW a \in Agents, NEW to \in SUBSET Agents, Ask(a, to)
      PROVE  Nudged'
  <2>1. \A b \in Agents : Reminder \in inbox'[b] => Reminder \in inbox[b]
    BY <1>8, <1>9, NoReminder DEF Ask
  <2> QED
    BY <1>1a, <1>9, <2>1 DEF Ask, loop
<1>10. ASSUME NEW to \in SUBSET Agents, Post(to)
       PROVE  Nudged'
  <2>1. \A b \in Agents : Reminder \in inbox'[b] => Reminder \in inbox[b]
    BY <1>8, <1>10, NoReminder DEF Post
  <2> QED
    BY <1>1a, <1>10, <2>1 DEF Post, loop
<1>11. ASSUME NEW a \in Agents, NEW ids \in SUBSET Ids, NEW asking \in BOOLEAN,
              Respond(a, ids, asking)
       PROVE  Nudged'
  <2>1. PICK rs, to, id :
          Deliver(rs, to, [kind |-> "response", from |-> a, id |-> id])
    BY <1>11 DEF Respond
  <2>2. \A b \in Agents : Reminder \in inbox'[b] => Reminder \in inbox[b]
    BY <1>8, <2>1, NoReminder
  <2>3. nudges' = [nudges EXCEPT ![a] = 0] /\ reminded' \subseteq reminded /\ phase' = phase
    BY <1>11 DEF Respond, loop
  <2> QED
    BY <1>0, <1>1a, <2>2, <2>3
<1>12. ASSUME NEW a \in Agents, Cancel(a) \/ Kill(a)
       PROVE  Nudged'
  BY <1>1a, <1>12 DEF Cancel, Kill
<1>13. CASE Restart
  BY <1>0, <1>13 DEF Restart, Nudged
<1>14. CASE UNCHANGED vars
  BY <1>1a, <1>14 DEF vars, fold, loop
<1>15. CASE Next
  BY <1>15, <1>2, <1>3, <1>5, <1>6, <1>7, <1>9, <1>10, <1>11, <1>12, <1>13 DEF Next, Turn
<1> QED
  BY <1>14, <1>15

\* Reminders alone start three turns in a row at most: the daemon never talks
\* an agent that ignores it into an endless conversation (routing.rs:581-627).
THEOREM NudgesCorrect == Spec => []NudgesBounded
<1>1. Init => TypeOK /\ Nudged
  BY Initially
<1>2. (TypeOK /\ Nudged) /\ [Next]_vars => (TypeOK /\ Nudged)'
  BY StepKeepsType, StepKeepsNudged
<1>3. Nudged => NudgesBounded
  BY DEF Nudged, NudgesBounded
<1> QED
  BY <1>1, <1>2, <1>3, PTL DEF Spec

\* Debts can be answered, and reminders come to an end.
THEOREM DebtsCorrect == Spec => []DebtsAreSound
  BY ReachableCorrect, NudgesCorrect, PTL DEF DebtsAreSound

-----------------------------------------------------------------------------
(* Every debt is reminded of                                               *)

\* A reminder that is in the inbox, or that the turn is made up of, has been
\* told but is not yet counted.
Pending(a) == IF Reminder \in inbox[a] \/ a \in reminded THEN 1 ELSE 0
Told ==
  \A a \in Agents, r \in Ids :
    a \in requests[r].held => nudges[a] + Pending(a) <= told[<<r, a>>]

\* Who came to rest after a normal end was reminded as often as it may be.
RestsReminded ==
  \A a \in Agents :
    /\ phase[a] = "limited" => ended[a] = "otherwise"
    /\ phase[a] = "idle" /\ ended[a] = "normally" /\ Reminder \notin inbox[a] =>
         \A r \in Ids : a \in requests[r].held => told[<<r, a>>] = MAX_NUDGES

\* Nobody holds what it did not hold before.
HeldLess(new, old) == \A r \in Ids : new[r].held \subseteq old[r].held

LEMMA LessHeld ==
  ASSUME TypeOK, NEW a, NEW ids
  PROVE  HeldLess(SettleReplies(requests, a, ids), requests) /\ HeldLess(ForgetParty(requests, a), requests)
<1>1. ASSUME NEW r \in Ids
      PROVE  /\ SettleReplies(requests, a, ids)[r].held \subseteq requests[r].held
             /\ ForgetParty(requests, a)[r].held \subseteq requests[r].held
  <2>1. requests[r] \in Request /\ requests[r].held \subseteq requests[r].open
    BY DEF TypeOK, Request
  <2> QED
    BY <2>1, WithoutConsistent, SettledConsistent DEF SettleReplies, ForgetParty
<1> QED
  BY <1>1 DEF HeldLess

LEMMA DeliverHeld ==
  ASSUME NEW rs, HeldLess(rs, requests), NEW to, NEW input, Deliver(rs, to, input)
  PROVE  HeldLess(requests', requests)
BY DEF Deliver, HeldLess

\* The history of a debt that is still held goes on.
LEMMA RecountGoesOn ==
  ASSUME TypeOK, NEW anew, Recount(anew), NEW b \in Agents, NEW r \in Ids, b \in requests'[r].held
  PROVE  told'[<<r, b>>] = IF <<r, b>> \in anew THEN 0 ELSE told[<<r, b>>]
BY DEF Recount, TypeOK

\* An action that sends no reminder, gives nobody a debt, and brings nobody to
\* rest after a normal end.
LEMMA NobodyReminded ==
  ASSUME TypeOK, TypeOK', Told, RestsReminded, HeldLess(requests', requests),
         \A b \in Agents, r \in Ids : b \in requests'[r].held => told'[<<r, b>>] = told[<<r, b>>],
         \A b \in Agents : nudges'[b] + Pending(b)' <= nudges[b] + Pending(b),
         \A b \in Agents : phase'[b] = "limited" => ended'[b] = "otherwise",
         \A b \in Agents : phase'[b] = "idle" /\ ended'[b] = "normally" /\ Reminder \notin inbox'[b] =>
           phase[b] = "idle" /\ ended[b] = "normally" /\ Reminder \notin inbox[b]
  PROVE  Told' /\ RestsReminded'
<1>1. ASSUME NEW b \in Agents, NEW r \in Ids, b \in requests'[r].held
      PROVE  nudges'[b] + Pending(b)' <= told'[<<r, b>>]
  <2>1. nudges[b] + Pending(b) <= told[<<r, b>>] /\ told'[<<r, b>>] = told[<<r, b>>]
    BY <1>1 DEF Told, HeldLess
  <2>2. nudges[b] + Pending(b) \in Nat /\ nudges'[b] + Pending(b)' \in Nat /\ told[<<r, b>>] \in Nat
    BY DEF TypeOK, Pending
  <2> QED
    BY <2>1, <2>2
<1>2. ASSUME NEW b \in Agents, NEW r \in Ids, b \in requests'[r].held,
             phase'[b] = "idle" /\ ended'[b] = "normally" /\ Reminder \notin inbox'[b]
      PROVE  told'[<<r, b>>] = MAX_NUDGES
  BY <1>2 DEF RestsReminded, HeldLess
<1> QED
  BY <1>1, <1>2 DEF Told, RestsReminded

\* Taking input: who takes a debt starts at none, without a reminder around.
LEMMA TakeReminded ==
  ASSUME TypeOK, TypeOK', Told, RestsReminded, NEW a \in Agents, NEW inputs \in SUBSET inbox[a],
         NEW nothingElse \in BOOLEAN, Take(a, inputs, nothingElse),
         Reminder \notin inbox'[a],
         nothingElse /\ inputs \subseteq {Reminder} => Pending(a) = 1,
         UNCHANGED ended, NEW next \in Phases \ {"idle", "limited"}, phase' = [phase EXCEPT ![a] = next]
  PROVE  Told' /\ RestsReminded'
<1> DEFINE debts == {i.id : i \in Debts(inputs)}
<1>1. /\ inbox' = [inbox EXCEPT ![a] = @ \ inputs]
      /\ nudges' = IF debts # {} THEN [nudges EXCEPT ![a] = 0] ELSE nudges
      /\ reminded' = IF nothingElse /\ inputs \subseteq {Reminder}
                     THEN reminded \cup {a} ELSE reminded \ {a}
      /\ Recount(debts \X {a})
  BY DEF Take, ResetNudges
<1>2. /\ inbox \in [Agents -> SUBSET Input] /\ nudges \in [Agents -> Nat] /\ phase \in [Agents -> Phases]
      /\ told \in [Ids \X Agents -> 0 .. MAX_NUDGES] /\ nudges' \in [Agents -> Nat]
  BY DEF TypeOK
<1>3. debts # {} => ~(inputs \subseteq {Reminder})
  BY DEF Debts, Reminder
<1>4. \A b \in Agents \ {a} : Pending(b)' = Pending(b) /\ nudges'[b] = nudges[b]
  BY <1>1, <1>2 DEF Pending
<1>5. /\ debts # {} => Pending(a)' = 0 /\ nudges'[a] = 0
      /\ debts = {} => nudges'[a] = nudges[a] /\ (Pending(a)' = 0 \/ Pending(a) = 1)
  BY <1>1, <1>2, <1>3 DEF Pending
<1>6. ASSUME NEW b \in Agents, NEW r \in Ids, b \in requests'[r].held
      PROVE  /\ <<r, b>> \in debts \X {a} \/ (b \in requests[r].held /\ told'[<<r, b>>] = told[<<r, b>>])
             /\ told'[<<r, b>>] \in Nat
  <2>1. <<r, b>> \in debts \X {a} \/ b \in requests[r].held
    <3>1. /\ r \notin debts => requests'[r] = requests[r]
          /\ r \in debts => requests'[r].held = requests[r].held \cup {a}
      BY TakeHolds
    <3> HIDE DEF debts
    <3> QED
      BY <1>6, <3>1
  <2>2. told'[<<r, b>>] = IF <<r, b>> \in debts \X {a} THEN 0 ELSE told[<<r, b>>]
    <3> HIDE DEF debts
    <3> QED
      BY <1>1, <1>6, RecountGoesOn
  <2> QED
    BY <1>2, <2>1, <2>2
<1> HIDE DEF debts
<1>7. ASSUME NEW b \in Agents, NEW r \in Ids, b \in requests'[r].held
      PROVE  nudges'[b] + Pending(b)' <= told'[<<r, b>>]
  <2>1. Pending(b) \in {0, 1} /\ Pending(b)' \in {0, 1} /\ nudges[b] \in Nat
    BY <1>2 DEF Pending
  <2>2. CASE <<r, b>> \in debts \X {a}
    BY <1>5, <1>6, <1>7, <2>2
  <2>3. CASE b \in requests[r].held /\ told'[<<r, b>>] = told[<<r, b>>]
    <3>1. nudges[b] + Pending(b) <= told'[<<r, b>>]
      BY <2>3 DEF Told
    <3>2. nudges'[b] + Pending(b)' <= nudges[b] + Pending(b)
      BY <1>4, <1>5, <2>1
    <3> QED
      BY <1>2, <1>6, <1>7, <2>1, <3>1, <3>2
  <2> QED
    BY <1>6, <1>7, <2>2, <2>3
<1>8. Told'
  BY <1>7 DEF Told
<1>9. RestsReminded'
  <2>1. ASSUME NEW b \in Agents
        PROVE  /\ phase'[b] = "limited" => ended'[b] = "otherwise"
               /\ phase'[b] = "idle" /\ ended'[b] = "normally" /\ Reminder \notin inbox'[b] =>
                    \A r \in Ids : b \in requests'[r].held => told'[<<r, b>>] = MAX_NUDGES
    <3>1. CASE b = a
      BY <1>2, <3>1
    <3>2. CASE b # a
      <4>1. phase'[b] = phase[b] /\ inbox'[b] = inbox[b]
        BY <1>1, <1>2, <3>2
      <4>2. \A r \in Ids : b \in requests'[r].held =>
              b \in requests[r].held /\ told'[<<r, b>>] = told[<<r, b>>]
        BY <1>6, <3>2
      <4> QED
        BY <4>1, <4>2 DEF RestsReminded
    <3> QED
      BY <3>1, <3>2
  <2> QED
    BY <2>1 DEF RestsReminded
<1> QED
  BY <1>8, <1>9

LEMMA EndTurnReminded ==
  ASSUME TypeOK, TypeOK', Nudged, Told, RestsReminded, NEW a \in Agents, phase[a] # "idle",
         NEW normal \in BOOLEAN, NEW next \in Phases, EndTurn(a, normal, next),
         IF normal THEN next = "replies" ELSE next \in {"idle", "limited"}
  PROVE  Told' /\ RestsReminded'
<1>1. /\ nudges' = [nudges EXCEPT ![a] = @ + Ignored(a, normal)]
      /\ ended' = [ended EXCEPT ![a] = IF normal THEN "normally" ELSE "otherwise"]
      /\ phase' = [phase EXCEPT ![a] = next] /\ reminded' = reminded \ {a}
      /\ inbox' = inbox /\ requests' = requests /\ told' = told
  BY DEF EndTurn, Enter, history
<1>2. /\ nudges \in [Agents -> Nat] /\ phase \in [Agents -> Phases]
      /\ ended \in [Agents -> {"normally", "otherwise"}]
  BY DEF TypeOK
<1>3. Reminder \notin inbox[a]
  BY DEF Nudged
<1>4. \A b \in Agents : nudges'[b] + Pending(b)' <= nudges[b] + Pending(b)
  BY <1>1, <1>2, <1>3 DEF Pending, Ignored
<1>5. HeldLess(requests', requests)
  BY <1>1 DEF HeldLess
<1>6. \A b \in Agents : phase'[b] = "limited" => ended'[b] = "otherwise"
  BY <1>1, <1>2 DEF RestsReminded
<1>7. \A b \in Agents : phase'[b] = "idle" /\ ended'[b] = "normally" /\ Reminder \notin inbox'[b] =>
        phase[b] = "idle" /\ ended[b] = "normally" /\ Reminder \notin inbox[b]
  BY <1>1, <1>2
<1> QED
  BY <1>1, <1>4, <1>5, <1>6, <1>7, NobodyReminded

LEMMA TurnKeepsReminded ==
  ASSUME TypeOK, TypeOK', Nudged, Nudged', Told, RestsReminded, NEW a \in Agents, Turn(a) \/ Work(a)
  PROVE  Told' /\ RestsReminded'
<1>0. /\ inbox \in [Agents -> SUBSET Input] /\ nudges \in [Agents -> Nat] /\ phase \in [Agents -> Phases]
      /\ told \in [Ids \X Agents -> 0 .. MAX_NUDGES] /\ ended \in [Agents -> {"normally", "otherwise"}]
  BY DEF TypeOK
<1>1. CASE BeginTurn(a)
  <2>1. /\ Take(a, inbox[a], TRUE) /\ phase' = [phase EXCEPT ![a] = "check"] /\ UNCHANGED ended
        /\ inbox[a] # {}
    BY <1>1 DEF BeginTurn, Enter
  <2>2. Reminder \notin inbox'[a] /\ (inbox[a] \subseteq {Reminder} => Pending(a) = 1)
    BY <1>0, <2>1 DEF Take, Pending
  <2> QED
    BY <2>1, <2>2, TakeReminded DEF Phases
<1>2. CASE Prepare(a)
  <2> DEFINE taken == {i \in inbox[a] : i.kind = "request"}
  <2>1. /\ Take(a, taken, a \in reminded) /\ phase' = [phase EXCEPT ![a] = "call"] /\ UNCHANGED ended
        /\ phase[a] = "prepare"
    BY <1>2 DEF Prepare, Enter
  <2>2. inbox' = [inbox EXCEPT ![a] = @ \ taken]
    BY <2>1 DEF Take
  <2> HIDE DEF taken
  <2>3. Reminder \notin inbox'[a] /\ (a \in reminded => Pending(a) = 1)
    BY <1>0, <2>1, <2>2 DEF Nudged, Pending
  <2>4. taken \in SUBSET inbox[a] /\ (a \in reminded) \in BOOLEAN
    BY DEF taken
  <2> QED
    BY <2>1, <2>3, <2>4, TakeReminded DEF Phases
<1>3. CASE Check(a) \/ CallEnds(a) \/ Work(a) \/ Return(a)
  <2>1. phase[a] # "idle"
    BY <1>3 DEF Check, CallEnds, Work, Return
  <2>2. CASE \/ EndTurn(a, FALSE, "idle") \/ EndTurn(a, FALSE, "limited")
             \/ EndTurn(a, TRUE, "replies")
    BY <2>1, <2>2, EndTurnReminded DEF Phases
  <2>3. CASE ~(\/ EndTurn(a, FALSE, "idle") \/ EndTurn(a, FALSE, "limited")
               \/ EndTurn(a, TRUE, "replies"))
    <3>1. /\ inbox' = inbox /\ reminded' \subseteq reminded /\ requests' = requests /\ told' = told
          /\ nudges' = nudges \/ nudges' = [nudges EXCEPT ![a] = 0]
          /\ ended' = ended
          /\ \E next \in {"prepare", "tool", "call", "check"} :
               phase' = [phase EXCEPT ![a] = next]
      BY <1>3, <2>3 DEF Check, CallEnds, Work, Return, Enter, fold, history
    <3>2. \A b \in Agents : nudges'[b] + Pending(b)' <= nudges[b] + Pending(b)
      BY <1>0, <3>1 DEF Pending
    <3>3. HeldLess(requests', requests)
      BY <3>1 DEF HeldLess
    <3>4. \A b \in Agents : phase'[b] = "limited" => ended'[b] = "otherwise"
      BY <1>0, <3>1 DEF RestsReminded
    <3>5. \A b \in Agents : phase'[b] = "idle" /\ ended'[b] = "normally" /\ Reminder \notin inbox'[b] =>
            phase[b] = "idle" /\ ended[b] = "normally" /\ Reminder \notin inbox[b]
      BY <1>0, <3>1
    <3> QED
      BY <3>1, <3>2, <3>3, <3>4, <3>5, NobodyReminded
  <2> QED
    BY <2>2, <2>3
\* end_replies(): either nothing is owed, or it was reminded often enough, or a
\* reminder is on its way.
<1>4. CASE EndReplies(a)
  <2>1. /\ phase[a] = "replies" /\ phase' = [phase EXCEPT ![a] = "idle"]
        /\ requests' = requests /\ nudges' = nudges /\ reminded' = reminded /\ ended' = ended
    BY <1>4 DEF EndReplies, Enter
  <2>2. Reminder \notin inbox[a] /\ a \notin reminded
    BY <2>1 DEF Nudged, InTurn
  <2>3. CASE Held(a) # {} /\ Due(a)
    <3>1. /\ inbox' = [inbox EXCEPT ![a] = @ \cup {Reminder}]
          /\ told' = [p \in DOMAIN told |->
               IF p[2] = a /\ p[1] \in Held(a) /\ told[p] < MAX_NUDGES THEN told[p] + 1 ELSE told[p]]
      BY <1>4, <2>3 DEF EndReplies
    <3>2. nudges[a] < MAX_NUDGES
      BY <2>3 DEF Due
    <3>3. ASSUME NEW r \in Ids
          PROVE  /\ a \in requests[r].held =>
                      told'[<<r, a>>] = IF told[<<r, a>>] < MAX_NUDGES THEN told[<<r, a>>] + 1 ELSE told[<<r, a>>]
                 /\ \A b \in Agents \ {a} : told'[<<r, b>>] = told[<<r, b>>]
      BY <1>0, <3>1 DEF Held
    <3>4. ASSUME NEW b \in Agents, NEW r \in Ids, b \in requests'[r].held
          PROVE  nudges'[b] + Pending(b)' <= told'[<<r, b>>]
      <4>1. nudges[b] + Pending(b) <= told[<<r, b>>] /\ told[<<r, b>>] \in 0 .. MAX_NUDGES /\ nudges[b] \in Nat
        BY <1>0, <2>1, <3>4 DEF Told
      <4>2. CASE b = a
        <5>1. nudges'[b] + Pending(b)' = nudges[b] + 1 /\ Pending(b) = 0
          BY <1>0, <2>1, <2>2, <3>1, <4>2 DEF Pending
        <5>2. told'[<<r, b>>] = IF told[<<r, b>>] < MAX_NUDGES THEN told[<<r, b>>] + 1 ELSE told[<<r, b>>]
          BY <2>1, <3>3, <3>4, <4>2
        <5> QED
          BY <3>2, <4>1, <4>2, <5>1, <5>2 DEF MAX_NUDGES
      <4>3. CASE b # a
        <5>1. nudges'[b] + Pending(b)' = nudges[b] + Pending(b)
          BY <1>0, <2>1, <3>1, <4>3 DEF Pending
        <5> QED
          BY <3>3, <4>1, <4>3, <5>1
      <4> QED
        BY <4>2, <4>3
    <3>5. Told'
      BY <3>4 DEF Told
    <3>6. RestsReminded'
      BY <1>0, <2>1, <3>1, <3>3 DEF RestsReminded
    <3> QED
      BY <3>5, <3>6
  <2>4. CASE ~(Held(a) # {} /\ Due(a))
    <3>1. inbox' = inbox /\ told' = told
      BY <1>4, <2>4 DEF EndReplies
    <3>2. Told'
      BY <2>1, <3>1 DEF Told, Pending
    <3>3. ASSUME NEW r \in Ids, a \in requests[r].held
          PROVE  told[<<r, a>>] = MAX_NUDGES
      <4>1. nudges[a] >= MAX_NUDGES
        BY <1>0, <2>4, <3>3 DEF Held, Due, MAX_NUDGES
      <4>2. nudges[a] + Pending(a) <= told[<<r, a>>] /\ Pending(a) = 0
        BY <2>2, <3>3 DEF Told, Pending
      <4>3. told[<<r, a>>] \in 0 .. MAX_NUDGES
        BY <1>0
      <4> QED
        BY <1>0, <4>1, <4>2, <4>3 DEF MAX_NUDGES
    <3>4. RestsReminded'
      BY <1>0, <2>1, <3>1, <3>3 DEF RestsReminded
    <3> QED
      BY <3>2, <3>4
  <2> QED
    BY <2>3, <2>4
<1>5. CASE ReportLimit(a)
  <2>1. PICK settled : /\ requests' = SettleReplies(requests, a, settled)
                       /\ inbox' = [b \in Agents |->
                            IF \E r \in settled : requests[r].from = b
                            THEN inbox[b] \cup {[kind |-> "response", from |-> a, id |-> NoId]} ELSE inbox[b]]
    BY <1>5 DEF ReportLimit
  <2>2. /\ phase[a] = "limited" /\ phase' = [phase EXCEPT ![a] = "idle"]
        /\ nudges' = nudges \/ nudges' = [nudges EXCEPT ![a] = 0]
        /\ reminded' = reminded /\ ended' = ended /\ Recount({})
    BY <1>5 DEF ReportLimit, Enter
  <2>3. HeldLess(requests', requests)
    BY <2>1, LessHeld
  <2>4. \A b \in Agents : Reminder \in inbox'[b] <=> Reminder \in inbox[b]
    BY <1>0, <2>1, NoReminder
  <2>5. \A b \in Agents : nudges'[b] + Pending(b)' <= nudges[b] + Pending(b)
    BY <1>0, <2>2, <2>4 DEF Pending
  <2>6. \A b \in Agents, r \in Ids : b \in requests'[r].held => told'[<<r, b>>] = told[<<r, b>>]
    BY <2>2, RecountGoesOn
  <2>7. ended[a] = "otherwise"
    BY <2>2 DEF RestsReminded
  <2>8. \A b \in Agents : /\ phase'[b] = "limited" => ended'[b] = "otherwise"
                          /\ phase'[b] = "idle" /\ ended'[b] = "normally" /\ Reminder \notin inbox'[b] =>
                               phase[b] = "idle" /\ ended[b] = "normally" /\ Reminder \notin inbox[b]
    BY <1>0, <2>2, <2>4, <2>7 DEF RestsReminded
  <2> QED
    BY <2>3, <2>5, <2>6, <2>8, NobodyReminded
<1> QED
  BY <1>1, <1>2, <1>3, <1>4, <1>5 DEF Turn

\* Messages, stops and stutters: places of loops only go to rest otherwise.
LEMMA OthersKeepReminded ==
  ASSUME TypeOK, TypeOK', Told, RestsReminded,
         \/ \E a \in Agents, to \in SUBSET Agents : Ask(a, to)
         \/ \E to \in SUBSET Agents : Post(to)
         \/ \E a \in Agents, ids \in SUBSET Ids, asking \in BOOLEAN : Respond(a, ids, asking)
         \/ \E a \in Agents : Cancel(a) \/ Kill(a)
         \/ Restart \/ UNCHANGED vars
  PROVE  Told' /\ RestsReminded'
<1>0. /\ inbox \in [Agents -> SUBSET Input] /\ nudges \in [Agents -> Nat] /\ phase \in [Agents -> Phases]
      /\ ended \in [Agents -> {"normally", "otherwise"}]
  BY DEF TypeOK
\* No place of a loop changes, no reminder is sent and none is counted.
<1>1. ASSUME HeldLess(requests', requests), Recount({}) \/ told' = told,
             \A b \in Agents : Reminder \in inbox'[b] <=> Reminder \in inbox[b],
             nudges' = nudges \/ \E a \in Agents : nudges' = [nudges EXCEPT ![a] = 0],
             reminded' \subseteq reminded, UNCHANGED <<phase, ended>>
      PROVE  Told' /\ RestsReminded'
  <2>1. \A b \in Agents : nudges'[b] + Pending(b)' <= nudges[b] + Pending(b)
    BY <1>0, <1>1 DEF Pending
  <2>2. \A b \in Agents, r \in Ids : b \in requests'[r].held => told'[<<r, b>>] = told[<<r, b>>]
    BY <1>1, RecountGoesOn
  <2>3. \A b \in Agents : /\ phase'[b] = "limited" => ended'[b] = "otherwise"
                          /\ phase'[b] = "idle" /\ ended'[b] = "normally" /\ Reminder \notin inbox'[b] =>
                               phase[b] = "idle" /\ ended[b] = "normally" /\ Reminder \notin inbox[b]
    BY <1>1 DEF RestsReminded
  <2> QED
    BY <1>1, <2>1, <2>2, <2>3, NobodyReminded
<1>2. HeldLess(requests, requests)
  BY DEF HeldLess
<1>3. ASSUME NEW rs, NEW to, NEW input, Deliver(rs, to, input), input # Reminder
      PROVE  \A b \in Agents : Reminder \in inbox'[b] <=> Reminder \in inbox[b]
  BY <1>0, <1>3 DEF Deliver
<1>4. ASSUME NEW a \in Agents, NEW to \in SUBSET Agents, Ask(a, to)
      PROVE  Told' /\ RestsReminded'
  <2>1. \A b \in Agents : Reminder \in inbox'[b] <=> Reminder \in inbox[b]
    BY <1>3, <1>4, NoReminder DEF Ask
  <2>2. HeldLess(requests', requests)
    BY <1>2, <1>4, DeliverHeld DEF Ask
  <2> QED
    BY <1>1, <1>4, <2>1, <2>2 DEF Ask, loop, history
<1>5. ASSUME NEW to \in SUBSET Agents, Post(to)
      PROVE  Told' /\ RestsReminded'
  <2>1. \A b \in Agents : Reminder \in inbox'[b] <=> Reminder \in inbox[b]
    BY <1>3, <1>5, NoReminder DEF Post
  <2>2. HeldLess(requests', requests)
    BY <1>2, <1>5, DeliverHeld DEF Post
  <2> QED
    BY <1>1, <1>5, <2>1, <2>2 DEF Post, loop, history
<1>6. ASSUME NEW a \in Agents, NEW ids \in SUBSET Ids, NEW asking \in BOOLEAN, Respond(a, ids, asking)
      PROVE  Told' /\ RestsReminded'
  <2>1. PICK to, id :
          Deliver(SettleReplies(requests, a, ids), to, [kind |-> "response", from |-> a, id |-> id])
    BY <1>6 DEF Respond
  <2>2. \A b \in Agents : Reminder \in inbox'[b] <=> Reminder \in inbox[b]
    BY <1>3, <2>1, NoReminder
  <2>3. HeldLess(requests', requests)
    BY <2>1, LessHeld, DeliverHeld
  <2> QED
    BY <1>1, <1>6, <2>2, <2>3 DEF Respond, loop
<1>7. ASSUME NEW a \in Agents, Cancel(a) \/ Kill(a)
      PROVE  Told' /\ RestsReminded'
  <2>1. HeldLess(requests', requests)
    BY <1>7, LessHeld DEF Cancel, Kill, Forget
  <2> QED
    BY <1>1, <1>7, <2>1 DEF Cancel, Kill, Forget
\* A restart ends the turns that were open, otherwise than normally.
<1>8. CASE Restart
  <2>1. /\ requests' = requests /\ inbox' = inbox /\ nudges' = nudges /\ told' = told /\ reminded' = {}
        /\ phase' = [a \in Agents |-> "idle"]
        /\ ended' = [a \in Agents |-> IF phase[a] = "idle" THEN ended[a] ELSE "otherwise"]
    BY <1>8 DEF Restart, history
  <2>2. \A b \in Agents : nudges'[b] + Pending(b)' <= nudges[b] + Pending(b)
    BY <1>0, <2>1 DEF Pending
  <2>3. \A b \in Agents : /\ phase'[b] = "limited" => ended'[b] = "otherwise"
                          /\ phase'[b] = "idle" /\ ended'[b] = "normally" /\ Reminder \notin inbox'[b] =>
                               phase[b] = "idle" /\ ended[b] = "normally" /\ Reminder \notin inbox[b]
    BY <2>1
  <2> QED
    BY <1>2, <2>1, <2>2, <2>3, NobodyReminded
<1>9. CASE UNCHANGED vars
  BY <1>1, <1>2, <1>9 DEF vars, fold, loop, history
<1> QED
  BY <1>4, <1>5, <1>6, <1>7, <1>8, <1>9

\* No debt is dropped silently: an agent that rests after a normal end was
\* reminded three times of everything it still owes (routing.rs:581-627).
THEOREM RemindedCorrect == Spec => []EveryDebtReminded
<1> DEFINE Inv == TypeOK /\ Nudged /\ Told /\ RestsReminded
<1>1. Init => Inv
  <2>1. Init => TypeOK /\ Nudged
    BY Initially
  <2>2. Init => Told /\ RestsReminded
    BY DEF Init, Told, RestsReminded, Settled
  <2> QED
    BY <2>1, <2>2
<1>2. Inv /\ [Next]_vars => Inv'
  <2> SUFFICES ASSUME Inv, [Next]_vars PROVE Inv'
    OBVIOUS
  <2>1. TypeOK' /\ Nudged'
    BY StepKeepsType, StepKeepsNudged
  <2>2. Told' /\ RestsReminded'
    <3>1. CASE \E a \in Agents : Turn(a) \/ Work(a)
      BY <2>1, <3>1, TurnKeepsReminded
    <3>2. CASE ~\E a \in Agents : Turn(a) \/ Work(a)
      BY <2>1, <3>2, OthersKeepReminded DEF Next
    <3> QED
      BY <3>1, <3>2
  <2> QED
    BY <2>1, <2>2
<1>3. Inv => EveryDebtReminded
  BY DEF EveryDebtReminded, RestsReminded, Held, Alive
<1> QED
  BY <1>1, <1>2, <1>3, PTL DEF Spec

-----------------------------------------------------------------------------
(* Every request is answered once                                          *)

\* An id is drawn once, so its input is in an inbox at most once, and never
\* again after the debt was taken or answered.
DrawnOnce ==
  \A a \in Agents :
    /\ \A i \in inbox[a] : i.id # NoId => i.id <= used
    /\ \A i, j \in inbox[a] : i.id = j.id /\ i.id # NoId => i = j
    /\ \A r \in Ids :
         /\ a \in requests[r].open => r <= used
         /\ <<r, a>> \in answered => a \notin requests[r].held /\ r <= used
         /\ a \in requests[r].held \/ <<r, a>> \in answered => \A i \in inbox[a] : i.id # r

\* A message is delivered, or nothing is; who answers lets go of the debt.
LEMMA DeliverDrawn ==
  ASSUME TypeOK, DrawnOnce, NEW rs, NEW to, NEW input \in Input, Deliver(rs, to, input),
         HeldLess(rs, requests), Fewer(rs, requests), rs \in [Ids -> Request],
         \/ input.id = NoId /\ used' = used
         \/ input.id = used + 1 /\ used' = used + 1,
         \A r \in Ids, a \in Agents : <<r, a>> \in answered' =>
           <<r, a>> \in answered \/ (a \in requests[r].held /\ a \notin rs[r].held)
  PROVE  DrawnOnce'
<1>0. /\ used \in Nat /\ inbox \in [Agents -> SUBSET Input] /\ NoId \notin Ids
      /\ \A i \in Input : i.id \in Nat
      /\ \A r \in Ids : r \in Nat /\ requests[r].held \subseteq requests[r].open
  BY RequestsAssumption DEF TypeOK, Ids, NoId, Input
<1>1. \A b \in Agents : inbox'[b] = IF b \in to THEN inbox[b] \cup {input} ELSE inbox[b]
  BY DEF Deliver
<1>2. ASSUME NEW r \in Ids, NEW a \in Agents
      PROVE  /\ a \in requests'[r].held => a \in requests[r].held /\ a \in rs[r].held
             /\ a \in requests'[r].open => a \in requests[r].open \/ r = input.id
  BY DEF Deliver, HeldLess, Fewer
<1>3. ASSUME NEW a \in Agents
      PROVE  /\ \A i \in inbox[a] : i.id # NoId => i.id <= used
             /\ \A i, j \in inbox[a] : i.id = j.id /\ i.id # NoId => i = j
             /\ \A r \in Ids :
                  /\ a \in requests[r].open => r <= used
                  /\ <<r, a>> \in answered => a \notin requests[r].held /\ r <= used
                  /\ a \in requests[r].held \/ <<r, a>> \in answered => \A i \in inbox[a] : i.id # r
  BY DEF DrawnOnce
<1>4. ASSUME NEW a \in Agents
      PROVE  /\ \A i \in inbox'[a] : i.id # NoId => i.id <= used'
             /\ \A i, j \in inbox'[a] : i.id = j.id /\ i.id # NoId => i = j
             /\ \A r \in Ids :
                  /\ a \in requests'[r].open => r <= used'
                  /\ <<r, a>> \in answered' => a \notin requests'[r].held /\ r <= used'
                  /\ a \in requests'[r].held \/ <<r, a>> \in answered' => \A i \in inbox'[a] : i.id # r
  <2>1. \A i \in inbox'[a] : i \in inbox[a] \/ i = input
    BY <1>1
  <2>2. \A i \in inbox'[a] : i.id # NoId => i.id <= used'
    BY <1>0, <1>3, <2>1
  <2>3. \A i, j \in inbox'[a] : i.id = j.id /\ i.id # NoId => i = j
    BY <1>0, <1>3, <2>1
  <2>4. ASSUME NEW r \in Ids
        PROVE  /\ a \in requests'[r].open => r <= used'
               /\ <<r, a>> \in answered' => a \notin requests'[r].held /\ r <= used'
               /\ a \in requests'[r].held \/ <<r, a>> \in answered' => \A i \in inbox'[a] : i.id # r
    <3>1. a \in requests'[r].open => r <= used'
      <4>1. r = input.id => r = used'
        BY <1>0
      <4>2. used <= used' /\ used' \in Nat /\ r \in Nat
        BY <1>0
      <4>3. a \in requests[r].open => r <= used
        BY <1>3
      <4> QED
        BY <1>0, <1>2, <4>1, <4>2, <4>3
    <3>2. <<r, a>> \in answered' => a \notin requests'[r].held /\ r <= used
      BY <1>0, <1>2, <1>3
    <3>3. a \in requests'[r].held \/ <<r, a>> \in answered' =>
            r <= used /\ \A i \in inbox[a] : i.id # r
      BY <1>0, <1>2, <1>3
    <3> QED
      BY <1>0, <2>1, <3>1, <3>2, <3>3
  <2> QED
    BY <2>2, <2>3, <2>4
<1> QED
  BY <1>4 DEF DrawnOnce

\* Debts end, or inboxes get input that carries no debt.
LEMMA NothingDrawn ==
  ASSUME TypeOK, DrawnOnce, HeldLess(requests', requests), Fewer(requests', requests),
         requests' \in [Ids -> Request],
         \A a \in Agents : \A i \in inbox'[a] : i \in inbox[a] \/ i.id = NoId,
         UNCHANGED <<used, answered>>
  PROVE  DrawnOnce'
<1>1. \A r \in Ids, a \in Agents : /\ a \in requests'[r].held => a \in requests[r].held
                                   /\ a \in requests'[r].open => a \in requests[r].open
  BY DEF HeldLess, Fewer
<1>2. \A r \in Ids : r # NoId
  BY DEF Ids, NoId
<1> QED
  BY <1>1, <1>2 DEF DrawnOnce

\* What is taken leaves the inbox.
LEMMA TakeDrawn ==
  ASSUME TypeOK, DrawnOnce, NEW a \in Agents, NEW inputs \in SUBSET inbox[a],
         NEW nothingElse \in BOOLEAN, Take(a, inputs, nothingElse), UNCHANGED <<used, answered>>
  PROVE  DrawnOnce'
<1> DEFINE debts == {i.id : i \in Debts(inputs)}
<1>1. \A b \in Agents : /\ b # a => inbox'[b] = inbox[b]
                        /\ inbox'[b] \subseteq inbox[b] /\ inbox'[a] = inbox[a] \ inputs
  BY DEF Take, TypeOK
<1>2. ASSUME NEW r \in Ids
      PROVE  /\ r \notin debts => requests'[r] = requests[r]
             /\ r \in debts => /\ requests'[r].open = requests[r].open \cup {a}
                               /\ requests'[r].held = requests[r].held \cup {a}
  BY TakeHolds
<1>3. ASSUME NEW r \in debts
      PROVE  /\ \E i \in inputs : i.id = r /\ i \in inbox[a]
             /\ r # NoId
  BY DEF Debts
<1> HIDE DEF debts
<1>4. ASSUME NEW b \in Agents
      PROVE  /\ \A i \in inbox'[b] : i.id # NoId => i.id <= used'
             /\ \A i, j \in inbox'[b] : i.id = j.id /\ i.id # NoId => i = j
    BY <1>1 DEF DrawnOnce
<1>5. ASSUME NEW b \in Agents, NEW r \in Ids
      PROVE  /\ b \in requests'[r].open => r <= used'
             /\ <<r, b>> \in answered' => b \notin requests'[r].held /\ r <= used'
             /\ b \in requests'[r].held \/ <<r, b>> \in answered' => \A i \in inbox'[b] : i.id # r
  <2>1. /\ b \in requests[r].open => r <= used
        /\ <<r, b>> \in answered => b \notin requests[r].held /\ r <= used
        /\ b \in requests[r].held \/ <<r, b>> \in answered => \A i \in inbox[b] : i.id # r
    BY DEF DrawnOnce
  <2>2. CASE r \in debts /\ b = a
    <3>1. PICK i \in inputs : i.id = r /\ i \in inbox[a] /\ r # NoId
      BY <1>3, <2>2
    <3>2. r <= used /\ \A j \in inbox[a] : j.id = r => j = i
      BY <3>1 DEF DrawnOnce
    <3>3. <<r, b>> \notin answered
      BY <2>1, <2>2, <3>1
    <3> QED
      BY <1>1, <2>2, <3>1, <3>2, <3>3
  <2>3. CASE ~(r \in debts /\ b = a)
    <3>1. /\ b \in requests'[r].open => b \in requests[r].open
          /\ b \in requests'[r].held <=> b \in requests[r].held
      BY <1>2, <2>3
    <3> QED
      BY <1>1, <2>1, <3>1
  <2> QED
    BY <2>2, <2>3
<1> QED
  BY <1>4, <1>5 DEF DrawnOnce

LEMMA StepKeepsDrawn ==
  TypeOK /\ TypeOK' /\ DrawnOnce /\ [Next]_vars => DrawnOnce' /\ answered \subseteq answered'
<1> SUFFICES ASSUME TypeOK, TypeOK', DrawnOnce, [Next]_vars
             PROVE  DrawnOnce' /\ answered \subseteq answered'
  OBVIOUS
<1>1. /\ Consistent(requests) /\ Fewer(requests, requests) /\ HeldLess(requests, requests)
      /\ requests \in [Ids -> Request] /\ requests' \in [Ids -> Request]
      /\ used \in Nat /\ inbox \in [Agents -> SUBSET Input]
  BY TypeParts, TypeParts2, RequestsAssumption DEF Consistent, Others, Fewer, HeldLess, TypeOK
<1>2. ASSUME NEW a \in Agents, Turn(a) \/ Work(a)
      PROVE  DrawnOnce' /\ answered \subseteq answered'
  <2>1. CASE BeginTurn(a)
    BY <2>1, TakeDrawn DEF BeginTurn
  <2>2. CASE Prepare(a)
    <3> DEFINE taken == {i \in inbox[a] : i.kind = "request"}
    <3>1. Take(a, taken, a \in reminded) /\ UNCHANGED <<used, answered>>
      BY <2>2 DEF Prepare
    <3>2. taken \in SUBSET inbox[a] /\ (a \in reminded) \in BOOLEAN
      OBVIOUS
    <3> HIDE DEF taken
    <3> QED
      BY <3>1, <3>2, TakeDrawn
  <2>3. CASE Check(a) \/ CallEnds(a) \/ Work(a) \/ Return(a)
    <3>1. UNCHANGED <<requests, inbox, used, answered>>
      BY <2>3 DEF Check, CallEnds, Work, Return, EndTurn, fold, history
    <3> QED
      BY <1>1, <3>1, NothingDrawn
  <2>4. CASE EndReplies(a)
    <3>1. /\ UNCHANGED <<requests, used, answered>>
          /\ \A b \in Agents : \A i \in inbox'[b] : i \in inbox[b] \/ i.id = NoId
      BY <1>1, <2>4 DEF EndReplies, Reminder
    <3> QED
      BY <1>1, <3>1, NothingDrawn
  <2>5. CASE ReportLimit(a)
    <3>1. PICK settled : requests' = SettleReplies(requests, a, settled)
      BY <2>5 DEF ReportLimit
    <3>2. HeldLess(requests', requests) /\ Fewer(requests', requests)
      BY <1>1, <3>1, LessHeld, SettleConsistent
    <3>3. /\ UNCHANGED <<used, answered>>
          /\ \A b \in Agents : \A i \in inbox'[b] : i \in inbox[b] \/ i.id = NoId
      BY <1>1, <2>5 DEF ReportLimit
    <3> QED
      BY <1>1, <3>2, <3>3, NothingDrawn
  <2> QED
    BY <1>2, <2>1, <2>2, <2>3, <2>4, <2>5 DEF Turn
<1>3. used < MaxRequests => used + 1 \in Ids
  BY <1>1, RequestsAssumption DEF Ids
<1>4. ASSUME NEW a \in Agents, NEW to \in SUBSET Agents, Ask(a, to)
      PROVE  DrawnOnce' /\ answered \subseteq answered'
  <2>1. [kind |-> "request", from |-> a, id |-> used + 1] \in Input
    BY <1>3, <1>4 DEF Ask, Input, Parties
  <2>2. /\ Deliver(requests, to, [kind |-> "request", from |-> a, id |-> used + 1])
        /\ used' = used + 1 /\ answered' = answered
    BY <1>4 DEF Ask, history
  <2> QED
    BY <1>1, <2>1, <2>2, DeliverDrawn
<1>5. ASSUME NEW to \in SUBSET Agents, Post(to)
      PROVE  DrawnOnce' /\ answered \subseteq answered'
  <2>1. [kind |-> "request", from |-> User, id |-> used + 1] \in Input
    BY <1>3, <1>5 DEF Post, Input, Parties
  <2>2. /\ Deliver(requests, to, [kind |-> "request", from |-> User, id |-> used + 1])
        /\ used' = used + 1 /\ answered' = answered
    BY <1>5 DEF Post, history
  <2> QED
    BY <1>1, <2>1, <2>2, DeliverDrawn
<1>6. ASSUME NEW a \in Agents, NEW ids \in SUBSET Ids, NEW asking \in BOOLEAN, Respond(a, ids, asking)
      PROVE  DrawnOnce' /\ answered \subseteq answered'
  <2> DEFINE rs == SettleReplies(requests, a, ids)
             to == {requests[r].from : r \in ids}
             expects == asking /\ to # {User}
             input == [kind |-> "response", from |-> a, id |-> IF expects THEN used + 1 ELSE NoId]
  <2>1. /\ Deliver(rs, to, input) /\ ids \subseteq Held(a)
        /\ expects => used < MaxRequests
        /\ IF expects THEN used' = used + 1 ELSE used' = used
        /\ answered' = answered \cup (ids \X {a})
    BY <1>6 DEF Respond, MayReply
  <2>2. /\ input \in Input
        /\ \/ input.id = NoId /\ used' = used
           \/ input.id = used + 1 /\ used' = used + 1
    BY <1>3, <2>1 DEF Input, Parties
  <2>3. Consistent(rs) /\ HeldLess(rs, requests) /\ Fewer(rs, requests)
    BY <1>1, LessHeld, SettleConsistent
  <2>4. \A r \in ids : a \in requests[r].held /\ a \notin rs[r].held
    <3>1. ASSUME NEW r \in ids PROVE a \in requests[r].held /\ a \notin rs[r].held
      <4>1. r \in Ids /\ a \in requests[r].held /\ rs[r] = Without(requests[r], a)
        BY <2>1 DEF Held, SettleReplies
      <4>2. requests[r] \in Request /\ requests[r].held \subseteq requests[r].open
        BY <1>1, <4>1 DEF Consistent
      <4> QED
        BY <4>1, <4>2, WithoutConsistent
    <3> QED
      BY <3>1
  <2> HIDE DEF rs, to, input
  <2>5. \A r \in Ids, b \in Agents : <<r, b>> \in answered' =>
          <<r, b>> \in answered \/ (b \in requests[r].held /\ b \notin rs[r].held)
    BY <2>1, <2>4
  <2>6. rs \in [Ids -> Request]
    BY <2>3 DEF Consistent
  <2>7. DrawnOnce'
    BY <2>1, <2>2, <2>3, <2>5, <2>6, DeliverDrawn
  <2> QED
    BY <2>1, <2>7
<1>7. ASSUME NEW a \in Agents, Cancel(a) \/ Kill(a)
      PROVE  DrawnOnce' /\ answered \subseteq answered'
  <2>1. requests' = ForgetParty(requests, a) /\ UNCHANGED <<inbox, used, answered>>
    BY <1>7 DEF Cancel, Kill, Forget
  <2>2. HeldLess(requests', requests) /\ Fewer(requests', requests)
    BY <1>1, <2>1, LessHeld, ForgetConsistent
  <2> QED
    BY <1>1, <2>1, <2>2, NothingDrawn
<1>8. CASE Restart \/ UNCHANGED vars
  <2>1. UNCHANGED <<requests, inbox, used, answered>>
    BY <1>8 DEF Restart, vars, fold, history
  <2> QED
    BY <1>1, <2>1, NothingDrawn
<1> QED
  BY <1>2, <1>4, <1>5, <1>6, <1>7, <1>8 DEF Next

\* No message answers a request twice, through re-opened requests, broadcasts
\* and restarts: an answered debt is never held again (routing.rs:104-166).
THEOREM AnsweredCorrect == Spec => AnsweredOnce
<1>1. Init => TypeOK /\ DrawnOnce
  <2>1. Init => DrawnOnce
    BY DEF Init, DrawnOnce, Settled
  <2> QED
    BY <2>1, Initially
<1>2. (TypeOK /\ DrawnOnce) /\ [Next]_vars => (TypeOK /\ DrawnOnce)'
  BY StepKeepsType, StepKeepsDrawn
<1>3. (TypeOK /\ DrawnOnce) /\ (TypeOK /\ DrawnOnce)' /\ [Next]_vars
        => [\A a \in Agents, r \in Ids : <<r, a>> \in answered => a \notin requests'[r].held]_vars
  <2> SUFFICES ASSUME TypeOK, DrawnOnce, TypeOK', [Next]_vars, NEW a \in Agents, NEW r \in Ids,
                      <<r, a>> \in answered
               PROVE  a \notin requests'[r].held
    BY StepKeepsType
  <2>1. <<r, a>> \in answered' /\ DrawnOnce'
    BY StepKeepsDrawn
  <2> QED
    BY <2>1 DEF DrawnOnce
<1> QED
  BY <1>1, <1>2, <1>3, PTL DEF Spec, AnsweredOnce

=============================================================================

------------------------------ MODULE Requests ------------------------------
(***************************************************************************)
(* Who owes whom a reply: the requests of src/agent/state.rs and the       *)
(* messages and reminders of src/agent/routing.rs.  A request is open to   *)
(* an agent from the commit that queues it and held by the agent once it   *)
(* is taken from the inbox; only a holder may answer it.  An agent that    *)
(* ends its turns without answering is reminded, three times in a row.     *)
(*                                                                         *)
(* Every action is one critical section of the Core lock, every append     *)
(* succeeds (module ChannelRuntime fails them), and an agent's loop keeps  *)
(* only the places between which others get the lock.  Agents are siblings *)
(* here: each can be killed by itself.  Input that carries no debt and     *)
(* answers none, boards and requests of logs older than request ids are    *)
(* left out.                                                               *)
(***************************************************************************)
EXTENDS Naturals, FiniteSets

CONSTANTS Agents,
          User,         \* toolname::USER, the party that is no agent
          MaxRequests,  \* bound of the model: request ids
          MaxStops      \* bound of the model: cancels, kills and restarts together

ASSUME RequestsAssumption == User \notin Agents /\ MaxRequests \in Nat /\ MaxStops \in Nat

VARIABLES
  requests,   \* ChannelState.requests: id -> request, or Settled
  inbox,      \* AgentState.inbox of each agent
  killed,     \* the agents with AgentState.killed
  nudges,     \* AgentState.nudges
  reminded,   \* the agents whose turn only reminders started and that did nothing:
              \* turn_reminder_only and neither turn_had_tools nor turn_settled
  phase,      \* where the loop of an agent is
  cancelled,  \* the agents in a turn whose token is cancelled
  ended,      \* how the last turn of an agent ended
  used,       \* ids drawn so far: new_id never repeats one
  answered,   \* history: <<request, agent>> answered by a message
  told,       \* history: reminders of a debt it holds, up to three
  forgotten,  \* history: requests open when their asker was cancelled or killed
  stops       \* cancels, kills and restarts so far

fold == <<requests, inbox, killed, nudges, reminded>>
loop == <<phase, cancelled, ended>>
history == <<answered, told, forgotten>>
vars == <<fold, loop, used, history, stops>>

MAX_NUDGES == 3
Parties == Agents \cup {User}
Ids == 1 .. MaxRequests
NoId == 0
Settled == [from |-> User, open |-> {}, held |-> {}]
Input == [kind : {"request", "response", "reminder"}, from : Parties, id : Ids \cup {NoId}]
Reminder == [kind |-> "reminder", from |-> User, id |-> NoId]
Phases == {"idle", "check", "prepare", "call", "tool", "limited", "replies"}

Alive == Agents \ killed
Open == {r \in Ids : requests[r].open # {}}
Held(a) == {r \in Ids : a \in requests[r].held}

-----------------------------------------------------------------------------
(* The fold                                                                *)

\* owed_by: requests and responses that expect one carry an id.
Debts(inputs) == {i \in inputs : i.id # NoId}

\* asked(): the request is open to a, and is created if it is not there.
Asked(rs, a, inputs) ==
  [r \in Ids |->
     IF \E i \in Debts(inputs) : i.id = r
     THEN LET from == (CHOOSE i \in inputs : i.id = r).from
          IN [from |-> IF rs[r].open = {} THEN from ELSE rs[r].from,
              open |-> rs[r].open \cup {a}, held |-> rs[r].held]
     ELSE rs[r]]

CloseOnly(q, a) == [q EXCEPT !.open = @ \ {a}]
Without(q, a) ==
  IF q.open \subseteq {a} THEN Settled
  ELSE [q EXCEPT !.open = @ \ {a}, !.held = @ \ {a}]

\* settle_replies() for the ids of a response.
SettleReplies(rs, a, ids) ==
  [r \in Ids |-> IF r \in ids THEN Without(rs[r], a) ELSE rs[r]]

\* forget_party(): what it asks and what it owes.
ForgetParty(rs, a) ==
  [r \in Ids |-> IF rs[r].from = a THEN Settled ELSE Without(rs[r], a)]

KeepNudges(a, inputs) == nudges
ResetNudges(a, inputs) == IF Debts(inputs) # {} THEN [nudges EXCEPT ![a] = 0] ELSE nudges

\* The history starts again for a debt that is taken anew or no longer held.
Recount(anew) ==
  told' = [p \in DOMAIN told |->
             IF p \in anew \/ p[2] \notin requests'[p[1]].held THEN 0 ELSE told[p]]

HoldAlone(q, a) == [q EXCEPT !.held = {a}]
Hold(q, a) == [q EXCEPT !.held = @ \cup {a}]

\* taken(): a debt taken from the inbox is held, and opened again if it was
\* forgotten in between.
Take(a, inputs, nothingElse) ==
  LET opened == Asked(requests, a, inputs)
      debts == {i.id : i \in Debts(inputs)}
  IN /\ requests' = [r \in Ids |-> IF r \in debts THEN Hold(opened[r], a) ELSE opened[r]]
     /\ inbox' = [inbox EXCEPT ![a] = @ \ inputs]
     /\ nudges' = ResetNudges(a, inputs)
     /\ reminded' = IF nothingElse /\ inputs \subseteq {Reminder}
                    THEN reminded \cup {a} ELSE reminded \ {a}
     /\ Recount(debts \X {a})

Enter(a, place) == phase' = [phase EXCEPT ![a] = place]

-----------------------------------------------------------------------------
(* The loop of an agent                                                    *)

\* begin_turn(): TURN_STARTED, then the whole inbox is taken.
BeginTurn(a) ==
  /\ phase[a] = "idle" /\ a \in Alive /\ inbox[a] # {}
  /\ Take(a, inbox[a], TRUE)
  /\ Enter(a, "check")
  /\ UNCHANGED <<killed, cancelled, ended, used, answered, forgotten, stops>>

\* TURN_ENDED: a normal end of a turn that only reminders started and that
\* did nothing counts.
Ignored(a, normal) == IF normal /\ a \in reminded THEN 1 ELSE 0
EndTurn(a, normal, next) ==
  /\ nudges' = [nudges EXCEPT ![a] = @ + Ignored(a, normal)]
  /\ ended' = [ended EXCEPT ![a] = IF normal THEN "normally" ELSE "otherwise"]
  /\ Enter(a, next)
  /\ cancelled' = cancelled \ {a} /\ reminded' = reminded \ {a}
  /\ UNCHANGED <<requests, inbox, killed, used, history, stops>>

\* The top of the loop; an error may end the turn here, or the role's limit.
Check(a) ==
  /\ phase[a] = "check"
  /\ \/ EndTurn(a, FALSE, "idle")
     \/ EndTurn(a, FALSE, "limited")
     \/ /\ a \notin cancelled
        /\ Enter(a, "prepare")
        /\ UNCHANGED <<fold, cancelled, ended, used, history, stops>>

\* take_mid_turn(): it does not ask whether the agent is killed.
Prepare(a) ==
  /\ phase[a] = "prepare"
  /\ Take(a, {i \in inbox[a] : i.kind = "request"}, a \in reminded)
  /\ Enter(a, "call")
  /\ UNCHANGED <<killed, cancelled, ended, used, answered, forgotten, stops>>

\* The call fails or was cancelled; or it answers without tools, also when it
\* was cancelled too late.
CallEnds(a) ==
  /\ phase[a] = "call"
  /\ EndTurn(a, FALSE, "idle") \/ EndTurn(a, TRUE, "replies")

\* A tool starts: TOOL_STARTED.
Work(a) ==
  /\ phase[a] = "call" /\ a \notin cancelled
  /\ nudges' = [nudges EXCEPT ![a] = 0]
  /\ reminded' = reminded \ {a}
  /\ Enter(a, "tool")
  /\ UNCHANGED <<requests, inbox, killed, cancelled, ended, used, history, stops>>

\* The tool returns and another starts, or the loop goes round.
Return(a) ==
  /\ phase[a] = "tool"
  /\ Enter(a, "call") \/ Enter(a, "check")
  /\ UNCHANGED <<fold, cancelled, ended, used, history, stops>>

RemindFourTimes(a) == nudges[a] <= MAX_NUDGES
Due(a) == nudges[a] < MAX_NUDGES

\* end_replies(), after the lock was released.
EndReplies(a) ==
  /\ phase[a] = "replies"
  /\ IF Held(a) # {} /\ Due(a)
     THEN /\ inbox' = [inbox EXCEPT ![a] = @ \cup {Reminder}]
          /\ told' = [p \in DOMAIN told |->
               IF p[2] = a /\ p[1] \in Held(a) /\ told[p] < MAX_NUDGES
               THEN told[p] + 1 ELSE told[p]]
     ELSE UNCHANGED <<inbox, told>>
  /\ Enter(a, "idle")
  /\ UNCHANGED <<requests, killed, nudges, reminded, cancelled, ended, used, answered, forgotten, stops>>

\* report_turn_limit(), after the turn ended: the requests of live agents that
\* are open to it and the user's that it holds are answered for it.
ReportLimit(a) ==
  LET settled == {r \in Open : \/ requests[r].from \in Alive \ {a} /\ a \in requests[r].open
                               \/ requests[r].from = User /\ a \in requests[r].held}
  IN /\ phase[a] = "limited"
     /\ requests' = SettleReplies(requests, a, settled)
     /\ inbox' = [b \in Agents |->
          IF \E r \in settled : requests[r].from = b
          THEN inbox[b] \cup {[kind |-> "response", from |-> a, id |-> NoId]} ELSE inbox[b]]
     /\ nudges' = IF settled = {} THEN nudges ELSE [nudges EXCEPT ![a] = 0]
     /\ Enter(a, "idle")
     /\ Recount({})
     /\ UNCHANGED <<killed, reminded, cancelled, ended, used, answered, forgotten, stops>>

-----------------------------------------------------------------------------
(* Messages: Routing::message, from a tool that is running                 *)

\* Everyone in `to` but the user is sent the same input.
Deliver(rs, to, input) ==
  /\ inbox' = [b \in Agents |-> IF b \in to THEN inbox[b] \cup {input} ELSE inbox[b]]
  /\ requests' = IF input.id = NoId THEN rs
                 ELSE [r \in Ids |-> IF r = input.id
                         THEN [from |-> input.from, open |-> to \cap Agents, held |-> {}]
                         ELSE rs[r]]

\* A request to other agents.  A killed agent's last tool may still send one.
Ask(a, to) ==
  /\ phase[a] = "tool"
  /\ to # {} /\ to \subseteq Alive \ {a}
  /\ used < MaxRequests
  /\ used' = used + 1
  /\ Deliver(requests, to, [kind |-> "request", from |-> a, id |-> used + 1])
  /\ UNCHANGED <<killed, nudges, reminded, loop, history, stops>>

OpenSuffices(a, ids) == \A r \in ids : r \in Open
MayReply(a, ids) == ids \subseteq Held(a)

\* A response to the requests `ids`, addressed to exactly those who asked; it
\* may ask the agents among them something in turn.
Respond(a, ids, asking) ==
  LET to == {requests[r].from : r \in ids}
      expects == asking /\ to # {User}
  IN /\ phase[a] = "tool"
     /\ ids # {} /\ MayReply(a, ids)
     /\ to \cap Agents \subseteq Alive \ {a}
     /\ IF expects THEN used < MaxRequests /\ used' = used + 1 ELSE UNCHANGED used
     /\ Deliver(SettleReplies(requests, a, ids), to,
                [kind |-> "response", from |-> a, id |-> IF expects THEN used + 1 ELSE NoId])
     /\ nudges' = [nudges EXCEPT ![a] = 0]
     /\ reminded' = reminded \ {a}
     /\ Recount({})
     /\ answered' = answered \cup (ids \X {a})
     /\ UNCHANGED <<killed, loop, forgotten, stops>>

-----------------------------------------------------------------------------
(* The user, and the daemon                                                *)

\* accept_prepared(), post() and queue(): the user asks live agents.
Post(to) ==
  /\ to # {} /\ to \subseteq Alive
  /\ used < MaxRequests
  /\ used' = used + 1
  /\ Deliver(requests, to, [kind |-> "request", from |-> User, id |-> used + 1])
  /\ UNCHANGED <<killed, nudges, reminded, loop, history, stops>>

Stop == stops < MaxStops /\ stops' = stops + 1
InTurn(a) == phase[a] \in {"check", "prepare", "call", "tool"}

Forget(a) ==
  /\ requests' = ForgetParty(requests, a)
  /\ cancelled' = IF InTurn(a) THEN cancelled \cup {a} ELSE cancelled
  /\ forgotten' = forgotten \cup {r \in Open : requests[r].from = a}
  /\ Recount({})

\* AGENT_CANCELLED, also for an agent that is not in a turn.
Cancel(a) ==
  /\ Stop
  /\ Forget(a)
  /\ UNCHANGED <<inbox, killed, nudges, reminded, phase, ended, used, answered>>

\* AGENT_KILLED: its turn unwinds afterwards.
Kill(a) ==
  /\ Stop
  /\ a \in Alive
  /\ killed' = killed \cup {a}
  /\ Forget(a)
  /\ UNCHANGED <<inbox, nudges, reminded, phase, ended, used, answered>>

\* The daemon restarts: open turns are aborted, what they took stays held.
Restart ==
  /\ Stop
  /\ phase' = [a \in Agents |-> "idle"]
  /\ cancelled' = {} /\ reminded' = {}
  /\ ended' = [a \in Agents |-> IF phase[a] = "idle" THEN ended[a] ELSE "otherwise"]
  /\ UNCHANGED <<requests, inbox, killed, nudges, used, history>>

-----------------------------------------------------------------------------
Init ==
  /\ requests = [r \in Ids |-> Settled]
  /\ inbox = [a \in Agents |-> {}]
  /\ killed = {}
  /\ nudges = [a \in Agents |-> 0]
  /\ reminded = {}
  /\ phase = [a \in Agents |-> "idle"]
  /\ cancelled = {}
  /\ ended = [a \in Agents |-> "otherwise"]
  /\ used = 0 /\ stops = 0
  /\ answered = {} /\ forgotten = {}
  /\ told = [p \in Ids \X Agents |-> 0]

Turn(a) ==
  BeginTurn(a) \/ Check(a) \/ Prepare(a) \/ CallEnds(a) \/ Return(a)
    \/ EndReplies(a) \/ ReportLimit(a)

Next ==
  \/ \E a \in Agents :
       \/ Turn(a) \/ Work(a) \/ Cancel(a) \/ Kill(a)
       \/ \E to \in SUBSET Agents : Ask(a, to)
       \/ \E ids \in SUBSET Ids, asking \in BOOLEAN : Respond(a, ids, asking)
  \/ \E to \in SUBSET Agents : Post(to)
  \/ Restart

Spec == Init /\ [][Next]_vars

-----------------------------------------------------------------------------
(* Properties                                                              *)

\* The state is of its types; who holds a request owes it.
TypeOK ==
  /\ requests \in [Ids -> [from : Parties, open : SUBSET Agents, held : SUBSET Agents]]
  /\ \A r \in Ids : requests[r].held \subseteq requests[r].open
  /\ \A r \in Ids : requests[r].open = {} => requests[r] = Settled
  /\ inbox \in [Agents -> SUBSET Input]
  /\ killed \subseteq Agents /\ cancelled \subseteq Agents
  /\ nudges \in [Agents -> Nat] /\ reminded \subseteq Agents
  /\ phase \in [Agents -> Phases] /\ ended \in [Agents -> {"normally", "otherwise"}]
  /\ used \in 0 .. MaxRequests /\ stops \in 0 .. MaxStops
  /\ answered \subseteq Ids \X Agents /\ forgotten \subseteq Ids
  /\ told \in [Ids \X Agents -> 0 .. MAX_NUDGES]

\* Whoever waits for a reply can get one: an agent that owes it holds the
\* request or will take it from its inbox, since only a holder may answer.
OpenIsReachable ==
  \A r \in Ids : \A a \in requests[r].open :
    a \in requests[r].held \/ \E i \in inbox[a] : i.id = r

\* No message answers a request twice, through re-opened requests, broadcasts
\* and restarts (routing.rs:104-166).
AnsweredOnce ==
  [][\A a \in Agents, r \in Ids :
       <<r, a>> \in answered => a \notin requests'[r].held]_vars

\* Reminders alone start at most three turns in a row (routing.rs:594,
\* counted at state.rs:137).
NudgesBounded == \A a \in Agents : nudges[a] <= MAX_NUDGES

\* Debts are neither hopeless nor a perpetual motion of reminders.
DebtsAreSound == OpenIsReachable /\ NudgesBounded

\* No debt is dropped silently: an agent that rests after a normal end was
\* reminded three times of everything it still owes since it took it.
EveryDebtReminded ==
  \A a \in Alive :
    phase[a] = "idle" /\ inbox[a] = {} /\ ended[a] = "normally" =>
      \A r \in Held(a) : told[<<r, a>>] = MAX_NUDGES

\* tests/agent_state.rs:83 "cancellation_forgets_both_sides_of_broadcast_
\* obligations": nobody owes an agent that was cancelled or killed what it had
\* asked before.
ForgottenStaysForgotten == \A r \in forgotten : requests[r].open = {}
=============================================================================

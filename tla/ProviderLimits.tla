--------------------------- MODULE ProviderLimits ---------------------------
(***************************************************************************)
(* Model calls of one channel: the budget they are reserved from           *)
(* (src/agent/journal.rs), the plans of the providers as the tracker knows *)
(* them (src/model/registry.rs), and what a turn does at a plan's limit:   *)
(* it moves to another model of its role or ends and parks, and a timer of *)
(* the daemon wakes the parked (src/agent/runtime/turn.rs, settings.rs).   *)
(*                                                                         *)
(* Every action is one critical section of the Core lock or of the         *)
(* tracker's, or a reply on its way.  A provider stands for its models.    *)
(* Instants are numbers, 0 is Time::default().  The pace of the plans,     *)
(* which orders the open candidates, is left out: any of them may be first.*)
(* So are max_channel_duration, failed writes and resume_after_limit off.  *)
(***************************************************************************)
EXTENDS Naturals, FiniteSets

CONSTANTS Agents, Providers,
          Candidates,   \* Candidates[a]: the models that the role of a lists
          First,        \* First[a]: the model a starts with
          Long,         \* the agents whose history may need a compaction
          Polled,       \* providers with an endpoint that reports the plan's usage
          Headers,      \* providers whose responses carry the plan's usage
          Silent,       \* providers that do not say when a full window resets
          MaxCalls,     \* limits.maxChannelCalls, 0 for none
          MaxTokens,    \* limits.maxChannelTokens in units of the largest call
          MaxMoves,     \* pick::MAX_MOVES, 4 in the code
          MaxResumes,   \* pick::MAX_RESUMES, 12 in the code
          MaxTime,      \* bound of the model: the last instant
          MaxEvents     \* bound of the model: messages and cancels of the
                        \* owner, changed models, exhausted plans, restarts

ASSUME LimitsAssumption ==
  /\ IsFiniteSet(Agents)
  /\ Candidates \in [Agents -> SUBSET Providers] /\ First \in [Agents -> Providers]
  /\ Long \subseteq Agents /\ Polled \subseteq Providers
  /\ Headers \subseteq Providers /\ Silent \subseteq Providers
  /\ {MaxCalls, MaxTokens, MaxMoves, MaxResumes, MaxEvents} \subseteq Nat
  /\ MaxTime \in Nat \ {0}

VARIABLES
  now,       \* the wall clock
  refusing,  \* refusing[p]: until when p refuses calls, as p knows
  usage,     \* UsageTracker.state.usage
  kept,      \* plan-usage.json
  poll,      \* poll[p]: a request for the plan's usage, or its reply
  agent,     \* AgentState and Turn of each agent
  calls,     \* ChannelState.model_calls
  tokens,    \* ChannelState.budget_tokens
  tick,      \* maybe_resume between its market and its lock
  events

vars == <<now, refusing, usage, kept, poll, agent, calls, tokens, tick, events>>
plans == <<refusing, usage, kept, poll>>

Never == MaxTime + 1
Instants == 0 .. MaxTime
NoPoll == [at |-> "none", full |-> 0]
DuePoll == [at |-> "provider", full |-> 0]
\* Where a turn is.  It has a call under way at "summary" and at "call".
Calling == {"summary", "call"}
Places == {"asleep", "prepare", "compact", "reserve", "limited", "faulted", "ending"} \cup Calling

-----------------------------------------------------------------------------
(* read_plan, pick_model and Market                                        *)

LimitedForEver(u) == u.limited > now \/ u.full > 0
Limited(u) == u.limited > now \/ u.full > now

\* Plan.until: the later of the two, 0 if neither is known.
Until(u) ==
  LET told == IF u.limited > now THEN u.limited ELSE 0
      reset == IF u.full > now /\ u.full # Never THEN u.full ELSE 0
  IN IF told > reset THEN told ELSE reset

Open(a, avoid, known) == {p \in Candidates[a] \ {avoid} : ~Limited(known[p])}

\* The first instant at which a candidate comes back, 0 if none is known.
Soonest(a, known) ==
  LET back == {Until(known[p]) : p \in Candidates[a]} \ {0}
  IN IF back = {} THEN 0 ELSE CHOOSE t \in back : \A u \in back : t <= u

ResumeOnceMore(a) == agent[a].resumes <= MaxResumes
MayPark(a) == agent[a].resumes < MaxResumes
ParkUntil(a, soonest, own) ==
  IF ~MayPark(a) THEN 0
  ELSE IF soonest = 0 \/ own < soonest THEN own ELSE soonest

Marked(p, until) ==
  [usage EXCEPT ![p].limited = IF until > @ THEN until ELSE @]

-----------------------------------------------------------------------------
(* Budget                                                                  *)

\* budget_reason_locked
SpentOneLater == \/ MaxCalls > 0 /\ calls > MaxCalls
                 \/ MaxTokens > 0 /\ tokens > MaxTokens
Spent == \/ MaxCalls > 0 /\ calls >= MaxCalls
         \/ MaxTokens > 0 /\ tokens >= MaxTokens

Outstanding == {a \in Agents : agent[a].pc \in Calling}

-----------------------------------------------------------------------------
(* A turn                                                                  *)

Becomes(a, r) == agent' = [agent EXCEPT ![a] = r]
Ends(a, at) == Becomes(a, [agent[a] EXCEPT !.pc = "ending", !.at = at])
\* What arrived before an error is recorded as an ASSISTANT_MESSAGE.
Stops(a, at) ==
  \E resumes \in {agent[a].resumes, 0} :
    Becomes(a, [agent[a] EXCEPT !.pc = "ending", !.at = at, !.resumes = resumes])
Else == UNCHANGED <<now, tick, events>>

BeginTurn(a) ==
  /\ agent[a].pc = "asleep" /\ agent[a].inbox # {}
  /\ Becomes(a, [agent[a] EXCEPT !.pc = "prepare", !.inbox = {}, !.resumeAt = 0])
  /\ Else /\ UNCHANGED <<plans, calls, tokens>>

\* The top of the loop, which any cap or configuration error ends, and
\* Turn::prepare with leave_limited_model; a long history is compacted first.
Prepare(a) ==
  /\ agent[a].pc = "prepare"
  /\ IF agent[a].cancelled THEN Ends(a, 0)
     ELSE \/ Ends(a, 0)
          \/ LET p == agent[a].model
                 open == Open(a, p, usage)
             IN \E next \in IF Limited(usage[p]) /\ open # {} THEN open ELSE {p},
                   pc \in {"reserve"} \cup (IF a \in Long THEN {"compact"} ELSE {}) :
                  Becomes(a, [agent[a] EXCEPT !.pc = pc, !.model = next, !.using = next])
  /\ Else /\ UNCHANGED <<plans, calls, tokens>>

\* reserve_call: the check and the append are one critical section.
Reserve(a, place) == Becomes(a, [agent[a] EXCEPT !.pc = place]) /\ calls' = calls + 1

\* Conversation::compact, whose failure leaves the history as it is.
ReserveSummary(a) ==
  /\ agent[a].pc = "compact"
  /\ IF Spent THEN Becomes(a, [agent[a] EXCEPT !.pc = "reserve"]) /\ UNCHANGED calls
     ELSE Reserve(a, "summary")
  /\ Else /\ UNCHANGED <<plans, tokens>>

ReserveCall(a) ==
  /\ agent[a].pc = "reserve"
  /\ IF Spent THEN Ends(a, 0) /\ UNCHANGED calls
     ELSE Reserve(a, "call")
  /\ Else /\ UNCHANGED <<plans, tokens>>

\* What the provider says of its window, in the headers of a response or to a
\* poll: 0 while it is not full.
Reading(p) ==
  IF refusing[p] <= now THEN 0 ELSE IF p \in Silent THEN Never ELSE refusing[p]

\* UsageTracker::observe: a reading without a limit keeps the limit we know;
\* the hook writes the file.
ObservedAnew(p, full) == [usage EXCEPT ![p] = [limited |-> 0, full |-> full]]
Observed(p, full) == [usage EXCEPT ![p].full = full]
Observe(p, full) ==
  /\ usage' = Observed(p, full)
  /\ kept' = [kept EXCEPT ![p] = usage'[p]]

\* PolledModel::complete returns, polls the plan unless it was polled just
\* now, and finish_call counts what the response reports.
Completed(a, r) ==
  LET p == agent[a].using
  IN /\ Becomes(a, r)
     /\ \E used \in {0, 1} : tokens' = tokens + used
     /\ (p \in Headers /\ Observe(p, Reading(p))) \/ UNCHANGED <<usage, kept>>
     /\ UNCHANGED poll \/ (poll[p] = NoPoll /\ p \in Polled /\ poll' = [poll EXCEPT ![p] = DuePoll])
     /\ Else /\ UNCHANGED <<refusing, calls>>

SummaryReturns(a) ==
  agent[a].pc = "summary" /\ Completed(a, [agent[a] EXCEPT !.pc = "reserve"])

\* ASSISTANT_MESSAGE ends a row of resumed turns.
Answers(a) ==
  /\ agent[a].pc = "call" /\ refusing[agent[a].using] <= now
  /\ \E next \in {"prepare", "ending"} :
       Completed(a, [agent[a] EXCEPT !.pc = next, !.at = 0, !.resumes = 0])

\* CallError::Limit, with a retry-after or without.
ReachesLimit(a) ==
  LET p == agent[a].using
  IN /\ agent[a].pc = "call" /\ refusing[p] > now
     /\ \E told \in {0, refusing[p]} :
          Completed(a, [agent[a] EXCEPT !.pc = "limited", !.at = told])

\* CallError::Transient, after the retries of stream.rs.
Faults(a) ==
  /\ agent[a].pc = "call" /\ now < MaxTime
  /\ Completed(a, [agent[a] EXCEPT !.pc = "faulted"])

\* Any other error, and a call that was cancelled.
Refused(a) ==
  /\ agent[a].pc = "call"
  /\ \E resumes \in {agent[a].resumes, 0} :
       Completed(a, [agent[a] EXCEPT !.pc = "ending", !.at = 0, !.resumes = resumes])

\* moved_on: LIMITED_FOR_NS is one instant.
LimitedUntil(a) ==
  LET u == usage[agent[a].using]
  IN IF agent[a].at # 0 THEN agent[a].at
     ELSE IF Limited(u) /\ Until(u) > now THEN Until(u) ELSE now + 1

MovesOn(a) ==
  LET p == agent[a].using
      until == LimitedUntil(a)
      known == Marked(p, until)
      open == Open(a, p, known)
  IN /\ usage' = known
     /\ \/ \E next \in open \ {agent[a].model} :
             Becomes(a, [agent[a] EXCEPT !.pc = "prepare", !.model = next, !.moves = @ + 1])
        \/ /\ open = {} \/ agent[a].model \in open
           /\ Stops(a, ParkUntil(a, Soonest(a, known), until))

LimitHandled(a) ==
  /\ agent[a].pc = "limited"
  /\ IF agent[a].cancelled \/ agent[a].moves >= MaxMoves
     THEN Stops(a, 0) /\ UNCHANGED usage
     ELSE MovesOn(a)
  /\ Else /\ UNCHANGED <<refusing, kept, poll, calls, tokens>>

\* park_after_fault: its delay is one instant.
FaultHandled(a) ==
  /\ agent[a].pc = "faulted"
  /\ Stops(a, IF agent[a].cancelled \/ ~MayPark(a) THEN 0 ELSE now + 1)
  /\ Else /\ UNCHANGED <<plans, calls, tokens>>

\* The fields of the Turn are gone.
Aborted(a) ==
  [agent[a] EXCEPT !.pc = "asleep", !.using = First[a], !.moves = 0, !.at = 0,
                   !.cancelled = FALSE]

\* Turn::end
End(a) ==
  /\ agent[a].pc = "ending"
  /\ Becomes(a, [Aborted(a) EXCEPT !.resumeAt = agent[a].at])
  /\ Else /\ UNCHANGED <<plans, calls, tokens>>

-----------------------------------------------------------------------------
(* The owner                                                               *)

Happens == events < MaxEvents /\ events' = events + 1

Prompt(a) ==
  /\ Happens
  /\ Becomes(a, [agent[a] EXCEPT !.inbox = @ \cup {"prompt"}])
  /\ UNCHANGED <<now, plans, calls, tokens, tick>>

\* Channel::cancel and AGENT_CANCELLED.
Cancel(a) ==
  /\ Happens
  /\ Becomes(a, [agent[a] EXCEPT !.cancelled = agent[a].pc # "asleep", !.resumeAt = 0])
  /\ UNCHANGED <<now, plans, calls, tokens, tick>>

\* Agent::set_model, also while a call is under way.
SetModel(a, p) ==
  /\ Happens /\ p \in Candidates[a] \ {agent[a].model}
  /\ Becomes(a, [agent[a] EXCEPT !.model = p])
  /\ UNCHANGED <<now, plans, calls, tokens, tick>>

-----------------------------------------------------------------------------
(* Resuming the parked                                                     *)

Parked(a, at) ==
  /\ agent[a].pc = "asleep" /\ agent[a].inbox = {}
  /\ agent[a].resumeAt \in 1 .. at

Idle == [at |-> 0, limited |-> {}]

\* Market::available
AvailableElsewhere(a, limited) == ~(Candidates[a] \ {agent[a].model} \subseteq limited)
Available(a, limited) ==
  IF Candidates[a] # {} THEN ~(Candidates[a] \subseteq limited)
  ELSE agent[a].model \notin limited

\* The timer of start_loops: somebody is parked, and the market is read.
TickReads ==
  /\ tick = Idle /\ \E a \in Agents : Parked(a, now)
  /\ tick' = [at |-> now, limited |-> {p \in Providers : Limited(usage[p])}]
  /\ UNCHANGED <<now, plans, agent, calls, tokens, events>>

\* Who is parked is asked again under the lock.
ResumedUnasked ==
  {a \in Agents : agent[a].resumeAt \in 1 .. tick.at /\ Available(a, tick.limited)}
Resumed == {a \in Agents : Parked(a, tick.at) /\ Available(a, tick.limited)}

TickCommits ==
  /\ tick # Idle /\ tick' = Idle
  /\ agent' = [a \in Agents |->
                 IF a \in Resumed
                 THEN [agent[a] EXCEPT !.inbox = @ \cup {"resume"}, !.resumes = @ + 1]
                 ELSE agent[a]]
  /\ UNCHANGED <<now, plans, calls, tokens, events>>

-----------------------------------------------------------------------------
(* The tracker, the providers and the daemon                               *)

PollReads(p) ==
  /\ poll[p] = DuePoll
  /\ poll' = [poll EXCEPT ![p] = [at |-> "tracker", full |-> Reading(p)]]
  /\ UNCHANGED <<now, refusing, usage, kept, agent, calls, tokens, tick, events>>

PollReturns(p) ==
  /\ poll[p] # NoPoll /\ poll' = [poll EXCEPT ![p] = NoPoll]
  /\ \/ poll[p].at = "tracker" /\ Observe(p, poll[p].full)
     \/ UNCHANGED <<usage, kept>>
  /\ UNCHANGED <<now, refusing, agent, calls, tokens, tick, events>>

Exhaust(p) ==
  /\ Happens /\ refusing[p] <= now
  /\ \E until \in now + 1 .. MaxTime : refusing' = [refusing EXCEPT ![p] = until]
  /\ UNCHANGED <<now, usage, kept, poll, agent, calls, tokens, tick>>

\* An error of a call is handled in the instant it comes.
Clock ==
  /\ now < MaxTime /\ now' = now + 1
  /\ \A a \in Agents : agent[a].pc \notin {"limited", "faulted"}
  /\ UNCHANGED <<plans, agent, calls, tokens, tick, events>>

\* A turn is aborted, the tracker is seeded from the file and polls everybody.
Restart ==
  /\ Happens
  /\ agent' = [a \in Agents |-> Aborted(a)]
  /\ usage' = kept /\ tick' = Idle
  /\ poll' = [p \in Providers |-> IF p \in Polled THEN DuePoll ELSE NoPoll]
  /\ UNCHANGED <<now, refusing, kept, calls, tokens>>

-----------------------------------------------------------------------------
Init ==
  /\ now = 1
  /\ refusing = [p \in Providers |-> 0]
  /\ usage = [p \in Providers |-> [limited |-> 0, full |-> 0]]
  /\ kept = usage
  /\ poll = [p \in Providers |-> NoPoll]
  /\ agent = [a \in Agents |->
       [pc |-> "asleep", model |-> First[a], using |-> First[a], moves |-> 0, at |-> 0,
        cancelled |-> FALSE, inbox |-> {}, resumeAt |-> 0, resumes |-> 0]]
  /\ calls = 0 /\ tokens = 0 /\ tick = Idle /\ events = 0

TurnStep(a) ==
  \/ BeginTurn(a) \/ Prepare(a) \/ ReserveSummary(a) \/ ReserveCall(a)
  \/ SummaryReturns(a) \/ Answers(a) \/ ReachesLimit(a) \/ Faults(a) \/ Refused(a)
  \/ LimitHandled(a) \/ FaultHandled(a) \/ End(a)

Next ==
  \/ \E a \in Agents :
       \/ TurnStep(a) \/ Prompt(a) \/ Cancel(a)
       \/ \E p \in Providers : SetModel(a, p)
  \/ \E p \in Providers : PollReads(p) \/ PollReturns(p) \/ Exhaust(p)
  \/ TickReads \/ TickCommits \/ Clock \/ Restart

Spec == Init /\ [][Next]_vars

\* Turns run and their calls return (stream.rs has a time-out for each wait),
\* the timer ticks and time passes; nobody has to poll.
FairSpec ==
  /\ Spec
  /\ WF_vars(\E a \in Agents : TurnStep(a))
  /\ WF_vars(TickReads \/ TickCommits) /\ WF_vars(Clock)

-----------------------------------------------------------------------------
(* Properties                                                              *)

Agent == [pc : Places, model : Providers, using : Providers, moves : 0 .. MaxMoves,
          at : Instants, cancelled : BOOLEAN, inbox : SUBSET {"prompt", "resume"},
          resumeAt : Instants, resumes : 0 .. MaxResumes]

Usage == [limited : Instants, full : 0 .. Never]

\* The state is of its types: a turn moves at most MAX_MOVES times, and parks
\* for an instant that comes.
TypeOK ==
  /\ now \in 1 .. MaxTime
  /\ refusing \in [Providers -> Instants]
  /\ usage \in [Providers -> Usage] /\ kept \in [Providers -> Usage]
  /\ poll \in [Providers -> [at : {"none", "provider", "tracker"}, full : 0 .. Never]]
  /\ agent \in [Agents -> Agent]
  /\ calls \in Nat /\ tokens \in Nat
  /\ tick \in [at : Instants, limited : SUBSET Providers]
  /\ events \in 0 .. MaxEvents

\* The agents of a channel share one budget: its calls are never exceeded, its
\* tokens by no more than the calls that were under way (journal.rs:289-344).
BudgetKept ==
  /\ MaxCalls > 0 => calls <= MaxCalls
  /\ MaxTokens > 0 => tokens + Cardinality(Outstanding) <= MaxTokens - 1 + Cardinality(Agents)

\* Nobody resumes by itself for ever: an agent that is parked, or about to be,
\* has resumes left, and one that was resumed was counted (pick.rs:389-408).
ResumesBounded ==
  \A a \in Agents :
    /\ agent[a].resumeAt # 0 /\ agent[a].inbox = {} => MayPark(a)
    /\ "resume" \in agent[a].inbox => agent[a].resumes > 0

SpendingBounded == BudgetKept /\ ResumesBounded

\* A resumed agent is told that nobody has written to it since its turn
\* stopped and that a model is back: it sleeps with an empty inbox, and its
\* time has come, though maybe_resume looked before it took the lock
\* (settings.rs:417-452, pick.rs:409-415).
ResumeIsTrue ==
  [][\A a \in Agents : "resume" \in agent'[a].inbox \ agent[a].inbox =>
       /\ agent[a].inbox = {} /\ agent[a].pc = "asleep"
       /\ agent[a].resumeAt \in 1 .. now]_vars

\* A limit we were told of is remembered until it is over, whatever older
\* readings of the plan arrive meanwhile; a restart may forget it
\* (registry.rs:312-342).
LimitRemembered ==
  [][\A p \in Providers : usage[p].limited > now =>
       \/ usage'[p].limited >= usage[p].limited
       \/ usage' = kept /\ events' > events]_vars

\* What is known of limits and of the agents that wait for them stays true.
LimitsAreTrue == ResumeIsTrue /\ LimitRemembered

Waits(a) == agent[a].pc = "asleep" /\ agent[a].inbox = {} /\ agent[a].resumeAt # 0

\* A parked agent carries on by itself, unless all its models read as full
\* with no known reset: only a call polls a plan, and nobody makes one.
ParkedResumes ==
  \A a \in Agents : Waits(a) ~>
    \/ ~Waits(a)
    \/ Candidates[a] # {} /\ \A p \in Candidates[a] : usage[p].full = Never
=============================================================================

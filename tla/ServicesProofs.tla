--------------------------- MODULE ServicesProofs ---------------------------
(***************************************************************************)
(* Theorems about what the daemon does with services outside it.           *)
(*                                                                         *)
(* Model providers: the budget of a channel and the limits of its plans    *)
(* (src/agent/journal.rs, src/agent/runtime/turn.rs, settings.rs) for any  *)
(* number of agents, providers, calls, tokens, moves, resumes and          *)
(* restarts: the budget is kept, nobody resumes by itself for ever, and    *)
(* what is known of a limit, and of who waits for it, is true.             *)
(*                                                                         *)
(* Discord: the bridge of a channel (src/discord) for any number of        *)
(* prompts, messages, faults and works in its queue: chat keeps its order, *)
(* a message is posted once, and cards tell the truth.                     *)
(***************************************************************************)
EXTENDS ProviderLimits, DiscordBridge, TLAPS, FiniteSetTheorems, WellFoundedInduction

\* What an agent's record promises at instant t: its time to resume and the
\* daemon's message are for its sleep alone, whoever parks may resume once
\* more, and an error of a call is handled before the last instant.
Sound(r, t) ==
  /\ r.pc # "asleep" => r.resumeAt = 0 /\ "resume" \notin r.inbox
  /\ r.pc = "ending" /\ r.at # 0 => r.resumes < MaxResumes
  /\ r.resumeAt # 0 /\ r.inbox = {} => r.resumes < MaxResumes
  /\ "resume" \in r.inbox => r.resumes > 0
  /\ r.pc \in {"limited", "faulted"} => t < MaxTime

AgentsSound == \A a \in Agents : Sound(agent[a], now)

\* The market was read before.
TickPast == tick.at <= now

IInv == TypeOK /\ AgentsSound /\ TickPast /\ BudgetKept

PlansTyped ==
  /\ usage \in [Providers -> Usage] /\ kept \in [Providers -> Usage]
  /\ poll \in [Providers -> [at : {"none", "provider", "tracker"}, full : 0 .. Never]]

-----------------------------------------------------------------------------
(* Instants                                                                *)

LEMMA Bounds ==
  /\ MaxTime \in Nat /\ MaxTime > 0 /\ Never = MaxTime + 1
  /\ MaxCalls \in Nat /\ MaxTokens \in Nat /\ MaxMoves \in Nat
  /\ MaxResumes \in Nat /\ MaxEvents \in Nat
  /\ IsFiniteSet(Agents) /\ First \in [Agents -> Providers]
  /\ Candidates \in [Agents -> SUBSET Providers]
BY LimitsAssumption DEF Never

LEMMA UntilTyped ==
  ASSUME NEW u \in Usage, now \in 1 .. MaxTime
  PROVE  Until(u) \in Instants
BY Bounds DEF Until, Usage, Instants

LEMMA Smallest ==
  ASSUME NEW S \in SUBSET Nat, S # {}
  PROVE  \E t \in S : \A u \in S : t <= u
<1>1. \E t \in S : \A u \in S : ~(<<u, t>> \in OpToRel(<, Nat))
  BY NatLessThanWellFounded, WFMin
<1>2. PICK t \in S : \A u \in S : ~(u < t)
  BY <1>1 DEF OpToRel
<1>3. ASSUME NEW u \in S PROVE t <= u
  <2>1. t \in Nat /\ u \in Nat /\ ~(u < t)
    BY <1>2
  <2> QED
    BY <2>1
<1> QED
  BY <1>3

\* The soonest of some instants is one of them.
LEMMA SoonestTyped ==
  ASSUME NEW a \in Agents, NEW known \in [Providers -> Usage], now \in 1 .. MaxTime
  PROVE  Soonest(a, known) \in Instants
<1> DEFINE back == {Until(known[p]) : p \in Candidates[a]} \ {0}
<1>1. back \subseteq Instants
  BY UntilTyped, Bounds
<1>2. Soonest(a, known) = IF back = {} THEN 0 ELSE CHOOSE t \in back : \A u \in back : t <= u
  BY DEF Soonest
<1>3. back \in SUBSET Nat /\ 0 \in Instants
  BY <1>1, Bounds DEF Instants
<1> HIDE DEF back
<1>4. back # {} => \E t \in back : \A u \in back : t <= u
  BY <1>3, Smallest
<1> QED
  BY <1>1, <1>2, <1>3, <1>4

\* An agent parks for an instant, and only if it may.
LEMMA ParkTyped ==
  ASSUME NEW a \in Agents, NEW soonest \in Instants, NEW own \in Instants
  PROVE  /\ ParkUntil(a, soonest, own) \in Instants
         /\ ParkUntil(a, soonest, own) # 0 => agent[a].resumes < MaxResumes
BY Bounds DEF ParkUntil, MayPark, Instants

LEMMA MarkedTyped ==
  ASSUME usage \in [Providers -> Usage], NEW p \in Providers, NEW until \in Instants
  PROVE  /\ Marked(p, until) \in [Providers -> Usage]
         /\ \A q \in Providers : Marked(p, until)[q].limited >= usage[q].limited
BY Bounds DEF Marked, Usage, Instants

LEMMA ReadingTyped ==
  ASSUME refusing \in [Providers -> Instants], NEW p \in Providers
  PROVE  Reading(p) \in 0 .. Never
BY Bounds DEF Reading, Instants

\* An observation says nothing of the limit.
LEMMA ObserveTyped ==
  ASSUME PlansTyped, NEW p \in Providers, NEW full \in 0 .. Never, Observe(p, full)
  PROVE  /\ usage' \in [Providers -> Usage] /\ kept' \in [Providers -> Usage]
         /\ \A q \in Providers : usage'[q].limited = usage[q].limited
BY Bounds DEF PlansTyped, Observe, Observed, Usage, Instants

-----------------------------------------------------------------------------
(* A turn                                                                  *)

\* What a step of a turn does to the rest: it changes the record of its agent
\* to a sound one, and the plans to plans.
TurnMade(a, r) ==
  /\ r \in Agent /\ Sound(r, now)
  /\ agent' = [agent EXCEPT ![a] = r]
  /\ usage' \in [Providers -> Usage] /\ kept' \in [Providers -> Usage]
  /\ poll' \in [Providers -> [at : {"none", "provider", "tracker"}, full : 0 .. Never]]
  /\ calls' \in Nat /\ tokens' \in Nat
  /\ UNCHANGED <<now, refusing, tick, events>>

\* A limit is not forgotten by it.
Remembers == \A p \in Providers : usage'[p].limited >= usage[p].limited

LEMMA AgentTyped ==
  ASSUME TypeOK, AgentsSound, NEW a \in Agents
  PROVE  /\ agent[a] \in Agent /\ Sound(agent[a], now)
         /\ PlansTyped /\ now \in 1 .. MaxTime /\ calls \in Nat /\ tokens \in Nat
         /\ refusing \in [Providers -> Instants]
BY DEF TypeOK, AgentsSound, PlansTyped

LEMMA LimitsOrdered ==
  ASSUME usage \in [Providers -> Usage], UNCHANGED usage
  PROVE  Remembers
BY Bounds DEF Usage, Instants, Remembers

LEMMA BeginTurnMade ==
  ASSUME TypeOK, AgentsSound, NEW a \in Agents, BeginTurn(a)
  PROVE  (\E r : TurnMade(a, r)) /\ Remembers
<1> DEFINE r == [agent[a] EXCEPT !.pc = "prepare", !.inbox = {}, !.resumeAt = 0]
<1>1. r \in Agent /\ Sound(r, now)
  <2>1. agent[a] \in Agent /\ 0 \in Instants
    BY AgentTyped, Bounds DEF Instants
  <2>2. r \in Agent
    BY <2>1 DEF Agent, Places
  <2>3. r.pc = "prepare" /\ r.inbox = {} /\ r.resumeAt = 0
    BY <2>1 DEF Agent
  <2> QED
    BY <2>2, <2>3 DEF Sound
<1>2. TurnMade(a, r)
  BY <1>1, AgentTyped DEF BeginTurn, Becomes, Else, plans, PlansTyped, TurnMade
<1>3. Remembers
  BY AgentTyped, LimitsOrdered DEF BeginTurn, plans, PlansTyped
<1> QED
  BY <1>2, <1>3

\* An agent that ends its turn to park, and one that ends it for good.
LEMMA EndSound ==
  ASSUME TypeOK, AgentsSound, NEW a \in Agents, agent[a].pc # "asleep",
         NEW at \in Instants, NEW resumes \in {agent[a].resumes, 0},
         at # 0 => agent[a].resumes < MaxResumes
  PROVE  LET r == [agent[a] EXCEPT !.pc = "ending", !.at = at, !.resumes = resumes]
         IN  r \in Agent /\ Sound(r, now)
<1>1. agent[a] \in Agent /\ Sound(agent[a], now)
  BY AgentTyped
<1>2. resumes \in 0 .. MaxResumes /\ (at # 0 => resumes < MaxResumes)
  BY <1>1, Bounds DEF Agent
<1> QED
  BY <1>1, <1>2 DEF Agent, Sound, Places, Calling

LEMMA EndsMade ==
  ASSUME TypeOK, AgentsSound, NEW a \in Agents, agent[a].pc # "asleep", Ends(a, 0)
  PROVE  \E r : r \in Agent /\ Sound(r, now) /\ agent' = [agent EXCEPT ![a] = r]
<1> DEFINE r == [agent[a] EXCEPT !.pc = "ending", !.at = 0, !.resumes = agent[a].resumes]
<1>1. r \in Agent /\ Sound(r, now)
  <2>1. 0 \in Instants
    BY Bounds DEF Instants
  <2> QED
    BY <2>1, EndSound
<1>2. r = [agent[a] EXCEPT !.pc = "ending", !.at = 0]
  BY AgentTyped DEF Agent
<1> QED
  BY <1>1, <1>2 DEF Ends, Becomes

LEMMA StopsMade ==
  ASSUME TypeOK, AgentsSound, NEW a \in Agents, agent[a].pc # "asleep",
         NEW at \in Instants, at # 0 => agent[a].resumes < MaxResumes, Stops(a, at)
  PROVE  \E r : r \in Agent /\ Sound(r, now) /\ agent' = [agent EXCEPT ![a] = r]
<1>1. PICK resumes \in {agent[a].resumes, 0} :
        agent' = [agent EXCEPT ![a] = [agent[a] EXCEPT !.pc = "ending", !.at = at, !.resumes = resumes]]
  BY DEF Stops, Becomes
<1> QED
  BY <1>1, EndSound

LEMMA PrepareMade ==
  ASSUME TypeOK, AgentsSound, NEW a \in Agents, Prepare(a)
  PROVE  (\E r : TurnMade(a, r)) /\ Remembers
<1>1. agent[a] \in Agent /\ Sound(agent[a], now)
  BY AgentTyped
<1>2. Remembers
  BY AgentTyped, LimitsOrdered DEF Prepare, plans, PlansTyped
<1>3. PICK r : r \in Agent /\ Sound(r, now) /\ agent' = [agent EXCEPT ![a] = r]
  <2>1. CASE Ends(a, 0)
    BY <2>1, EndsMade DEF Prepare
  <2>2. CASE ~Ends(a, 0)
    <3>1. PICK next \in Providers, pc \in {"reserve", "compact"} :
            agent' = [agent EXCEPT ![a] = [agent[a] EXCEPT !.pc = pc, !.model = next, !.using = next]]
      <4>1. agent[a].model \in Providers /\ Open(a, agent[a].model, usage) \subseteq Providers
        BY <1>1, Bounds DEF Agent, Open
      <4> QED
        BY <2>2, <4>1 DEF Prepare, Becomes
    <3>2. [agent[a] EXCEPT !.pc = pc, !.model = next, !.using = next] \in Agent
      BY <1>1 DEF Agent, Places
    <3>3. Sound([agent[a] EXCEPT !.pc = pc, !.model = next, !.using = next], now)
      BY <1>1 DEF Agent, Sound, Prepare
    <3> QED
      BY <3>1, <3>2, <3>3
  <2> QED
    BY <2>1, <2>2
<1> QED
  BY <1>2, <1>3, AgentTyped DEF Prepare, Else, plans, PlansTyped, TurnMade

\* An agent in a turn that goes on with it.
LEMMA GoesOn ==
  ASSUME TypeOK, AgentsSound, NEW a \in Agents, agent[a].pc # "asleep",
         NEW pc \in {"prepare", "reserve", "summary", "call"}
  PROVE  LET r == [agent[a] EXCEPT !.pc = pc]
         IN  r \in Agent /\ Sound(r, now)
<1>1. agent[a] \in Agent /\ Sound(agent[a], now)
  BY AgentTyped
<1> QED
  BY <1>1 DEF Agent, Sound, Places, Calling

LEMMA ReserveMade ==
  ASSUME TypeOK, AgentsSound, NEW a \in Agents, ReserveSummary(a) \/ ReserveCall(a)
  PROVE  (\E r : TurnMade(a, r)) /\ Remembers
<1>1. agent[a].pc # "asleep"
  BY DEF ReserveSummary, ReserveCall
<1>2. calls' \in Nat
  BY AgentTyped DEF ReserveSummary, ReserveCall, Reserve
<1>3. PICK r : r \in Agent /\ Sound(r, now) /\ agent' = [agent EXCEPT ![a] = r]
  <2>1. CASE Ends(a, 0)
    BY <1>1, <2>1, EndsMade
  <2>2. CASE ~Ends(a, 0)
    <3>1. PICK pc \in {"reserve", "summary", "call"} :
            agent' = [agent EXCEPT ![a] = [agent[a] EXCEPT !.pc = pc]]
      BY <2>2 DEF ReserveSummary, ReserveCall, Reserve, Becomes
    <3> QED
      BY <1>1, <3>1, GoesOn
  <2> QED
    BY <2>1, <2>2
<1>4. UNCHANGED <<usage, kept, poll, refusing, tokens>> /\ Else
  BY DEF ReserveSummary, ReserveCall, plans
<1>5. Remembers
  BY <1>4, AgentTyped, LimitsOrdered DEF PlansTyped
<1> QED
  BY <1>2, <1>3, <1>4, <1>5, AgentTyped DEF Else, PlansTyped, TurnMade

\* Whatever its end, a call leaves plans and limits as it should.
LEMMA CompletedMade ==
  ASSUME TypeOK, AgentsSound, NEW a \in Agents, NEW r \in Agent, Sound(r, now),
         Completed(a, r)
  PROVE  TurnMade(a, r) /\ Remembers
<1> DEFINE p == agent[a].using
<1>1. agent[a] \in Agent /\ p \in Providers /\ PlansTyped /\ tokens \in Nat /\ calls \in Nat
  BY AgentTyped DEF Agent
<1>2. Reading(p) \in 0 .. Never
  BY <1>1, AgentTyped, ReadingTyped
<1>3. CASE Observe(p, Reading(p))
  <2>1. /\ usage' \in [Providers -> Usage] /\ kept' \in [Providers -> Usage]
        /\ \A q \in Providers : usage'[q].limited = usage[q].limited
    BY <1>1, <1>2, <1>3, ObserveTyped
  <2>2. Remembers
    BY <1>1, <2>1, Bounds DEF Remembers, PlansTyped, Usage, Instants
  <2>3. poll' \in [Providers -> [at : {"none", "provider", "tracker"}, full : 0 .. Never]]
    BY <1>1, Bounds DEF Completed, PlansTyped, DuePoll
  <2>4. tokens' \in Nat
    BY <1>1 DEF Completed
  <2> QED
    BY <1>1, <2>1, <2>2, <2>3, <2>4 DEF Completed, Becomes, Else, TurnMade
<1>4. CASE UNCHANGED <<usage, kept>>
  <2>2. Remembers
    BY <1>1, <1>4, LimitsOrdered DEF PlansTyped
  <2>3. poll' \in [Providers -> [at : {"none", "provider", "tracker"}, full : 0 .. Never]]
    BY <1>1, Bounds DEF Completed, PlansTyped, DuePoll
  <2>4. tokens' \in Nat
    BY <1>1 DEF Completed
  <2> QED
    BY <1>1, <1>4, <2>2, <2>3, <2>4 DEF Completed, Becomes, Else, TurnMade, PlansTyped
<1> QED
  BY <1>3, <1>4 DEF Completed

LEMMA ReturnsMade ==
  ASSUME TypeOK, AgentsSound, NEW a \in Agents,
         SummaryReturns(a) \/ Answers(a) \/ ReachesLimit(a) \/ Faults(a) \/ Refused(a)
  PROVE  (\E r : TurnMade(a, r)) /\ Remembers
<1>1. /\ agent[a] \in Agent /\ Sound(agent[a], now)
      /\ refusing \in [Providers -> Instants] /\ now \in 1 .. MaxTime
  BY AgentTyped
<1>2. 0 \in Instants /\ 0 \in 0 .. MaxResumes
  BY Bounds DEF Instants
<1>3. CASE SummaryReturns(a)
  <2>1. Completed(a, [agent[a] EXCEPT !.pc = "reserve"]) /\ agent[a].pc # "asleep"
    BY <1>3 DEF SummaryReturns
  <2> QED
    BY <2>1, GoesOn, CompletedMade
<1>4. CASE Answers(a)
  <2>1. PICK next \in {"prepare", "ending"} :
          Completed(a, [agent[a] EXCEPT !.pc = next, !.at = 0, !.resumes = 0])
    BY <1>4 DEF Answers
  <2> DEFINE r == [agent[a] EXCEPT !.pc = next, !.at = 0, !.resumes = 0]
  <2>2. r \in Agent
    BY <1>1, <1>2 DEF Agent, Places
  <2>3. Sound(r, now)
    BY <1>1, <1>4 DEF Sound, Agent, Answers
  <2> QED
    BY <2>1, <2>2, <2>3, CompletedMade
<1>5. CASE ReachesLimit(a)
  <2>1. PICK told \in {0, refusing[agent[a].using]} :
          Completed(a, [agent[a] EXCEPT !.pc = "limited", !.at = told])
    BY <1>5 DEF ReachesLimit
  <2> DEFINE r == [agent[a] EXCEPT !.pc = "limited", !.at = told]
  <2>2. refusing[agent[a].using] \in Instants /\ now < MaxTime
    <3>1. agent[a].using \in Providers /\ refusing[agent[a].using] > now
      BY <1>1, <1>5 DEF Agent, ReachesLimit
    <3> QED
      BY <1>1, <3>1, Bounds DEF Instants
  <2>3. r \in Agent
    BY <1>1, <1>2, <2>2 DEF Agent, Places
  <2>4. Sound(r, now)
    BY <1>1, <1>5, <2>2 DEF Sound, Agent, ReachesLimit
  <2> QED
    BY <2>1, <2>3, <2>4, CompletedMade
<1>6. CASE Faults(a)
  <2> DEFINE r == [agent[a] EXCEPT !.pc = "faulted"]
  <2>1. r \in Agent
    BY <1>1 DEF Agent, Places
  <2>2. Sound(r, now)
    BY <1>1, <1>6 DEF Sound, Agent, Faults
  <2> QED
    BY <1>6, <2>1, <2>2, CompletedMade DEF Faults
<1>7. CASE Refused(a)
  <2>1. PICK resumes \in {agent[a].resumes, 0} :
          Completed(a, [agent[a] EXCEPT !.pc = "ending", !.at = 0, !.resumes = resumes])
    BY <1>7 DEF Refused
  <2> QED
    BY <1>2, <1>7, <2>1, EndSound, CompletedMade DEF Refused
<1> QED
  BY <1>3, <1>4, <1>5, <1>6, <1>7

LEMMA LimitedUntilTyped ==
  ASSUME TypeOK, AgentsSound, NEW a \in Agents, agent[a].pc = "limited"
  PROVE  LimitedUntil(a) \in Instants
<1>1. agent[a] \in Agent /\ usage[agent[a].using] \in Usage /\ now \in 1 .. MaxTime
  BY AgentTyped DEF PlansTyped, Agent
<1>2. agent[a].at \in Instants /\ now + 1 \in Instants
  BY <1>1, AgentTyped, Bounds DEF Sound, Agent, Instants
<1> QED
  BY <1>1, <1>2, UntilTyped DEF LimitedUntil

LEMMA LimitMade ==
  ASSUME TypeOK, AgentsSound, NEW a \in Agents, LimitHandled(a)
  PROVE  (\E r : TurnMade(a, r)) /\ Remembers
<1>1. agent[a] \in Agent /\ Sound(agent[a], now) /\ PlansTyped /\ now \in 1 .. MaxTime
  BY AgentTyped
<1>2. agent[a].pc = "limited" /\ agent[a].using \in Providers /\ 0 \in Instants
  BY <1>1, Bounds DEF LimitHandled, Agent, Instants
<1>3. /\ \E r : r \in Agent /\ Sound(r, now) /\ agent' = [agent EXCEPT ![a] = r]
      /\ usage' \in [Providers -> Usage] /\ Remembers
  <2>1. CASE Stops(a, 0) /\ UNCHANGED usage
    BY <1>1, <1>2, <2>1, StopsMade, LimitsOrdered DEF PlansTyped
  <2>2. CASE MovesOn(a) /\ agent[a].moves < MaxMoves
    <3> DEFINE p == agent[a].using
               until == LimitedUntil(a)
               known == Marked(p, until)
               open == Open(a, p, known)
    <3>1. until \in Instants
      BY <1>2, LimitedUntilTyped
    <3>2. known \in [Providers -> Usage] /\ usage' = known /\ Remembers
      BY <1>1, <1>2, <2>2, <3>1, MarkedTyped DEF PlansTyped, MovesOn, Remembers
    <3>3. CASE \E next \in open \ {agent[a].model} :
                 Becomes(a, [agent[a] EXCEPT !.pc = "prepare", !.model = next, !.moves = @ + 1])
      <4>1. PICK next \in open :
              agent' = [agent EXCEPT ![a] = [agent[a] EXCEPT !.pc = "prepare", !.model = next,
                                                             !.moves = @ + 1]]
        BY <3>3 DEF Becomes
      <4> DEFINE r == [agent[a] EXCEPT !.pc = "prepare", !.model = next, !.moves = @ + 1]
      <4>2. next \in Providers
        BY Bounds DEF Open
      <4>3. agent[a].moves + 1 \in 0 .. MaxMoves
        BY <1>1, <2>2, Bounds DEF Agent
      <4>4. r \in Agent
        BY <1>1, <4>2, <4>3 DEF Agent, Places
      <4>5. Sound(r, now)
        BY <1>1, <1>2 DEF Sound, Agent
      <4> QED
        BY <3>2, <4>1, <4>4, <4>5
    <3>4. CASE Stops(a, ParkUntil(a, Soonest(a, known), until))
      <4>1. Soonest(a, known) \in Instants
        BY <1>1, <3>2, SoonestTyped
      <4>2. /\ ParkUntil(a, Soonest(a, known), until) \in Instants
            /\ ParkUntil(a, Soonest(a, known), until) # 0 => agent[a].resumes < MaxResumes
        BY <3>1, <4>1, ParkTyped
      <4> QED
        BY <1>2, <3>2, <3>4, <4>2, StopsMade
    <3> QED
      BY <2>2, <3>3, <3>4 DEF MovesOn
  <2>3. agent[a].moves \in Nat
    BY <1>1, Bounds DEF Agent
  <2> QED
    BY <2>1, <2>2, <2>3, Bounds DEF LimitHandled
<1> QED
  BY <1>1, <1>3, AgentTyped DEF LimitHandled, Else, PlansTyped, TurnMade

LEMMA FaultMade ==
  ASSUME TypeOK, AgentsSound, NEW a \in Agents, FaultHandled(a)
  PROVE  (\E r : TurnMade(a, r)) /\ Remembers
<1> DEFINE at == IF agent[a].cancelled \/ ~MayPark(a) THEN 0 ELSE now + 1
<1>1. agent[a] \in Agent /\ Sound(agent[a], now) /\ PlansTyped /\ now \in 1 .. MaxTime
  BY AgentTyped
<1>2. Stops(a, at) /\ UNCHANGED <<refusing, usage, kept, poll, calls, tokens, now, tick, events>>
  BY DEF FaultHandled, plans, Else
<1>3. agent[a].pc = "faulted" /\ now + 1 \in Instants /\ 0 \in Instants
  BY <1>1, Bounds DEF FaultHandled, Sound, Instants
<1>4. at \in Instants /\ (at # 0 => agent[a].resumes < MaxResumes)
  BY <1>3 DEF MayPark
<1>5. Remembers
  BY <1>1, <1>2, LimitsOrdered DEF PlansTyped
<1>6. \E r : r \in Agent /\ Sound(r, now) /\ agent' = [agent EXCEPT ![a] = r]
  BY <1>2, <1>3, <1>4, StopsMade
<1> QED
  BY <1>1, <1>2, <1>5, <1>6, AgentTyped DEF PlansTyped, TurnMade

LEMMA EndMade ==
  ASSUME TypeOK, AgentsSound, NEW a \in Agents, End(a)
  PROVE  (\E r : TurnMade(a, r)) /\ Remembers
<1> DEFINE r == [Aborted(a) EXCEPT !.resumeAt = agent[a].at]
<1>1. agent[a] \in Agent /\ Sound(agent[a], now) /\ PlansTyped
  BY AgentTyped
<1>2. 0 \in Instants /\ 0 \in 0 .. MaxMoves /\ First[a] \in Providers
  BY Bounds DEF Instants
<1>3. Aborted(a) \in Agent
  BY <1>1, <1>2 DEF Aborted, Agent, Places
<1>4. /\ r \in Agent /\ r.pc = "asleep" /\ r.resumeAt = agent[a].at
      /\ r.inbox = agent[a].inbox /\ r.resumes = agent[a].resumes
  BY <1>1, <1>3 DEF Agent, Aborted
<1>5. Sound(r, now)
  BY <1>1, <1>4 DEF Sound, End
<1>6. UNCHANGED <<refusing, usage, kept, poll, calls, tokens, now, tick, events>>
  BY DEF End, plans, Else
<1>7. Remembers
  BY <1>1, <1>6, LimitsOrdered DEF PlansTyped
<1> QED
  BY <1>1, <1>4, <1>5, <1>6, <1>7, AgentTyped DEF End, Becomes, PlansTyped, TurnMade

LEMMA TurnStepMade ==
  ASSUME TypeOK, AgentsSound, NEW a \in Agents, TurnStep(a)
  PROVE  (\E r : TurnMade(a, r)) /\ Remembers
BY BeginTurnMade, PrepareMade, ReserveMade, ReturnsMade, LimitMade, FaultMade, EndMade DEF TurnStep

\* A turn only empties its agent's inbox.
LEMMA NothingAdded ==
  ASSUME TypeOK, NEW a \in Agents, TurnStep(a)
  PROVE  agent'[a].inbox \subseteq agent[a].inbox
<1>1. agent[a] \in Agent /\ agent \in [Agents -> Agent]
  BY DEF TypeOK
<1> SUFFICES \E r : r.inbox \subseteq agent[a].inbox /\ agent' = [agent EXCEPT ![a] = r]
  BY <1>1
<1>2. CASE BeginTurn(a)
  BY <1>1, <1>2 DEF BeginTurn, Becomes, Agent
<1>3. CASE End(a)
  <2>1. [Aborted(a) EXCEPT !.resumeAt = agent[a].at].inbox = agent[a].inbox
    BY <1>1 DEF Aborted, Agent
  <2> QED
    BY <1>3, <2>1 DEF End, Becomes
<1>4. CASE Prepare(a)
  BY <1>1, <1>4 DEF Prepare, Ends, Becomes, Agent
<1>5. CASE ReserveSummary(a) \/ ReserveCall(a)
  BY <1>1, <1>5 DEF ReserveSummary, ReserveCall, Reserve, Ends, Becomes, Agent
<1>6. CASE SummaryReturns(a)
  BY <1>1, <1>6 DEF SummaryReturns, Completed, Becomes, Agent
<1>7. CASE Answers(a)
  BY <1>1, <1>7 DEF Answers, Completed, Becomes, Agent
<1>8. CASE ReachesLimit(a)
  BY <1>1, <1>8 DEF ReachesLimit, Completed, Becomes, Agent
<1>9. CASE Faults(a) \/ Refused(a)
  BY <1>1, <1>9 DEF Faults, Refused, Completed, Becomes, Agent
<1>10. CASE LimitHandled(a)
  BY <1>1, <1>10 DEF LimitHandled, MovesOn, Stops, Becomes, Agent
<1>11. CASE FaultHandled(a)
  BY <1>1, <1>11 DEF FaultHandled, Stops, Becomes, Agent
<1> QED
  BY <1>2, <1>3, <1>4, <1>5, <1>6, <1>7, <1>8, <1>9, <1>10, <1>11 DEF TurnStep

-----------------------------------------------------------------------------
(* Types, and who may resume                                               *)

\* One agent's record is replaced by a sound one.
LEMMA Replaced ==
  ASSUME agent \in [Agents -> Agent], AgentsSound, NEW a \in Agents,
         NEW r \in Agent, Sound(r, now), UNCHANGED now,
         agent' = [agent EXCEPT ![a] = r]
  PROVE  agent' \in [Agents -> Agent] /\ AgentsSound'
<1>1. agent' \in [Agents -> Agent]
  OBVIOUS
<1>2. \A b \in Agents : agent'[b] = IF b = a THEN r ELSE agent[b]
  OBVIOUS
<1>3. ASSUME NEW b \in Agents PROVE Sound(agent'[b], now')
  <2>1. Sound(IF b = a THEN r ELSE agent[b], now)
    BY DEF AgentsSound
  <2>2. now' = now
    OBVIOUS
  <2> QED
    BY <1>2, <2>1, <2>2
<1> QED
  BY <1>1, <1>3 DEF AgentsSound

LEMMA TurnKept ==
  ASSUME TypeOK, AgentsSound, TickPast, NEW a \in Agents, TurnStep(a)
  PROVE  TypeOK' /\ AgentsSound' /\ TickPast'
<1>1. PICK r : TurnMade(a, r)
  BY TurnStepMade
<1>2. agent' \in [Agents -> Agent] /\ AgentsSound'
  BY <1>1, Replaced DEF TypeOK, TurnMade
<1> QED
  BY <1>1, <1>2 DEF TypeOK, TickPast, TurnMade

LEMMA OwnerKept ==
  ASSUME TypeOK, AgentsSound, TickPast, NEW a \in Agents,
         Prompt(a) \/ Cancel(a) \/ \E p \in Providers : SetModel(a, p)
  PROVE  TypeOK' /\ AgentsSound' /\ TickPast'
<1>1. agent[a] \in Agent /\ Sound(agent[a], now)
  BY AgentTyped
<1>2. UNCHANGED <<now, refusing, usage, kept, poll, calls, tokens, tick>>
  BY DEF Prompt, Cancel, SetModel, plans
<1>3. events' \in 0 .. MaxEvents
  <2>1. Happens
    BY DEF Prompt, Cancel, SetModel
  <2>2. events \in 0 .. MaxEvents
    BY DEF TypeOK
  <2> QED
    BY <2>1, <2>2, Bounds DEF Happens
<1>4. \E r : r \in Agent /\ Sound(r, now) /\ agent' = [agent EXCEPT ![a] = r]
  <2>1. CASE Prompt(a)
    <3> DEFINE r == [agent[a] EXCEPT !.inbox = @ \cup {"prompt"}]
    <3>1. r \in Agent
      BY <1>1 DEF Agent
    <3>2. Sound(r, now)
      BY <1>1 DEF Sound, Agent
    <3> QED
      BY <2>1, <3>1, <3>2 DEF Prompt, Becomes
  <2>2. CASE Cancel(a)
    <3> DEFINE r == [agent[a] EXCEPT !.cancelled = agent[a].pc # "asleep", !.resumeAt = 0]
    <3>0. 0 \in Instants
      BY Bounds DEF Instants
    <3>1. r \in Agent
      BY <1>1, <3>0 DEF Agent
    <3>2. Sound(r, now)
      BY <1>1 DEF Sound, Agent
    <3> QED
      BY <2>2, <3>1, <3>2 DEF Cancel, Becomes
  <2>3. CASE \E p \in Providers : SetModel(a, p)
    <3>1. PICK p \in Providers : agent' = [agent EXCEPT ![a] = [agent[a] EXCEPT !.model = p]]
      BY <2>3 DEF SetModel, Becomes
    <3>2. [agent[a] EXCEPT !.model = p] \in Agent
      BY <1>1 DEF Agent
    <3>3. Sound([agent[a] EXCEPT !.model = p], now)
      BY <1>1 DEF Sound, Agent
    <3> QED
      BY <3>1, <3>2, <3>3
  <2> QED
    BY <2>1, <2>2, <2>3
<1>5. agent' \in [Agents -> Agent] /\ AgentsSound'
  BY <1>2, <1>4, Replaced DEF TypeOK
<1> QED
  BY <1>2, <1>3, <1>5 DEF TypeOK, TickPast

\* The agents are left alone.
LEMMA AgentsAlone ==
  ASSUME AgentsSound, UNCHANGED <<agent, now>>
  PROVE  AgentsSound'
<1>1. ASSUME NEW b \in Agents PROVE Sound(agent'[b], now')
  <2>1. Sound(agent[b], now) /\ agent' = agent /\ now' = now
    BY DEF AgentsSound
  <2> QED
    BY <2>1
<1> QED
  BY <1>1 DEF AgentsSound

LEMMA PlansKept ==
  ASSUME TypeOK, AgentsSound, TickPast, NEW p \in Providers,
         PollReads(p) \/ PollReturns(p) \/ Exhaust(p)
  PROVE  TypeOK' /\ AgentsSound' /\ TickPast'
<1>1. PlansTyped /\ Reading(p) \in 0 .. Never /\ refusing \in [Providers -> Instants]
  BY ReadingTyped DEF TypeOK, PlansTyped
<1>2. UNCHANGED <<now, agent, calls, tokens, tick>>
  BY DEF PollReads, PollReturns, Exhaust
<1>3. AgentsSound'
  BY <1>2, AgentsAlone
<1>4. CASE PollReads(p)
  <2>1. poll' \in [Providers -> [at : {"none", "provider", "tracker"}, full : 0 .. Never]]
    BY <1>1, <1>4 DEF PollReads, PlansTyped
  <2>2. UNCHANGED <<refusing, usage, kept, events>>
    BY <1>4 DEF PollReads
  <2> QED
    BY <1>2, <1>3, <2>1, <2>2 DEF TypeOK, TickPast
<1>5. CASE PollReturns(p)
  <2>1. poll' \in [Providers -> [at : {"none", "provider", "tracker"}, full : 0 .. Never]]
    BY <1>1, <1>5, Bounds DEF PollReturns, PlansTyped, NoPoll
  <2>2. poll[p].full \in 0 .. Never
    BY <1>1 DEF PlansTyped
  <2>3. usage' \in [Providers -> Usage] /\ kept' \in [Providers -> Usage]
    <3>1. CASE Observe(p, poll[p].full)
      BY <1>1, <2>2, <3>1, ObserveTyped
    <3>2. CASE UNCHANGED <<usage, kept>>
      BY <1>1, <3>2 DEF PlansTyped
    <3> QED
      BY <1>5, <3>1, <3>2 DEF PollReturns
  <2>4. UNCHANGED <<refusing, events>>
    BY <1>5 DEF PollReturns
  <2> QED
    BY <1>2, <1>3, <2>1, <2>3, <2>4 DEF TypeOK, TickPast
<1>6. CASE Exhaust(p)
  <2>1. UNCHANGED <<usage, kept, poll>> /\ events' \in 0 .. MaxEvents
    BY <1>6, Bounds DEF Exhaust, Happens, TypeOK
  <2>2. now \in Nat
    BY DEF TypeOK
  <2>3. now + 1 .. MaxTime \subseteq Instants
    BY <2>2, Bounds DEF Instants
  <2>4. refusing' \in [Providers -> Instants]
    BY <1>1, <1>6, <2>3 DEF Exhaust
  <2> QED
    BY <1>2, <1>3, <2>1, <2>4 DEF TypeOK, TickPast
<1> QED
  BY <1>4, <1>5, <1>6

\* Whoever is resumed was parked, and could be resumed once more.
LEMMA ResumedSound ==
  ASSUME TypeOK, AgentsSound, NEW a \in Agents, Parked(a, tick.at)
  PROVE  LET r == [agent[a] EXCEPT !.inbox = @ \cup {"resume"}, !.resumes = @ + 1]
         IN  r \in Agent /\ Sound(r, now)
<1> DEFINE r == [agent[a] EXCEPT !.inbox = @ \cup {"resume"}, !.resumes = @ + 1]
<1>1. agent[a] \in Agent /\ Sound(agent[a], now)
  BY AgentTyped
<1>2. agent[a].pc = "asleep" /\ agent[a].inbox = {} /\ agent[a].resumeAt # 0
  BY DEF Parked
<1>3. agent[a].resumes < MaxResumes /\ agent[a].resumes \in Nat
  BY <1>1, <1>2, Bounds DEF Sound, Agent
<1>4. agent[a].resumes + 1 \in 0 .. MaxResumes /\ agent[a].resumes + 1 > 0
  BY <1>3, Bounds
<1>5. r \in Agent
  BY <1>1, <1>4 DEF Agent
<1>6. Sound(r, now)
  BY <1>1, <1>2, <1>4 DEF Sound, Agent
<1> QED
  BY <1>5, <1>6

LEMMA TickKept ==
  ASSUME TypeOK, AgentsSound, TickPast, TickReads \/ TickCommits
  PROVE  TypeOK' /\ AgentsSound' /\ TickPast'
<1>1. UNCHANGED <<now, refusing, usage, kept, poll, calls, tokens, events>>
  BY DEF TickReads, TickCommits, plans
<1>2. now \in 1 .. MaxTime
  BY DEF TypeOK
<1>3. CASE TickReads
  <2>1. UNCHANGED agent /\ tick' = [at |-> now, limited |-> {p \in Providers : Limited(usage[p])}]
    BY <1>3 DEF TickReads
  <2>2. tick' \in [at : Instants, limited : SUBSET Providers] /\ tick'.at <= now
    <3>1. now \in Instants /\ now <= now
      BY <1>2, Bounds DEF Instants
    <3>2. PICK full \in SUBSET Providers : tick' = [at |-> now, limited |-> full]
      BY <2>1
    <3>3. tick' \in [at : Instants, limited : SUBSET Providers]
      BY <3>1, <3>2
    <3>4. tick'.at <= now
      BY <3>1, <3>2
    <3> QED
      BY <3>3, <3>4
  <2> QED
    BY <1>1, <2>1, <2>2, AgentsAlone DEF TypeOK, TickPast
<1>4. CASE TickCommits
  <2>1. tick' \in [at : Instants, limited : SUBSET Providers] /\ tick'.at <= now
    <3>1. tick' = [at |-> 0, limited |-> {}]
      BY <1>4 DEF TickCommits, Idle
    <3>2. 0 \in Instants /\ 0 <= now
      BY <1>2, Bounds DEF Instants
    <3> QED
      BY <3>1, <3>2
  <2>2. ASSUME NEW a \in Agents
        PROVE  agent'[a] \in Agent /\ Sound(agent'[a], now)
    <3>1. agent[a] \in Agent /\ Sound(agent[a], now)
      BY AgentTyped
    <3>2. CASE a \in Resumed
      <4>1. agent'[a] = [agent[a] EXCEPT !.inbox = @ \cup {"resume"}, !.resumes = @ + 1]
        BY <1>4, <3>2 DEF TickCommits
      <4>2. Parked(a, tick.at)
        BY <3>2 DEF Resumed
      <4> QED
        BY <4>1, <4>2, ResumedSound
    <3>3. CASE a \notin Resumed
      BY <1>4, <3>1, <3>3 DEF TickCommits
    <3> QED
      BY <3>2, <3>3
  <2>3. agent' \in [Agents -> Agent]
    <3>1. agent' = [a \in Agents |-> agent'[a]]
      BY <1>4 DEF TickCommits
    <3> QED
      BY <2>2, <3>1
  <2>4. AgentsSound'
    <3>1. now' = now
      BY <1>1
    <3> QED
      BY <2>2, <3>1 DEF AgentsSound
  <2> QED
    BY <1>1, <2>1, <2>3, <2>4 DEF TypeOK, TickPast
<1> QED
  BY <1>3, <1>4

LEMMA ClockKept ==
  ASSUME TypeOK, AgentsSound, TickPast, Clock
  PROVE  TypeOK' /\ AgentsSound' /\ TickPast'
<1>1. UNCHANGED <<refusing, usage, kept, poll, agent, calls, tokens, tick, events>>
  BY DEF Clock, plans
<1>2. now \in 1 .. MaxTime /\ now' = now + 1 /\ now' \in 1 .. MaxTime /\ tick.at \in Nat
  BY Bounds DEF Clock, TypeOK, Instants
<1>3. ASSUME NEW a \in Agents PROVE Sound(agent'[a], now')
  <2>1. agent'[a] = agent[a] /\ agent[a].pc \notin {"limited", "faulted"} /\ Sound(agent[a], now)
    BY <1>1 DEF Clock, AgentsSound
  <2> QED
    BY <2>1 DEF Sound
<1> QED
  BY <1>1, <1>2, <1>3 DEF TypeOK, AgentsSound, TickPast

LEMMA RestartKept ==
  ASSUME TypeOK, AgentsSound, TickPast, Restart
  PROVE  TypeOK' /\ AgentsSound' /\ TickPast'
<1>1. UNCHANGED <<now, refusing, kept, calls, tokens>> /\ now \in 1 .. MaxTime
  BY DEF Restart, TypeOK
<1>2. usage' \in [Providers -> Usage] /\ kept \in [Providers -> Usage]
  BY DEF Restart, TypeOK
<1>3. poll' \in [Providers -> [at : {"none", "provider", "tracker"}, full : 0 .. Never]]
  <2>1. DuePoll \in [at : {"none", "provider", "tracker"}, full : 0 .. Never]
    BY Bounds DEF DuePoll
  <2>2. NoPoll \in [at : {"none", "provider", "tracker"}, full : 0 .. Never]
    BY Bounds DEF NoPoll
  <2> QED
    BY <2>1, <2>2 DEF Restart
<1>4. tick' \in [at : Instants, limited : SUBSET Providers] /\ tick'.at <= now
  BY <1>1, Bounds DEF Restart, Idle, Instants
<1>5. events' \in 0 .. MaxEvents
  BY Bounds DEF Restart, Happens, TypeOK
<1>6. ASSUME NEW a \in Agents
      PROVE  Aborted(a) \in Agent /\ Sound(Aborted(a), now)
  <2>1. agent[a] \in Agent /\ Sound(agent[a], now)
    BY AgentTyped
  <2>2. 0 \in Instants /\ 0 \in 0 .. MaxMoves /\ First[a] \in Providers
    BY Bounds DEF Instants
  <2>3. Aborted(a) \in Agent
    BY <2>1, <2>2 DEF Aborted, Agent, Places
  <2>4. Sound(Aborted(a), now)
    BY <2>1 DEF Sound, Aborted, Agent
  <2> QED
    BY <2>3, <2>4
<1>7. agent' = [a \in Agents |-> Aborted(a)] /\ now' = now
  BY <1>1 DEF Restart
<1>8. agent' \in [Agents -> Agent] /\ AgentsSound'
  BY <1>6, <1>7 DEF AgentsSound
<1> QED
  BY <1>1, <1>2, <1>3, <1>4, <1>5, <1>8 DEF TypeOK, TickPast

LEMMA StepKept ==
  ASSUME TypeOK, AgentsSound, TickPast, [Next]_vars
  PROVE  TypeOK' /\ AgentsSound' /\ TickPast'
<1>1. CASE UNCHANGED vars
  <2>1. UNCHANGED <<now, refusing, usage, kept, poll, agent, calls, tokens, tick, events>>
    BY <1>1 DEF vars
  <2> QED
    BY <2>1, AgentsAlone DEF TypeOK, TickPast
<1> QED
  BY <1>1, TurnKept, OwnerKept, PlansKept, TickKept, ClockKept, RestartKept DEF Next

LEMMA InitSound ==
  ASSUME Init
  PROVE  TypeOK /\ AgentsSound /\ TickPast
<1>1. 0 \in Instants /\ 0 \in 0 .. Never /\ 0 \in 0 .. MaxMoves /\ 0 \in 0 .. MaxResumes
  BY Bounds DEF Instants
<1>2. [limited |-> 0, full |-> 0] \in Usage /\ Idle \in [at : Instants, limited : SUBSET Providers]
  BY <1>1 DEF Usage, Idle
<1>3. ASSUME NEW a \in Agents
      PROVE  agent[a] \in Agent /\ Sound(agent[a], now)
  <2>1. agent[a] = [pc |-> "asleep", model |-> First[a], using |-> First[a], moves |-> 0, at |-> 0,
                    cancelled |-> FALSE, inbox |-> {}, resumeAt |-> 0, resumes |-> 0]
    BY DEF Init
  <2>2. First[a] \in Providers
    BY Bounds
  <2>3. agent[a] \in Agent
    BY <1>1, <2>1, <2>2 DEF Agent, Places
  <2>4. Sound(agent[a], now)
    BY <2>1 DEF Sound
  <2> QED
    BY <2>3, <2>4
<1>4. agent \in [Agents -> Agent]
  BY <1>3 DEF Init
<1>5. NoPoll \in [at : {"none", "provider", "tracker"}, full : 0 .. Never]
  BY <1>1 DEF NoPoll
<1>6. tick.at <= now
  BY DEF Init, Idle
<1> QED
  BY <1>1, <1>2, <1>3, <1>4, <1>5, <1>6, Bounds DEF Init, TypeOK, AgentsSound, TickPast

-----------------------------------------------------------------------------
(* The budget                                                              *)

\* An agent makes one call at a time, so no more calls are under way than
\* there are agents.
LEMMA Underway ==
  /\ IsFiniteSet(Outstanding) /\ Cardinality(Outstanding) \in Nat
  /\ Cardinality(Agents) \in Nat /\ Cardinality(Outstanding) <= Cardinality(Agents)
<1>1. Outstanding \in SUBSET Agents
  BY DEF Outstanding
<1> QED
  BY <1>1, Bounds, FS_Subset, FS_CardinalityType

\* What a step that reserves nothing leaves of the budget.
LEMMA FewerCalls ==
  ASSUME TypeOK, BudgetKept, UNCHANGED <<calls, tokens>>, Outstanding' \in SUBSET Outstanding
  PROVE  BudgetKept'
<1>1. /\ Cardinality(Outstanding') <= Cardinality(Outstanding)
      /\ Cardinality(Outstanding') \in Nat /\ Cardinality(Outstanding) \in Nat
      /\ Cardinality(Agents) \in Nat
  BY Underway, FS_Subset, FS_CardinalityType
<1>2. ASSUME MaxTokens > 0
      PROVE  tokens' + Cardinality(Outstanding') <= MaxTokens - 1 + Cardinality(Agents)
  <2>1. tokens + Cardinality(Outstanding) <= MaxTokens - 1 + Cardinality(Agents)
    BY <1>2 DEF BudgetKept
  <2>2. tokens \in Nat /\ tokens' = tokens
    BY DEF TypeOK
  <2> QED
    BY <1>1, <2>1, <2>2, Bounds
<1>3. MaxCalls > 0 => calls' <= MaxCalls
  BY DEF BudgetKept
<1> QED
  BY <1>2, <1>3 DEF BudgetKept

\* The agents whose calls are under way after one's record was replaced.
LEMMA OutstandingAfter ==
  ASSUME TypeOK, NEW a \in Agents, NEW r, agent' = [agent EXCEPT ![a] = r]
  PROVE  Outstanding' = IF r.pc \in Calling THEN Outstanding \cup {a} ELSE Outstanding \ {a}
<1>1. ASSUME NEW b \in Agents
      PROVE  agent'[b] = IF b = a THEN r ELSE agent[b]
  BY DEF TypeOK
<1>2. Outstanding' = {b \in Agents : agent'[b].pc \in Calling}
  BY DEF Outstanding
<1> QED
  BY <1>1, <1>2 DEF Outstanding

\* A reserved call was within the budget when it was reserved.
LEMMA ReserveBudget ==
  ASSUME TypeOK, BudgetKept, NEW a \in Agents, ReserveSummary(a) \/ ReserveCall(a)
  PROVE  BudgetKept'
<1>1. agent[a].pc \notin Calling
  BY DEF ReserveSummary, ReserveCall, Calling
<1>2. calls \in Nat /\ tokens \in Nat /\ UNCHANGED tokens
  BY DEF TypeOK, ReserveSummary, ReserveCall
<1>3. CASE UNCHANGED calls
  <2>1. ~(calls' = calls + 1) /\ agent[a] \in Agent
    BY <1>2, <1>3 DEF TypeOK
  <2>2. PICK r : agent' = [agent EXCEPT ![a] = r] /\ r.pc \in {"reserve", "ending"}
    <3>1. CASE ReserveSummary(a)
      <4>1. Becomes(a, [agent[a] EXCEPT !.pc = "reserve"])
        BY <2>1, <3>1 DEF ReserveSummary, Reserve
      <4>2. [agent[a] EXCEPT !.pc = "reserve"].pc = "reserve"
        BY <2>1 DEF Agent
      <4> QED
        BY <4>1, <4>2 DEF Becomes
    <3>2. CASE ReserveCall(a)
      <4>1. Ends(a, 0)
        BY <2>1, <3>2 DEF ReserveCall, Reserve
      <4>2. [agent[a] EXCEPT !.pc = "ending", !.at = 0].pc = "ending"
        BY <2>1 DEF Agent
      <4> QED
        BY <4>1, <4>2 DEF Ends, Becomes
    <3> QED
      BY <3>1, <3>2
  <2>3. Outstanding' = Outstanding \ {a}
    BY <2>2, OutstandingAfter DEF Calling
  <2> QED
    BY <1>2, <1>3, <2>3, FewerCalls
<1>4. CASE calls' # calls
  <2>1. ~Spent /\ calls' = calls + 1
    BY <1>4 DEF ReserveSummary, ReserveCall, Reserve
  <2>2. MaxCalls > 0 => calls' <= MaxCalls
    BY <1>2, <2>1, Bounds DEF Spent
  <2>3. MaxTokens > 0 => tokens <= MaxTokens - 1
    BY <1>2, <2>1, Bounds DEF Spent
  <2>4. Outstanding' \in SUBSET Agents
    BY DEF Outstanding
  <2>5. /\ Cardinality(Outstanding') <= Cardinality(Agents)
        /\ Cardinality(Outstanding') \in Nat /\ Cardinality(Agents) \in Nat
    BY <2>4, Bounds, FS_Subset, FS_CardinalityType
  <2> QED
    BY <1>2, <2>2, <2>3, <2>5, Bounds DEF BudgetKept
<1> QED
  BY <1>3, <1>4

\* A call that returns counts no more than what was reserved for it.
LEMMA ReturnBudget ==
  ASSUME TypeOK, BudgetKept, NEW a \in Agents, agent[a].pc \in Calling,
         NEW r, r.pc \notin Calling, Completed(a, r)
  PROVE  BudgetKept'
<1>1. tokens \in Nat /\ tokens' \in {tokens, tokens + 1} /\ UNCHANGED calls
  BY DEF Completed, TypeOK
<1>2. Outstanding' = Outstanding \ {a} /\ a \in Outstanding
  BY OutstandingAfter DEF Completed, Becomes, Outstanding
<1>3. Cardinality(Outstanding') = Cardinality(Outstanding) - 1
  BY <1>2, Underway, FS_RemoveElement
<1>4. Cardinality(Outstanding) \in Nat /\ Cardinality(Agents) \in Nat
  BY Underway
<1>5. ASSUME MaxTokens > 0
      PROVE  tokens' + Cardinality(Outstanding') <= MaxTokens - 1 + Cardinality(Agents)
  <2>1. tokens + Cardinality(Outstanding) <= MaxTokens - 1 + Cardinality(Agents)
    BY <1>5 DEF BudgetKept
  <2> QED
    BY <1>1, <1>3, <1>4, <2>1, Bounds
<1> QED
  BY <1>1, <1>5 DEF BudgetKept

\* A step in which an agent makes no call.
LEMMA QuietBudget ==
  ASSUME TypeOK, BudgetKept, NEW a \in Agents, UNCHANGED <<calls, tokens>>,
         NEW r, r.pc \notin Calling \/ r.pc = agent[a].pc, agent' = [agent EXCEPT ![a] = r]
  PROVE  BudgetKept'
<1>1. Outstanding' = IF r.pc \in Calling THEN Outstanding \cup {a} ELSE Outstanding \ {a}
  BY OutstandingAfter
<1>2. r.pc \in Calling => a \in Outstanding
  BY DEF Outstanding
<1> QED
  BY <1>1, <1>2, FewerCalls

LEMMA TurnBudget ==
  ASSUME TypeOK, BudgetKept, NEW a \in Agents, TurnStep(a)
  PROVE  BudgetKept'
<1>1. agent[a] \in Agent
  BY DEF TypeOK
<1>2. CASE ReserveSummary(a) \/ ReserveCall(a)
  BY <1>2, ReserveBudget
<1>3. CASE SummaryReturns(a) \/ Answers(a) \/ ReachesLimit(a) \/ Faults(a) \/ Refused(a)
  <2>1. agent[a].pc \in Calling
    BY <1>3 DEF SummaryReturns, Answers, ReachesLimit, Faults, Refused, Calling
  <2>2. \E r : r.pc \notin Calling /\ Completed(a, r)
    <3>1. CASE SummaryReturns(a)
      BY <1>1, <3>1 DEF SummaryReturns, Calling, Agent
    <3>2. CASE Answers(a)
      BY <1>1, <3>2 DEF Answers, Calling, Agent
    <3>3. CASE ReachesLimit(a)
      BY <1>1, <3>3 DEF ReachesLimit, Calling, Agent
    <3>4. CASE Faults(a)
      BY <1>1, <3>4 DEF Faults, Calling, Agent
    <3>5. CASE Refused(a)
      BY <1>1, <3>5 DEF Refused, Calling, Agent
    <3> QED
      BY <1>3, <3>1, <3>2, <3>3, <3>4, <3>5
  <2> QED
    BY <2>1, <2>2, ReturnBudget
<1>4. CASE BeginTurn(a) \/ Prepare(a) \/ LimitHandled(a) \/ FaultHandled(a) \/ End(a)
  <2>1. UNCHANGED <<calls, tokens>>
    BY <1>4 DEF BeginTurn, Prepare, LimitHandled, FaultHandled, End
  <2>2. \E r : r.pc \notin Calling /\ agent' = [agent EXCEPT ![a] = r]
    <3>1. CASE BeginTurn(a)
      BY <1>1, <3>1 DEF BeginTurn, Becomes, Calling, Agent
    <3>2. CASE Prepare(a)
      BY <1>1, <3>2 DEF Prepare, Ends, Becomes, Calling, Agent
    <3>3. CASE LimitHandled(a)
      BY <1>1, <3>3 DEF LimitHandled, MovesOn, Stops, Becomes, Calling, Agent
    <3>4. CASE FaultHandled(a)
      BY <1>1, <3>4 DEF FaultHandled, Stops, Becomes, Calling, Agent
    <3>5. CASE End(a)
      <4>1. [Aborted(a) EXCEPT !.resumeAt = agent[a].at].pc = "asleep"
        BY <1>1 DEF Aborted, Agent
      <4> QED
        BY <3>5, <4>1 DEF End, Becomes, Calling
    <3> QED
      BY <1>4, <3>1, <3>2, <3>3, <3>4, <3>5
  <2> QED
    BY <2>1, <2>2, QuietBudget
<1> QED
  BY <1>2, <1>3, <1>4 DEF TurnStep

LEMMA StepBudget ==
  ASSUME TypeOK, BudgetKept, [Next]_vars
  PROVE  BudgetKept'
<1>1. ASSUME NEW a \in Agents, Prompt(a) \/ Cancel(a) \/ \E p \in Providers : SetModel(a, p)
      PROVE  BudgetKept'
  <2>1. agent[a] \in Agent
    BY DEF TypeOK
  <2>2. \E r : r.pc = agent[a].pc /\ agent' = [agent EXCEPT ![a] = r]
    BY <1>1, <2>1 DEF Prompt, Cancel, SetModel, Becomes, Agent
  <2> QED
    BY <1>1, <2>2, QuietBudget DEF Prompt, Cancel, SetModel
<1>2. CASE UNCHANGED <<agent, calls, tokens>>
  <2>1. Outstanding' = Outstanding
    BY <1>2 DEF Outstanding
  <2> QED
    BY <1>2, <2>1, FewerCalls
<1>3. CASE TickCommits
  <2>1. ASSUME NEW a \in Agents PROVE agent'[a].pc = agent[a].pc
    <3>1. agent[a] \in Agent
      BY DEF TypeOK
    <3> QED
      BY <1>3, <3>1 DEF TickCommits, Agent
  <2>2. Outstanding' = Outstanding
    BY <2>1 DEF Outstanding
  <2> QED
    BY <1>3, <2>2, FewerCalls DEF TickCommits
<1>4. CASE Restart
  <2>1. ASSUME NEW a \in Agents PROVE agent'[a].pc = "asleep"
    <3>1. agent[a] \in Agent
      BY DEF TypeOK
    <3> QED
      BY <1>4, <3>1 DEF Restart, Aborted, Agent
  <2>2. Outstanding' = {}
    BY <2>1 DEF Outstanding, Calling
  <2> QED
    BY <1>4, <2>2, FewerCalls DEF Restart
<1>5. CASE (\E p \in Providers : PollReads(p) \/ PollReturns(p) \/ Exhaust(p)) \/ TickReads \/ Clock
  BY <1>2, <1>5 DEF PollReads, PollReturns, Exhaust, TickReads, Clock
<1>6. CASE UNCHANGED vars
  BY <1>2, <1>6 DEF vars
<1> QED
  BY <1>1, <1>3, <1>4, <1>5, <1>6, TurnBudget DEF Next

LEMMA InitBudget ==
  ASSUME Init
  PROVE  BudgetKept
<1>1. Outstanding = {}
  BY DEF Init, Outstanding, Calling
<1> QED
  BY <1>1, Underway, FS_EmptySet, Bounds DEF Init, BudgetKept

-----------------------------------------------------------------------------
(* Theorems                                                                *)

LEMMA Inductive == Spec => []IInv
<1>1. Init => IInv
  BY InitSound, InitBudget DEF IInv
<1>2. IInv /\ [Next]_vars => IInv'
  BY StepKept, StepBudget DEF IInv
<1> QED
  BY <1>1, <1>2, PTL DEF Spec

\* The state of calls, plans and agents is of its types: a turn moves at most
\* MAX_MOVES times, and parks for an instant that comes.
THEOREM TypeCorrect == Spec => []TypeOK
<1>1. IInv => TypeOK
  BY DEF IInv
<1> QED
  BY <1>1, Inductive, PTL

\* However many agents share a channel's budget, its calls are never exceeded
\* and its tokens by no more than the calls under way (journal.rs:289-344); and
\* nobody resumes by itself for ever (pick.rs:389-408).
THEOREM SpendingCorrect == Spec => []SpendingBounded
<1>1. IInv => SpendingBounded
  <2>1. AgentsSound => ResumesBounded
    BY DEF AgentsSound, Sound, ResumesBounded, MayPark
  <2> QED
    BY <2>1 DEF IInv, SpendingBounded
<1> QED
  BY <1>1, Inductive, PTL

\* Nobody is told to carry on but who sleeps, has no message and whose time
\* has come (settings.rs:417-452); and a limit that a provider told us of is
\* remembered until it is over or the daemon restarts (registry.rs:312-342).
THEOREM LimitsCorrect == Spec => LimitsAreTrue
<1> DEFINE Resume(a) == "resume" \in agent'[a].inbox \ agent[a].inbox =>
                          /\ agent[a].inbox = {} /\ agent[a].pc = "asleep"
                          /\ agent[a].resumeAt \in 1 .. now
           Remember(p) == usage[p].limited > now =>
                            \/ usage'[p].limited >= usage[p].limited
                            \/ usage' = kept /\ events' > events
<1>1. ASSUME IInv, [Next]_vars, NEW a \in Agents
      PROVE  Resume(a)
  <2>1. TypeOK /\ AgentsSound /\ TickPast /\ agent[a] \in Agent
    BY <1>1 DEF IInv, TypeOK
  <2>2. CASE TickCommits
    <3>1. a \notin Resumed => agent'[a] = agent[a]
      BY <2>1, <2>2 DEF TickCommits
    <3>2. a \in Resumed => Parked(a, tick.at)
      BY DEF Resumed
    <3>3. tick.at \in Nat /\ now \in Nat /\ tick.at <= now
      BY <2>1, Bounds DEF TypeOK, TickPast, Instants
    <3>4. Parked(a, tick.at) => /\ agent[a].inbox = {} /\ agent[a].pc = "asleep"
                                /\ agent[a].resumeAt \in 1 .. now
      BY <3>3 DEF Parked
    <3> QED
      BY <3>1, <3>2, <3>4
  <2>3. CASE \E b \in Agents : TurnStep(b)
    <3>0. PICK b \in Agents : TurnStep(b)
      BY <2>3
    <3>1. PICK r : TurnMade(b, r)
      BY <2>1, <3>0, TurnStepMade
    <3>2. CASE a = b
      BY <2>1, <3>0, <3>2, NothingAdded
    <3>3. CASE a # b
      BY <2>1, <3>1, <3>3 DEF TurnMade, TypeOK
    <3> QED
      BY <3>2, <3>3
  <2>4. CASE \E b \in Agents : Prompt(b) \/ Cancel(b) \/ \E p \in Providers : SetModel(b, p)
    <3>1. PICK b \in Agents : Prompt(b) \/ Cancel(b) \/ \E p \in Providers : SetModel(b, p)
      BY <2>4
    <3>2. agent[b] \in Agent /\ agent \in [Agents -> Agent]
      BY <2>1 DEF TypeOK
    <3>3. PICK r : /\ r.inbox \subseteq agent[b].inbox \cup {"prompt"}
                   /\ agent' = [agent EXCEPT ![b] = r]
      <4>1. CASE Prompt(b)
        BY <3>2, <4>1 DEF Prompt, Becomes, Agent
      <4>2. CASE Cancel(b)
        BY <3>2, <4>2 DEF Cancel, Becomes, Agent
      <4>3. CASE \E p \in Providers : SetModel(b, p)
        BY <3>2, <4>3 DEF SetModel, Becomes, Agent
      <4> QED
        BY <3>1, <4>1, <4>2, <4>3
    <3>4. "resume" \notin agent'[a].inbox \ agent[a].inbox
      <4>1. CASE a = b
        BY <3>2, <3>3, <4>1
      <4>2. CASE a # b
        BY <3>2, <3>3, <4>2
      <4> QED
        BY <4>1, <4>2
    <3> QED
      BY <3>4
  <2>5. CASE UNCHANGED agent
    BY <2>5
  <2>6. CASE Restart
    BY <2>1, <2>6 DEF Restart, Aborted, Agent
  <2>7. CASE (\E p \in Providers : PollReads(p) \/ PollReturns(p) \/ Exhaust(p)) \/ TickReads \/ Clock
    BY <2>5, <2>7 DEF PollReads, PollReturns, Exhaust, TickReads, Clock
  <2>8. CASE UNCHANGED vars
    BY <2>5, <2>8 DEF vars
  <2> HIDE DEF Resume
  <2> QED
    BY <1>1, <2>2, <2>3, <2>4, <2>6, <2>7, <2>8 DEF Next
<1>2. ASSUME IInv, [Next]_vars, NEW p \in Providers
      PROVE  Remember(p)
  <2>1. TypeOK /\ AgentsSound /\ PlansTyped
    BY <1>2 DEF IInv, TypeOK, PlansTyped
  <2>2. CASE Remembers
    BY <2>2 DEF Remembers
  <2>3. CASE UNCHANGED usage
    BY <2>1, <2>2, <2>3, LimitsOrdered DEF PlansTyped
  <2>4. CASE \E q \in Providers : PollReturns(q)
    <3>1. PICK q \in Providers : PollReturns(q)
      BY <2>4
    <3>2. poll[q].full \in 0 .. Never
      BY <2>1 DEF PlansTyped
    <3>3. CASE Observe(q, poll[q].full)
      <4>1. usage'[p].limited = usage[p].limited
        BY <2>1, <3>2, <3>3, ObserveTyped
      <4>2. usage[p].limited \in Nat
        BY <2>1, Bounds DEF PlansTyped, Usage, Instants
      <4> QED
        BY <4>1, <4>2
    <3> QED
      BY <2>3, <3>1, <3>3 DEF PollReturns
  <2>5. CASE Restart
    <3>1. events \in Nat /\ events' = events + 1 /\ usage' = kept
      BY <2>1, <2>5, Bounds DEF Restart, Happens, TypeOK
    <3> QED
      BY <3>1
  <2>6. CASE \E b \in Agents : TurnStep(b)
    BY <2>1, <2>2, <2>6, TurnStepMade
  <2> QED
    BY <1>2, <2>3, <2>4, <2>5, <2>6
    DEF Next, vars, plans, Prompt, Cancel, SetModel, PollReads, Exhaust, TickReads, TickCommits, Clock
<1>3. IInv /\ [Next]_vars => [\A a \in Agents : Resume(a)]_vars /\ [\A p \in Providers : Remember(p)]_vars
  BY <1>1, <1>2
<1> QED
  BY <1>3, Inductive, PTL DEF Spec, LimitsAreTrue, ResumeIsTrue, LimitRemembered

-----------------------------------------------------------------------------
(* The Discord bridge: what it is always in (BridgeInv)                    *)

CardRecord == [of : Prompts, text : Texts]
EntryRecord == [kind : EventKinds, of : Subjects]
JobKinds == {"none", "snapshot", "event", "notice", "message", "click", "tick"}
JobStages == {"none", "list", "settle", "show", "reply", "say", "finish", "post", "accepted"}
JobRecord == [kind : JobKinds, of : Subjects, seq : Nat, stage : JobStages,
              listed : SUBSET Prompts, todo : SUBSET Prompts]

Asked(p) == prompt[p] # "unasked"
Past(p) == prompt[p] \notin {"unasked", "pending"}
IsRequest(n, p) == n \in 1 .. Len(log) /\ log[n] = [kind |-> "requested", of |-> p]
IsResult(n, p) == n \in 1 .. Len(log) /\ log[n] = [kind |-> "resolved", of |-> p]

\* A work of the link that is up; an event that it delivered; an event that it
\* delivered or will deliver.
Up(i, kind) == i \in 1 .. Len(queue) /\ queue[i].live /\ queue[i].kind = kind
Delivered(n) == \E i \in 1 .. Len(queue) : Up(i, "event") /\ queue[i].seq = n
Coming(n) == link.next <= n \/ Delivered(n)
Subscribing == link.phase \in {"binding", "bound", "ready"}
Finishing(p) == job.stage = "finish" /\ job.of = p
Syncs == job.stage \in {"settle", "show"}

Bounded == cursor <= Len(log) /\ worker.seq <= Len(log) /\ link.next <= Len(log) + 1
BridgeTyped ==
  /\ BridgeTypeOK /\ Bounded
  /\ log \in Seq(EntryRecord) /\ queue \in Seq(Work) /\ cards \in Seq(CardRecord) /\ said \in Seq(Nat)
  /\ job \in JobRecord /\ posted \in [Messages -> Nat]
  /\ \A i \in 1 .. Len(said) : said[i] \in 1 .. Len(log)

\* A result is of a prompt that is over and was requested once, before it.
LogSound ==
  /\ \A n \in 1 .. Len(log) : log[n].kind \in {"requested", "resolved"} => log[n].of \in recorded
  /\ \A p \in Prompts, n \in 1 .. Len(log) : IsRequest(n, p) => OverOrAsked(p)
  /\ \A p \in Prompts, n \in 1 .. Len(log) : IsResult(n, p) => Over(p) /\ \E k \in 1 .. n : IsRequest(k, p)
  /\ \A p \in Prompts, n, k \in 1 .. Len(log) : IsRequest(n, p) /\ IsRequest(k, p) => n = k

\* The worker is live from its snapshot to the end of the link.
LinkSound ==
  /\ link.phase \in {"down", "lost", "attached"} => ~worker.live
  /\ link.phase \in {"bound", "ready"} => worker.live /\ job.kind # "snapshot"
  /\ worker.live /\ link.phase = "binding" => job.kind = "snapshot"
  /\ job.kind = "snapshot" => link.phase = "binding"
  /\ job # NoJob => worker.live

\* Works of the link that is up come after its snapshot, except notices.
WorkSound(i) ==
  /\ queue[i].kind = "message" => queue[i].of \in Messages /\ message[queue[i].of] \notin {"unsent", "past"}
  /\ queue[i].kind \in {"notice", "click"} => queue[i].of \in Prompts
  /\ queue[i].live => link.phase \notin {"down", "lost"}
  /\ Up(i, "event") => /\ link.phase = "ready" /\ queue[i].seq \in 1 .. Len(log)
                       /\ queue[i].of = log[queue[i].seq].of
  /\ Up(i, "snapshot") => /\ link.phase = "binding" /\ ~worker.live
                          /\ link.next <= queue[i].seq + 1 /\ queue[i].seq <= Len(log)
                          /\ \A j \in 1 .. Len(queue) : Up(j, "snapshot") => i = j
QueueSound == \A i \in 1 .. Len(queue) : WorkSound(i)

\* The events go on from what the worker has seen, without a gap.
InLine ==
  /\ \A i \in 1 .. Len(queue) : Up(i, "event") =>
       \/ queue[i].seq <= worker.seq + 1
       \/ \E j \in 1 .. i - 1 : Up(j, "event") /\ queue[j].seq + 1 = queue[i].seq
  /\ worker.live => link.next <= worker.seq + 1 \/ Delivered(link.next - 1)

\* What the worker is at, place by place.
JobSound ==
  /\ job.kind = "none" \/ job.stage = "none" => job = NoJob
  /\ job.stage \in {"list", "settle", "show"} => job.kind \in {"snapshot", "notice", "click", "tick"}
  /\ job.kind \in {"notice", "click"} => job.of \in Prompts
  /\ job.kind = "message" <=> job.stage \in {"post", "accepted"}
  /\ job.kind = "message" => /\ job.of \in worker.seen /\ message[job.of] \notin {"unsent", "past"}
                             /\ job.stage = "post" => posted[job.of] = 0
  /\ job.stage = "say" => job.kind = "event" /\ IsChat(job.seq) /\ job.seq = worker.seq
  /\ job.stage = "finish" => /\ job.of \in Prompts /\ Past(job.of)
                             /\ job.kind \in {"event", "click"}
                             /\ job.kind = "event" => job.seq <= worker.seq
  /\ job.stage = "reply" => job.of \in Prompts /\ Asked(job.of) /\ job.kind = "click"
  /\ \A p \in job.listed : Asked(p)
  /\ job.stage = "settle" => \A p \in job.todo : store[p] # NoCard /\ Past(p)
  /\ job.stage = "show" => job.todo \subseteq job.listed

\* A stored card is one of its prompt.
StoreSound ==
  \A p \in Prompts : store[p] # NoCard =>
    /\ store[p].card \in 1 .. Len(cards) /\ cards[store[p].card].of = p
    /\ store[p].seq <= Len(log)
CardSound == (\A c \in 1 .. Len(cards) : Asked(cards[c].of)) /\ FinalIsTrue

\* The result of a prompt with a card, or one that is about to get a card, is to come.
ResultSound ==
  \A p \in recorded, n \in 1 .. Len(log) : IsResult(n, p) =>
    /\ store[p] # NoCard => store[p].seq < n /\ (Subscribing => Coming(n) \/ Finishing(p))
    /\ p \in job.listed /\ Syncs => worker.seq < n /\ Coming(n)

Ordered(s) ==
  \A i \in 1 .. Len(s) :
    IF board
    THEN \A n \in 1 .. s[i] : IsChat(n) => \E j \in 1 .. i : s[j] = n
    ELSE \A j \in 1 .. i - 1 : s[j] < s[i]
SaidUpTo(n) == \A i \in 1 .. Len(said) : said[i] <= n

\* A worker that is live has said all the chat it has seen, on a board since ever.
MirrorSound ==
  /\ Ordered(said) /\ CursorIsBehind
  /\ board => /\ worker.live => \A n \in 1 .. worker.seq :
                   IsChat(n) => IsSaid(n) \/ (job.stage = "say" /\ job.seq = n)
              /\ \A i \in 1 .. Len(queue) : Up(i, "snapshot") => queue[i].seq <= cursor
  /\ ~board => /\ worker.live => SaidUpTo(worker.seq)
               /\ job.stage = "say" => \A i \in 1 .. Len(said) : said[i] < job.seq
               /\ \A i \in 1 .. Len(queue) : Up(i, "snapshot") => SaidUpTo(queue[i].seq)

\* What was posted is remembered, by the worker or by the end of its session.
PostsSound ==
  \A m \in Messages :
    /\ posted[m] <= 1
    /\ message[m] = "unsent" => posted[m] = 0
    /\ posted[m] > 0 => m \in worker.seen \/ message[m] = "past"

BridgeInv ==
  /\ BridgeTyped /\ LogSound /\ LinkSound /\ QueueSound /\ InLine /\ JobSound
  /\ StoreSound /\ CardSound /\ ResultSound /\ MirrorSound /\ PostsSound
-----------------------------------------------------------------------------
(* Works and cards                                                         *)

LEMMA BridgeParts ==
  ASSUME BridgeTyped
  PROVE  /\ board \in BOOLEAN /\ recorded \subseteq Prompts /\ cursor \in Nat
         /\ log \in Seq(EntryRecord) /\ Len(log) \in Nat
         /\ \A n \in 1 .. Len(log) : log[n] \in EntryRecord
         /\ prompt \in [Prompts -> {"unasked", "pending", "answered", "withdrawn", "lost"}]
         /\ notices \subseteq Prompts
         /\ link.phase \in Phases /\ link.next \in Nat
         /\ link = [phase |-> link.phase, next |-> link.next]
         /\ queue \in Seq(Work) /\ Len(queue) \in Nat /\ \A i \in 1 .. Len(queue) : queue[i] \in Work
         /\ worker.live \in BOOLEAN /\ worker.seq \in Nat /\ worker.seen \subseteq Messages
         /\ worker.shown \in [Prompts -> Shown]
         /\ worker \in [live : BOOLEAN, seq : Nat, shown : [Prompts -> Shown], seen : SUBSET Messages]
         /\ job \in JobRecord /\ job.seq \in Nat /\ job.of \in Subjects
         /\ job.listed \subseteq Prompts /\ job.todo \subseteq Prompts
         /\ store \in [Prompts -> [card : Nat, seq : Nat]]
         /\ \A p \in Prompts : store[p].card \in Nat /\ store[p].seq \in Nat
         /\ cards \in Seq(CardRecord) /\ Len(cards) \in Nat
         /\ said \in Seq(Nat) /\ Len(said) \in Nat
         /\ message \in [Messages -> {"unsent", "queued", "delivered", "told", "dropped", "past"}]
         /\ posted \in [Messages -> Nat] /\ inputs \in 0 .. MaxInputs /\ faults \in 0 .. MaxFaults
BY DEF BridgeTyped, BridgeTypeOK, JobRecord

\* A work that is enqueued.
LEMMA WorkAdded ==
  ASSUME queue \in Seq(Work), NEW w \in Work, queue' = Append(queue, w)
  PROVE  /\ queue' \in Seq(Work) /\ Len(queue') = Len(queue) + 1
         /\ \A i \in 1 .. Len(queue) : queue'[i] = queue[i]
         /\ queue'[Len(queue) + 1] = w
         /\ \A i \in 1 .. Len(queue), kind \in {"event", "snapshot"} : Up(i, kind)' <=> Up(i, kind)
<1>1. /\ queue' \in Seq(Work) /\ Len(queue') = Len(queue) + 1 /\ Len(queue) \in Nat
      /\ \A i \in 1 .. Len(queue) : queue'[i] = queue[i]
      /\ queue'[Len(queue) + 1] = w
  OBVIOUS
<1> QED
  BY <1>1 DEF Up

\* A work that is taken.
LEMMA WorkTaken ==
  ASSUME queue \in Seq(Work), queue # <<>>, queue' = Tail(queue)
  PROVE  /\ queue' \in Seq(Work) /\ Len(queue') = Len(queue) - 1 /\ Len(queue) \in Nat /\ Len(queue) > 0
         /\ Head(queue) = queue[1] /\ queue[1] \in Work
         /\ \A i \in 1 .. Len(queue') : queue'[i] = queue[i + 1] /\ i + 1 \in 1 .. Len(queue)
         /\ \A i \in 1 .. Len(queue'), kind \in {"event", "snapshot"} : Up(i, kind)' <=> Up(i + 1, kind)
<1>1. /\ queue' \in Seq(Work) /\ Len(queue') = Len(queue) - 1 /\ Len(queue) \in Nat /\ Len(queue) > 0
      /\ Head(queue) = queue[1] /\ queue[1] \in Work
  OBVIOUS
<1>2. \A i \in 1 .. Len(queue') : queue'[i] = queue[i + 1] /\ i + 1 \in 1 .. Len(queue)
  BY <1>1
<1> QED
  BY <1>1, <1>2 DEF Up

\* What is said of a card does not change, and says no more than is true.
CardsMove ==
  /\ cards' \in Seq(CardRecord) /\ Len(cards') >= Len(cards)
  /\ \A c \in 1 .. Len(cards) :
       /\ cards'[c].of = cards[c].of
       /\ cards'[c].text = "final" => cards[c].text = "final" \/ Past(cards[c].of)
  /\ \A c \in Len(cards) + 1 .. Len(cards') : Asked(cards'[c].of) /\ cards'[c].text # "final"

LEMMA CardEdited ==
  ASSUME cards \in Seq(CardRecord), NEW c \in Nat, NEW text \in Texts,
         c \in 1 .. Len(cards) /\ text = "final" => Past(cards[c].of),
         cards' = Card(c, text)
  PROVE  CardsMove
<1>1. Len(cards) \in Nat /\ DOMAIN cards = 1 .. Len(cards) /\ \A d \in 1 .. Len(cards) : cards[d] \in CardRecord
  OBVIOUS
<1>2. /\ DOMAIN cards' = 1 .. Len(cards) /\ cards' = [d \in 1 .. Len(cards) |-> cards'[d]]
      /\ \A d \in 1 .. Len(cards) :
           cards'[d] = IF d = c
                       THEN [cards[d] EXCEPT !.text = IF cards[d].text = "deleted" THEN cards[d].text ELSE text]
                       ELSE cards[d]
  BY <1>1 DEF Card
<1>3. \A d \in 1 .. Len(cards) :
        /\ cards'[d] \in CardRecord /\ cards'[d].of = cards[d].of
        /\ cards'[d].text = cards[d].text \/ (d = c /\ cards'[d].text = text)
  BY <1>1, <1>2 DEF CardRecord
<1>4. cards' \in Seq(CardRecord) /\ Len(cards') = Len(cards)
  BY <1>1, <1>2, <1>3
<1> QED
  BY <1>1, <1>3, <1>4 DEF CardsMove

LEMMA CardAdded ==
  ASSUME cards \in Seq(CardRecord), NEW p \in Prompts, Asked(p),
         cards' = Append(cards, [of |-> p, text |-> "live"])
  PROVE  CardsMove /\ Len(cards') = Len(cards) + 1 /\ cards'[Len(cards) + 1].of = p
<1>1. [of |-> p, text |-> "live"] \in CardRecord
  BY DEF CardRecord, Texts
<1>2. /\ cards' \in Seq(CardRecord) /\ Len(cards') = Len(cards) + 1 /\ Len(cards) \in Nat
      /\ \A d \in 1 .. Len(cards) : cards'[d] = cards[d]
      /\ cards'[Len(cards) + 1] = [of |-> p, text |-> "live"]
  BY <1>1
<1> QED
  BY <1>2 DEF CardsMove

LEMMA CardsStay == cards \in Seq(CardRecord) /\ cards' = cards => CardsMove
BY DEF CardsMove

\* What is asked or past stays so: a prompt is asked once.
PromptsMove == \A p \in Prompts : (Asked(p) => Asked(p)') /\ (Past(p) => Past(p)')

LEMMA CardsKeep ==
  ASSUME cards \in Seq(CardRecord), CardSound, CardsMove, PromptsMove
  PROVE  CardSound'
<1>1. Len(cards) \in Nat /\ Len(cards') \in Nat /\ DOMAIN cards = 1 .. Len(cards) /\ DOMAIN cards' = 1 .. Len(cards')
  BY DEF CardsMove
<1>2. ASSUME NEW c \in 1 .. Len(cards'), NEW p \in Prompts, p = cards'[c].of
      PROVE  Asked(p)' /\ (cards'[c].text = "final" => Past(p)')
  <2>1. CASE c \in 1 .. Len(cards)
    <3>1. p = cards[c].of /\ Asked(p)
      BY <1>2, <2>1 DEF CardsMove, CardSound
    <3>2. cards'[c].text = "final" => Past(p)
      BY <2>1, <3>1, <1>1 DEF CardsMove, CardSound, FinalIsTrue, Past, Asked
    <3> QED
      BY <3>1, <3>2 DEF PromptsMove
  <2>2. CASE c \in Len(cards) + 1 .. Len(cards')
    BY <1>2, <2>2 DEF CardsMove, PromptsMove
  <2> QED
    BY <2>1, <2>2, <1>1
<1>3. \A c \in 1 .. Len(cards') : cards'[c].of \in Prompts
  <2>1. \A c \in 1 .. Len(cards') : cards'[c] \in CardRecord
    BY DEF CardsMove
  <2> QED
    BY <2>1 DEF CardRecord
<1> QED
  BY <1>1, <1>2, <1>3 DEF CardSound, FinalIsTrue, Asked, Past

\* What was said stays said, in order.
SaidMove ==
  /\ said' \in Seq(Nat) /\ Ordered(said')
  /\ \A i \in 1 .. Len(said') : said'[i] \in 1 .. Len(log)
  /\ \A n \in Nat : IsSaid(n) => IsSaid(n)'

LEMMA SaidStays == BridgeTyped /\ MirrorSound /\ said' = said => SaidMove
BY DEF BridgeTyped, MirrorSound, SaidMove, IsSaid

\* The message that the worker is at can be said: all before it was.
LEMMA SaidGrows ==
  ASSUME BridgeTyped, MirrorSound, JobSound, LinkSound, job.stage = "say",
         NEW s, s = job.seq, said' = Saying(s)
  PROVE  /\ SaidMove /\ IsSaid(s)'
         /\ ~board => \A i \in 1 .. Len(said') : said'[i] <= s
<1>1. /\ IsChat(s) /\ s = worker.seq /\ job # NoJob /\ worker.live
  BY DEF JobSound, LinkSound, NoJob
<1>2. s \in 1 .. Len(log) /\ Len(log) \in Nat /\ said \in Seq(Nat) /\ Len(said) \in Nat /\ DOMAIN said = 1 .. Len(said)
  BY <1>1, BridgeParts DEF IsChat
<1>3. CASE board /\ IsSaid(s)
  <2>1. said' = said
    BY <1>3 DEF Saying
  <2>2. IsSaid(s)' /\ board
    BY <2>1, <1>3 DEF IsSaid
  <2> QED
    BY <2>1, <2>2, SaidStays
<1>4. CASE ~(board /\ IsSaid(s))
  <2>1. said' = Append(said, s)
    BY <1>4 DEF Saying
  <2>2. /\ said' \in Seq(Nat) /\ Len(said') = Len(said) + 1 /\ DOMAIN said' = 1 .. Len(said')
        /\ \A i \in 1 .. Len(said) : said'[i] = said[i]
        /\ said'[Len(said) + 1] = s
    BY <2>1, <1>2
  <2>3. \A n \in Nat : IsSaid(n) => IsSaid(n)'
    BY <2>2, <1>2 DEF IsSaid
  <2>4. \A i \in 1 .. Len(said') : said'[i] \in 1 .. Len(log)
    <3>1. \A i \in 1 .. Len(said) : said[i] \in 1 .. Len(log)
      BY DEF BridgeTyped
    <3> QED
      BY <3>1, <2>2, <1>2
  <2>5. ASSUME NEW i \in 1 .. Len(said')
        PROVE  IF board
               THEN \A n \in 1 .. said'[i] : IsChat(n) => \E j \in 1 .. i : said'[j] = n
               ELSE \A j \in 1 .. i - 1 : said'[j] < said'[i]
    <3>1. CASE i \in 1 .. Len(said)
      <4>1. IF board
            THEN \A n \in 1 .. said[i] : IsChat(n) => \E j \in 1 .. i : said[j] = n
            ELSE \A j \in 1 .. i - 1 : said[j] < said[i]
        BY <3>1 DEF MirrorSound, Ordered
      <4>2. said'[i] = said[i] /\ \A j \in 1 .. i : said'[j] = said[j]
        BY <3>1, <2>2, <1>2
      <4>3. CASE board
        BY <4>1, <4>2, <4>3
      <4>4. CASE ~board
        <5>1. \A j \in 1 .. i - 1 : j \in 1 .. i
          BY <3>1, <1>2
        <5> QED
          BY <4>1, <4>2, <4>4, <5>1
      <4> QED
        BY <4>3, <4>4
    <3>2. CASE i = Len(said) + 1 /\ board
      <4>1. ASSUME NEW n \in 1 .. s, IsChat(n) PROVE \E j \in 1 .. i : said'[j] = n
        <5>1. IsSaid(n) \/ n = s
          BY <4>1, <3>2, <1>1 DEF MirrorSound
        <5>2. CASE IsSaid(n)
          <6>1. PICK j \in 1 .. Len(said) : said[j] = n
            BY <5>2, <1>2 DEF IsSaid
          <6>2. said'[j] = n /\ j \in 1 .. i
            BY <6>1, <2>2, <3>2, <1>2
          <6> QED
            BY <6>2
        <5>3. CASE n = s
          <6>1. i \in 1 .. i /\ said'[i] = n
            BY <5>3, <2>2, <3>2, <1>2
          <6> QED
            BY <6>1
        <5> QED
          BY <5>1, <5>2, <5>3
      <4> QED
        BY <4>1, <3>2, <2>2
    <3>3. CASE i = Len(said) + 1 /\ ~board
      <4>1. \A j \in 1 .. Len(said) : said[j] < s
        BY <3>3 DEF MirrorSound
      <4> QED
        BY <4>1, <3>3, <2>2, <1>2
    <3> QED
      BY <3>1, <3>2, <3>3, <2>2, <1>2
  <2>6. IsSaid(s)'
    <3>1. Len(said) + 1 \in DOMAIN said' /\ said'[Len(said) + 1] = s
      BY <2>2, <1>2
    <3> QED
      BY <3>1 DEF IsSaid
  <2>7. ~board => \A i \in 1 .. Len(said) : said[i] < s
    BY DEF MirrorSound
  <2>8. ~board => \A i \in 1 .. Len(said') : said'[i] <= s
    <3>1. \A i \in 1 .. Len(said) : said[i] \in Nat
      BY <1>2
    <3>2. \A i \in 1 .. Len(said') : i \in 1 .. Len(said) \/ i = Len(said) + 1
      BY <2>2, <1>2
    <3>3. s \in Nat
      BY <1>2
    <3> QED
      BY <3>1, <3>2, <3>3, <2>2, <2>7
  <2>9. Ordered(said')
    BY <2>5 DEF Ordered
  <2> QED
    BY <2>2, <2>3, <2>4, <2>6, <2>8, <2>9 DEF SaidMove
<1> QED
  BY <1>3, <1>4
-----------------------------------------------------------------------------
(* What a step leaves alone                                                *)

\* No message becomes unsent, and past only with its session.
MessagesMove ==
  \A m \in Messages :
    /\ message'[m] = "unsent" => message[m] = "unsent"
    /\ message'[m] = "past" <=> message[m] = "past"

\* The snapshot that waits is the same.
SnapshotsStay ==
  \A i \in 1 .. Len(queue') : Up(i, "snapshot")' =>
    \E j \in 1 .. Len(queue) : Up(j, "snapshot") /\ queue[j].seq = queue'[i].seq

\* A work for the worker that is neither a snapshot nor an event.
LEMMA EnqueueKeeps ==
  ASSUME BridgeTyped, QueueSound, InLine, NEW w \in Work, w.live, w.kind \in {"notice", "message", "click"},
         queue' = Append(queue, w), link.phase \notin {"down", "lost"},
         w.kind = "message" => w.of \in Messages /\ message'[w.of] \notin {"unsent", "past"},
         w.kind \in {"notice", "click"} => w.of \in Prompts,
         MessagesMove, UNCHANGED <<link, worker, log>>
  PROVE  /\ QueueSound' /\ InLine' /\ SnapshotsStay
         /\ \A n \in Nat : Coming(n) => Coming(n)'
<1>1. /\ queue' \in Seq(Work) /\ Len(queue') = Len(queue) + 1 /\ Len(queue) \in Nat
      /\ \A i \in 1 .. Len(queue) : queue'[i] = queue[i]
      /\ queue'[Len(queue) + 1] = w
  BY WorkAdded, BridgeParts
<1>2. \A i \in 1 .. Len(queue') : i \in 1 .. Len(queue) \/ i = Len(queue) + 1
  BY <1>1
<1>3. \A i \in 1 .. Len(queue'), kind \in {"event", "snapshot"} :
        Up(i, kind)' <=> i \in 1 .. Len(queue) /\ Up(i, kind)
  BY <1>1, <1>2 DEF Up
<1>4. \A n \in Nat : Delivered(n) => Delivered(n)'
  BY <1>1, <1>3 DEF Delivered, Up
<1>5. QueueSound'
  <2> SUFFICES ASSUME NEW i \in 1 .. Len(queue') PROVE WorkSound(i)'
    BY DEF QueueSound
  <2>1. CASE i \in 1 .. Len(queue)
    <3>1. WorkSound(i) /\ queue'[i] = queue[i] /\ queue[i] \in Work
      BY <2>1, <1>1, BridgeParts DEF QueueSound
    <3>2. queue[i].kind = "message" => queue[i].of \in Messages /\ message'[queue[i].of] \notin {"unsent", "past"}
      BY <3>1 DEF WorkSound, MessagesMove
    <3>3. Up(i, "snapshot")' => Up(i, "snapshot") /\ \A j \in 1 .. Len(queue') : Up(j, "snapshot")' => i = j
      BY <3>1, <1>3, <2>1 DEF WorkSound
    <3>4. Up(i, "event")' => Up(i, "event")
      BY <1>3, <2>1
    <3> QED
      BY <3>1, <3>2, <3>3, <3>4 DEF WorkSound
  <2>2. CASE i = Len(queue) + 1
    <3>1. queue'[i] = w /\ ~Up(i, "event")' /\ ~Up(i, "snapshot")'
      BY <2>2, <1>1, <1>3
    <3> QED
      BY <3>1 DEF WorkSound
  <2> QED
    BY <2>1, <2>2, <1>2
<1>6. InLine'
  <2>1. ASSUME NEW i \in 1 .. Len(queue'), Up(i, "event")'
        PROVE \/ queue'[i].seq <= worker.seq + 1
              \/ \E j \in 1 .. i - 1 : Up(j, "event")' /\ queue'[j].seq + 1 = queue'[i].seq
    <3>1. i \in 1 .. Len(queue) /\ Up(i, "event") /\ queue'[i] = queue[i]
      BY <2>1, <1>3, <1>1
    <3>2. CASE queue[i].seq <= worker.seq + 1
      BY <3>1, <3>2
    <3>3. ASSUME NEW j \in 1 .. i - 1, Up(j, "event"), queue[j].seq + 1 = queue[i].seq
          PROVE  Up(j, "event")' /\ queue'[j].seq + 1 = queue'[i].seq
      <4>1. j \in 1 .. Len(queue) /\ j \in 1 .. Len(queue') /\ queue'[j] = queue[j]
        BY <3>3, <3>1, <1>1
      <4> QED
        BY <4>1, <3>1, <3>3, <1>3
    <3> QED
      BY <3>1, <3>2, <3>3 DEF InLine
  <2>2. worker.live => link.next <= worker.seq + 1 \/ Delivered(link.next - 1)'
    <3>1. worker.live /\ ~(link.next <= worker.seq + 1) => link.next - 1 \in Nat
      BY BridgeParts
    <3> QED
      BY <3>1, <1>4 DEF InLine
  <2> QED
    BY <2>1, <2>2 DEF InLine
<1>7. SnapshotsStay
  BY <1>1, <1>3 DEF SnapshotsStay
<1> QED
  BY <1>4, <1>5, <1>6, <1>7 DEF Coming

\* A work that is taken; the worker has then seen its event.
LEMMA TakeKeeps ==
  ASSUME BridgeTyped, QueueSound, InLine, queue # <<>>, Drop, MessagesMove, UNCHANGED <<link, log>>,
         worker'.live = worker.live, worker'.seq \in Nat, worker'.seq >= worker.seq,
         Up(1, "event") => worker'.seq >= queue[1].seq
  PROVE  /\ QueueSound' /\ InLine' /\ SnapshotsStay
         /\ \A n \in Nat : Coming(n) => Coming(n)' \/ (Up(1, "event") /\ queue[1].seq = n)
<1>1. /\ queue' \in Seq(Work) /\ Len(queue') = Len(queue) - 1 /\ Len(queue) \in Nat /\ Len(queue) > 0
      /\ \A i \in 1 .. Len(queue') : queue'[i] = queue[i + 1] /\ i + 1 \in 1 .. Len(queue)
  BY WorkTaken, BridgeParts DEF Drop
<1>2. \A i \in 1 .. Len(queue'), kind \in {"event", "snapshot"} : Up(i, kind)' <=> Up(i + 1, kind)
  BY <1>1 DEF Up
<1>3. \A n \in Nat : Delivered(n) => Delivered(n)' \/ (Up(1, "event") /\ queue[1].seq = n)
  <2> SUFFICES ASSUME NEW n \in Nat, NEW i \in 1 .. Len(queue), Up(i, "event"), queue[i].seq = n, i # 1
               PROVE  Delivered(n)'
    BY DEF Delivered
  <2>1. i - 1 \in 1 .. Len(queue') /\ (i - 1) + 1 = i
    BY <1>1
  <2>2. Up(i - 1, "event")' /\ queue'[i - 1].seq = n
    BY <2>1, <1>1, <1>2
  <2> QED
    BY <2>1, <2>2 DEF Delivered
<1>4. QueueSound'
  <2> SUFFICES ASSUME NEW i \in 1 .. Len(queue') PROVE WorkSound(i)'
    BY DEF QueueSound
  <2>1. WorkSound(i + 1) /\ queue'[i] = queue[i + 1] /\ i + 1 \in 1 .. Len(queue)
    BY <1>1 DEF QueueSound
  <2>2. queue[i + 1].kind = "message" =>
          queue[i + 1].of \in Messages /\ message'[queue[i + 1].of] \notin {"unsent", "past"}
    BY <2>1 DEF WorkSound, MessagesMove
  <2>3. Up(i, "snapshot")' => Up(i + 1, "snapshot") /\ \A j \in 1 .. Len(queue') : Up(j, "snapshot")' => i = j
    <3> SUFFICES ASSUME Up(i, "snapshot")' PROVE Up(i + 1, "snapshot") /\ \A j \in 1 .. Len(queue') : Up(j, "snapshot")' => i = j
      OBVIOUS
    <3>1. Up(i + 1, "snapshot")
      BY <1>2
    <3>2. \A j \in 1 .. Len(queue) : Up(j, "snapshot") => i + 1 = j
      BY <3>1, <2>1 DEF WorkSound
    <3> QED
      BY <3>1, <3>2, <1>1, <1>2
  <2>4. Up(i, "event")' => Up(i + 1, "event")
    BY <1>2
  <2>5. worker'.live <=> worker.live
    OBVIOUS
  <2> QED
    BY <2>1, <2>2, <2>3, <2>4, <2>5 DEF WorkSound
<1>5. InLine'
  <2>1. ASSUME NEW i \in 1 .. Len(queue'), Up(i, "event")'
        PROVE \/ queue'[i].seq <= worker'.seq + 1
              \/ \E j \in 1 .. i - 1 : Up(j, "event")' /\ queue'[j].seq + 1 = queue'[i].seq
    <3>1. i + 1 \in 1 .. Len(queue) /\ Up(i + 1, "event") /\ queue'[i] = queue[i + 1] /\ queue[i + 1].seq \in Nat
      BY <2>1, <1>2, <1>1, BridgeParts DEF Work
    <3>2. CASE queue[i + 1].seq <= worker.seq + 1
      <4>1. worker.seq \in Nat
        BY BridgeParts
      <4> QED
        BY <3>1, <3>2, <4>1
    <3>3. ASSUME NEW j \in 1 .. i, Up(j, "event"), queue[j].seq + 1 = queue[i + 1].seq
          PROVE  \/ queue'[i].seq <= worker'.seq + 1
                 \/ \E k \in 1 .. i - 1 : Up(k, "event")' /\ queue'[k].seq + 1 = queue'[i].seq
      <4>1. CASE j = 1
        <5>1. queue[1].seq \in Nat /\ worker'.seq >= queue[1].seq
          <6>1. queue[1] \in Work /\ Up(1, "event")
            BY <4>1, <3>3, <1>1, BridgeParts
          <6> QED
            BY <6>1 DEF Work
        <5>2. queue[1].seq + 1 = queue[i + 1].seq /\ queue'[i] = queue[i + 1]
          BY <4>1, <3>1, <3>3
        <5> QED
          BY <5>1, <5>2
      <4>2. CASE j # 1
        <5>1. j - 1 \in 1 .. i - 1 /\ j - 1 \in 1 .. Len(queue') /\ (j - 1) + 1 = j
          BY <4>2, <3>1, <1>1
        <5>2. Up(j - 1, "event")' /\ queue'[j - 1].seq + 1 = queue'[i].seq
          BY <5>1, <3>1, <3>3, <1>1, <1>2
        <5> QED
          BY <5>1, <5>2
      <4> QED
        BY <4>1, <4>2
    <3>4. \/ queue[i + 1].seq <= worker.seq + 1
          \/ \E j \in 1 .. i : Up(j, "event") /\ queue[j].seq + 1 = queue[i + 1].seq
      <4>1. (i + 1) - 1 = i
        OBVIOUS
      <4> QED
        BY <4>1, <3>1 DEF InLine
    <3> QED
      BY <3>2, <3>3, <3>4
  <2>2. worker.live => link.next <= worker'.seq + 1 \/ Delivered(link.next - 1)'
    <3> SUFFICES ASSUME worker.live, ~(link.next <= worker'.seq + 1) PROVE Delivered(link.next - 1)'
      OBVIOUS
    <3>1. link.next - 1 \in Nat /\ ~(link.next <= worker.seq + 1) /\ ~(worker'.seq >= link.next - 1)
      BY BridgeParts
    <3>2. Delivered(link.next - 1)
      BY <3>1 DEF InLine
    <3> QED
      BY <3>1, <3>2, <1>3
  <2> QED
    BY <2>1, <2>2 DEF InLine
<1>6. SnapshotsStay
  <2>1. ASSUME NEW i \in 1 .. Len(queue'), Up(i, "snapshot")'
        PROVE  i + 1 \in 1 .. Len(queue) /\ Up(i + 1, "snapshot") /\ queue[i + 1].seq = queue'[i].seq
    BY <2>1, <1>1, <1>2
  <2> QED
    BY <2>1 DEF SnapshotsStay
<1> QED
  BY <1>3, <1>4, <1>5, <1>6 DEF Coming

\* A queue that stays.
LEMMA QueueStays ==
  ASSUME BridgeTyped, QueueSound, InLine, UNCHANGED <<queue, log>>, MessagesMove,
         worker'.live = worker.live, worker'.seq = worker.seq, link'.next = link.next,
         \/ link'.phase = link.phase
         \/ link.phase = "bound" /\ link'.phase = "ready"
         \/ link.phase = "binding" /\ worker.live /\ link'.phase = "bound"
  PROVE  /\ QueueSound' /\ InLine' /\ SnapshotsStay /\ \A n \in Nat : Coming(n) <=> Coming(n)'
<1>1. \A i \in 1 .. Len(queue), kind \in {"event", "snapshot"} : Up(i, kind)' <=> Up(i, kind)
  BY DEF Up
<1>2. QueueSound'
  <2> SUFFICES ASSUME NEW i \in 1 .. Len(queue) PROVE WorkSound(i)'
    BY DEF QueueSound
  <2>1. WorkSound(i)
    BY DEF QueueSound
  <2>2. queue[i].kind = "message" => queue[i].of \in Messages /\ message'[queue[i].of] \notin {"unsent", "past"}
    BY <2>1 DEF WorkSound, MessagesMove
  <2>3. worker'.live <=> worker.live
    OBVIOUS
  <2> QED
    BY <2>1, <2>2, <2>3, <1>1 DEF WorkSound
<1>3. \A n : Delivered(n) <=> Delivered(n)'
  BY <1>1 DEF Delivered
<1>4. InLine'
  <2>1. worker'.live <=> worker.live
    OBVIOUS
  <2>2. \A i \in 1 .. Len(queue) : \A j \in 1 .. i - 1 : j \in 1 .. Len(queue)
    BY BridgeParts
  <2> QED
    BY <2>1, <2>2, <1>1, <1>3 DEF InLine
<1> QED
  BY <1>2, <1>3, <1>4, <1>1 DEF Coming, SnapshotsStay, Up
\* What is to come of a result is still to come.
LEMMA ResultKeeps ==
  ASSUME ResultSound, UNCHANGED <<log, recorded, store>>, worker'.seq = worker.seq,
         Subscribing' => Subscribing, \A n \in 1 .. Len(log) : Coming(n) => Coming(n)',
         \A p \in Prompts : Finishing(p) => Finishing(p)',
         job'.listed \subseteq job.listed, Syncs' => Syncs, recorded \subseteq Prompts
  PROVE  ResultSound'
<1> SUFFICES ASSUME NEW p \in recorded, NEW n \in 1 .. Len(log), IsResult(n, p)
             PROVE  /\ store[p] # NoCard => store[p].seq < n /\ (Subscribing' => Coming(n)' \/ Finishing(p)')
                    /\ p \in job'.listed /\ Syncs' => worker'.seq < n /\ Coming(n)'
  BY DEF ResultSound, IsResult
<1>1. /\ store[p] # NoCard => store[p].seq < n /\ (Subscribing => Coming(n) \/ Finishing(p))
      /\ p \in job.listed /\ Syncs => worker.seq < n /\ Coming(n)
  BY DEF ResultSound
<1> QED
  BY <1>1

\* What was said stays enough.
LEMMA MirrorKeeps ==
  ASSUME BridgeTyped, MirrorSound, UNCHANGED <<board, said, cursor, log>>, SnapshotsStay,
         worker'.live => worker.live /\ worker'.seq = worker.seq,
         job'.stage = "say" <=> job.stage = "say", job.stage = "say" => job'.seq = job.seq
  PROVE  MirrorSound'
<1>1. /\ \A n : IsChat(n)' <=> IsChat(n)
      /\ \A n : IsSaid(n)' <=> IsSaid(n)
      /\ \A n : SaidUpTo(n)' <=> SaidUpTo(n)
  BY DEF IsChat, IsSaid, SaidUpTo
<1>2. Ordered(said)' /\ CursorIsBehind'
  BY <1>1 DEF MirrorSound, Ordered, CursorIsBehind
<1>3. ASSUME board
      PROVE  /\ worker'.live => \A n \in 1 .. worker'.seq :
                  IsChat(n) => IsSaid(n) \/ (job'.stage = "say" /\ job'.seq = n)
             /\ \A i \in 1 .. Len(queue') : Up(i, "snapshot")' => queue'[i].seq <= cursor
  <2>1. worker'.live => \A n \in 1 .. worker'.seq :
                  IsChat(n) => IsSaid(n) \/ (job'.stage = "say" /\ job'.seq = n)
    BY <1>3 DEF MirrorSound
  <2>2. \A i \in 1 .. Len(queue') : Up(i, "snapshot")' => queue'[i].seq <= cursor
    <3>1. \A j \in 1 .. Len(queue) : Up(j, "snapshot") => queue[j].seq <= cursor
      BY <1>3 DEF MirrorSound
    <3> QED
      BY <3>1 DEF SnapshotsStay
  <2> QED
    BY <2>1, <2>2
<1>4. ASSUME ~board
      PROVE  /\ worker'.live => SaidUpTo(worker'.seq)
             /\ job'.stage = "say" => \A i \in 1 .. Len(said) : said[i] < job'.seq
             /\ \A i \in 1 .. Len(queue') : Up(i, "snapshot")' => SaidUpTo(queue'[i].seq)
  <2>1. \A i \in 1 .. Len(queue') : Up(i, "snapshot")' => SaidUpTo(queue'[i].seq)
    <3>1. \A j \in 1 .. Len(queue) : Up(j, "snapshot") => SaidUpTo(queue[j].seq)
      BY <1>4 DEF MirrorSound
    <3> QED
      BY <3>1 DEF SnapshotsStay
  <2> QED
    BY <2>1, <1>4 DEF MirrorSound
<1>5. SaidUpTo(worker.seq)' <=> SaidUpTo(worker'.seq)
  BY DEF SaidUpTo
<1>6. \A i \in 1 .. Len(queue') : SaidUpTo(queue[i].seq)' <=> SaidUpTo(queue'[i].seq)
  BY DEF SaidUpTo
<1> QED
  BY <1>1, <1>2, <1>3, <1>4, <1>5, <1>6 DEF MirrorSound

LEMMA StoreKeeps ==
  ASSUME BridgeTyped, StoreSound, CardsMove, log' = log,
         \A p \in Prompts : store'[p] = store[p] \/ store'[p] = NoCard
  PROVE  StoreSound'
<1> SUFFICES ASSUME NEW p \in Prompts, store'[p] # NoCard
             PROVE  /\ store'[p].card \in 1 .. Len(cards') /\ cards'[store'[p].card].of = p
                    /\ store'[p].seq <= Len(log)
  BY DEF StoreSound
<1>1. store'[p] = store[p] /\ store[p].card \in 1 .. Len(cards) /\ cards[store[p].card].of = p /\ store[p].seq <= Len(log)
  BY DEF StoreSound
<1>2. Len(cards) \in Nat /\ Len(cards') \in Nat /\ Len(cards') >= Len(cards)
  BY BridgeParts DEF CardsMove
<1> QED
  BY <1>1, <1>2 DEF CardsMove

\* A log that goes on, with everything but its own part of the invariant; pairs of
\* steps are told apart by what they do to the worker.
LogGoesOn ==
  /\ log' \in Seq(EntryRecord) /\ Len(log') >= Len(log)
  /\ \A n \in 1 .. Len(log) : log'[n] = log[n]

LEMMA MirrorGrows ==
  ASSUME BridgeTyped, QueueSound, MirrorSound, LogGoesOn, UNCHANGED <<board, said, cursor, queue, worker>>,
         job'.stage = "say" <=> job.stage = "say", job.stage = "say" => job'.seq = job.seq
  PROVE  MirrorSound'
<1>1. /\ Len(log) \in Nat /\ Len(log') \in Nat /\ Len(log') >= Len(log) /\ DOMAIN log = 1 .. Len(log)
      /\ DOMAIN log' = 1 .. Len(log') /\ cursor \in Nat /\ worker.seq \in Nat
      /\ cursor <= Len(log) /\ worker.seq <= Len(log)
      /\ \A i \in 1 .. Len(said) : said[i] \in 1 .. Len(log)
  BY BridgeParts DEF LogGoesOn, BridgeTyped, Bounded
<1>2. /\ \A n \in 1 .. Len(log) : IsChat(n)' <=> IsChat(n)
      /\ \A n : IsSaid(n)' <=> IsSaid(n)
      /\ \A n : SaidUpTo(n)' <=> SaidUpTo(n)
      /\ \A i : Up(i, "snapshot")' <=> Up(i, "snapshot")
  BY <1>1 DEF IsChat, IsSaid, SaidUpTo, Up, LogGoesOn
<1>3. \A k \in Nat : \A n \in 1 .. k : k <= Len(log) => n \in 1 .. Len(log)
  BY <1>1
<1>4. Ordered(said)'
  <2>1. \A i \in 1 .. Len(said), n \in Nat : n \in 1 .. said[i] => (IsChat(n)' <=> IsChat(n))
    BY <1>1, <1>2
  <2>2. \A i \in 1 .. Len(said) : \A n \in 1 .. said[i] : n \in Nat
    BY <1>1
  <2> QED
    BY <2>1, <2>2 DEF MirrorSound, Ordered
<1>5. CursorIsBehind'
  BY <1>1, <1>2, <1>3 DEF MirrorSound, CursorIsBehind
<1>6. board => /\ worker.live => \A n \in 1 .. worker.seq :
                    IsChat(n)' => IsSaid(n)' \/ (job'.stage = "say" /\ job'.seq = n)
               /\ \A i \in 1 .. Len(queue) : Up(i, "snapshot")' => queue[i].seq <= cursor
  BY <1>1, <1>2, <1>3 DEF MirrorSound
<1>7. ~board => /\ worker.live => SaidUpTo(worker.seq)
                /\ job'.stage = "say" => \A i \in 1 .. Len(said) : said[i] < job'.seq
                /\ \A i \in 1 .. Len(queue) : Up(i, "snapshot")' => SaidUpTo(queue[i].seq)
  BY <1>2 DEF MirrorSound
<1>8. (SaidUpTo(worker.seq)' <=> SaidUpTo(worker.seq)) /\ \A i : SaidUpTo(queue[i].seq)' <=> SaidUpTo(queue[i].seq)
  BY DEF SaidUpTo
<1> QED
  BY <1>4, <1>5, <1>6, <1>7, <1>8 DEF MirrorSound

LEMMA QueueGrows ==
  ASSUME BridgeTyped, QueueSound, InLine, LogGoesOn, UNCHANGED <<queue, worker, link, message>>
  PROVE  QueueSound' /\ InLine' /\ \A n \in Nat : Coming(n) <=> Coming(n)'
<1>1. \A i, kind : Up(i, kind)' <=> Up(i, kind)
  BY DEF Up
<1>2. QueueSound'
  <2> SUFFICES ASSUME NEW i \in 1 .. Len(queue) PROVE WorkSound(i)'
    BY DEF QueueSound
  <2>1. WorkSound(i) /\ Len(log) \in Nat /\ Len(log') \in Nat /\ Len(log') >= Len(log) /\ queue[i].seq \in Nat
    BY BridgeParts DEF QueueSound, LogGoesOn, Work
  <2>2. Up(i, "event") => queue[i].seq \in 1 .. Len(log') /\ queue[i].of = log'[queue[i].seq].of
    BY <2>1 DEF WorkSound, LogGoesOn
  <2>3. Up(i, "snapshot") => queue[i].seq <= Len(log')
    BY <2>1 DEF WorkSound
  <2> QED
    BY <2>1, <2>2, <2>3, <1>1 DEF WorkSound
<1>3. \A n : Delivered(n) <=> Delivered(n)'
  BY <1>1 DEF Delivered
<1>4. InLine'
  BY <1>1, <1>3 DEF InLine
<1> QED
  BY <1>2, <1>3, <1>4 DEF Coming
LEMMA PostsKeep ==
  ASSUME PostsSound, MessagesMove, posted' = posted, worker.seen \subseteq worker'.seen
  PROVE  PostsSound'
BY DEF PostsSound, MessagesMove

LEMMA PromptsStay == UNCHANGED prompt => PromptsMove /\ \A p \in Prompts : Over(p) => Over(p)'
BY DEF PromptsMove, Asked, Past, Over

LEMMA LogStays == BridgeTyped /\ UNCHANGED log => LogGoesOn
BY DEF BridgeTyped, LogGoesOn

LEMMA LogSoundStays ==
  ASSUME LogSound, UNCHANGED <<log, recorded>>, \A p \in Prompts : (Over(p) => Over(p)') /\ (OverOrAsked(p) => OverOrAsked(p)')
  PROVE  LogSound'
BY DEF LogSound, IsRequest, IsResult

-----------------------------------------------------------------------------
(* The end of a link                                                       *)

LEMMA InFlightMoves ==
  ASSUME BridgeTyped, LinkSound, JobSound, StoreSound, CardSound, MirrorSound, InFlight
  PROVE  CardsMove /\ SaidMove
<1>1. cards \in Seq(CardRecord) /\ store \in [Prompts -> [card : Nat, seq : Nat]] /\ job \in JobRecord
  BY BridgeParts
<1>2. UNCHANGED discord => CardsMove /\ SaidMove
  BY CardsStay, SaidStays, <1>1 DEF discord
<1>3. \A p \in Prompts : store[p].card \in Nat
  BY <1>1
<1>4. CASE job.stage = "say"
  <2>1. UNCHANGED discord \/ (cards' = cards /\ said' = Saying(job.seq))
    BY <1>4 DEF InFlight, Applied
  <2>2. ASSUME NEW s, s = job.seq, said' = Saying(s) PROVE SaidMove
    BY <1>4, <2>2, SaidGrows
  <2> QED
    BY <1>1, <1>2, <2>1, <2>2, CardsStay
<1>5. CASE job.stage = "finish"
  <2>1. UNCHANGED discord \/ (cards' = Card(store[job.of].card, "final") /\ said' = said)
    BY <1>5 DEF InFlight, Applied
  <2>2. job.of \in Prompts /\ Past(job.of)
    BY <1>5 DEF JobSound
  <2>3. store[job.of].card \in 1 .. Len(cards) => cards[store[job.of].card].of = job.of
    <3>1. store[job.of] = NoCard => store[job.of].card = 0
      BY DEF NoCard
    <3> QED
      BY <2>2, <3>1, BridgeParts DEF StoreSound
  <2>4. "final" \in Texts
    BY DEF Texts
  <2> QED
    BY <1>1, <1>2, <1>3, <2>1, <2>2, <2>3, <2>4, CardEdited, SaidStays
<1>6. CASE job.stage = "settle" /\ job.todo # {}
  <2>1. UNCHANGED discord \/ (said' = said /\ \E p \in job.todo : cards' = Card(store[p].card, Settling(p)))
    BY <1>6 DEF InFlight, Applied
  <2>2. ASSUME NEW p \in job.todo, cards' = Card(store[p].card, Settling(p)) PROVE CardsMove
    <3>1. p \in Prompts /\ store[p] # NoCard /\ Past(p)
      BY <1>6, <1>1 DEF JobSound, JobRecord
    <3>2. Settling(p) \in Texts /\ store[p].card \in Nat /\ cards[store[p].card].of = p
      BY <3>1, <1>3 DEF Settling, Texts, StoreSound
    <3> QED
      BY <1>1, <2>2, <3>1, <3>2, CardEdited
  <2> QED
    BY <1>2, <2>1, <2>2, SaidStays
<1>7. CASE job.stage = "show" /\ job.todo # {}
  <2>1. \/ UNCHANGED discord
        \/ /\ said' = said
           /\ \E p \in job.todo : \/ cards' = Append(cards, [of |-> p, text |-> "live"])
                                  \/ store[p] # NoCard /\ cards' = Card(store[p].card, "live")
    BY <1>7 DEF InFlight, Applied
  <2>2. ASSUME NEW p \in job.todo,
               \/ cards' = Append(cards, [of |-> p, text |-> "live"])
               \/ store[p] # NoCard /\ cards' = Card(store[p].card, "live")
        PROVE  CardsMove
    <3>1. p \in Prompts /\ Asked(p) /\ "live" \in Texts /\ "live" # "final"
      BY <1>7, <1>1 DEF JobSound, JobRecord, Texts
    <3> QED
      BY <1>1, <1>3, <2>2, <3>1, CardEdited, CardAdded
  <2> QED
    BY <1>2, <2>1, <2>2, SaidStays
<1>8. CASE ~(\/ job.stage = "say" \/ job.stage = "finish"
             \/ job.stage = "settle" /\ job.todo # {}
             \/ job.stage = "show" /\ job.todo # {})
  <2>1. UNCHANGED discord
    BY <1>8 DEF InFlight, Applied
  <2> QED
    BY <1>2, <2>1
<1> QED
  BY <1>4, <1>5, <1>6, <1>7, <1>8

\* Nothing of the link is left.
LinkEnds ==
  /\ link'.phase \in {"lost", "down"} /\ link'.next = 0
  /\ ~worker'.live /\ job' = NoJob
  /\ \A i \in 1 .. Len(queue') : ~queue'[i].live

LEMMA StopKeeps ==
  ASSUME BridgeTyped, LogSound, StoreSound, CardSound, ResultSound, MirrorSound,
         LinkEnds, CardsMove, SaidMove, PromptsMove, LogGoesOn, UNCHANGED <<given, durable>>
  PROVE  LinkSound' /\ InLine' /\ JobSound' /\ StoreSound' /\ CardSound' /\ ResultSound' /\ MirrorSound'
<1>1. /\ Len(log) \in Nat /\ Len(log') \in Nat /\ Len(log') >= Len(log) /\ cursor \in Nat
      /\ DOMAIN log = 1 .. Len(log) /\ DOMAIN log' = 1 .. Len(log') /\ cursor <= Len(log)
      /\ \A p \in Prompts : store[p].seq \in Nat
      /\ recorded \subseteq Prompts /\ cards \in Seq(CardRecord) /\ Len(cards) \in Nat
  BY BridgeParts DEF LogGoesOn, BridgeTyped, Bounded
<1>2. LinkSound'
  BY DEF LinkEnds, LinkSound, NoJob
<1>3. InLine'
  BY DEF LinkEnds, InLine, Up
<1>4. JobSound'
  BY DEF LinkEnds, JobSound, NoJob
<1>5. StoreSound'
  <2> SUFFICES ASSUME NEW p \in Prompts, store[p] # NoCard
               PROVE  /\ store[p].card \in 1 .. Len(cards') /\ cards'[store[p].card].of = p
                      /\ store[p].seq <= Len(log')
    BY DEF StoreSound, durable
  <2> QED
    BY <1>1 DEF StoreSound, CardsMove
<1>6. CardSound'
  BY <1>1, CardsKeep
<1>7. ResultSound'
  <2> SUFFICES ASSUME NEW p \in recorded, NEW n \in 1 .. Len(log'), IsResult(n, p)', store[p] # NoCard
               PROVE  store[p].seq < n
    BY DEF ResultSound, LinkEnds, Subscribing, Syncs, NoJob, durable, given
  <2>1. CASE n \in 1 .. Len(log)
    <3>1. IsResult(n, p)
      BY <2>1 DEF IsResult, LogGoesOn
    <3> QED
      BY <2>1, <3>1 DEF ResultSound
  <2>2. CASE n \notin 1 .. Len(log)
    <3>1. store[p].seq <= Len(log)
      BY <1>1 DEF StoreSound
    <3> QED
      BY <3>1, <2>2, <1>1
  <2> QED
    BY <2>1, <2>2
<1>8. MirrorSound'
  <2>1. \A n \in 1 .. Len(log) : IsChat(n)' <=> IsChat(n)
    BY <1>1 DEF IsChat, LogGoesOn
  <2>2. Ordered(said)'
    <3>1. \A i \in 1 .. Len(said'), n \in Nat : n \in 1 .. said'[i] => (IsChat(n)' <=> IsChat(n))
      BY <1>1, <2>1 DEF SaidMove
    <3>2. \A i \in 1 .. Len(said') : \A n \in 1 .. said'[i] : n \in Nat
      OBVIOUS
    <3> QED
      BY <3>1, <3>2 DEF SaidMove, Ordered, given
  <2>3. CursorIsBehind'
    <3>1. \A n \in 1 .. cursor : n \in 1 .. Len(log) /\ n \in Nat
      BY <1>1
    <3> QED
      BY <3>1, <2>1 DEF MirrorSound, CursorIsBehind, SaidMove, durable, given
  <2> QED
    BY <2>2, <2>3 DEF MirrorSound, LinkEnds, Up, NoJob
<1> QED
  BY <1>2, <1>3, <1>4, <1>5, <1>6, <1>7, <1>8

\* The link is cut, by an error or because the worker has fallen behind.
LEMMA CutKeeps ==
  ASSUME BridgeInv, CancelLink, InFlight, UNCHANGED <<given, log, prompt, durable, posted>>,
         notices' \subseteq Prompts, inputs' \in 0 .. MaxInputs, faults' \in 0 .. MaxFaults,
         message' \in [Messages -> {"unsent", "queued", "delivered", "told", "dropped", "past"}],
         MessagesMove
  PROVE  BridgeInv'
<1>1. BridgeTyped /\ LogSound /\ LinkSound /\ QueueSound /\ JobSound /\ StoreSound /\ CardSound /\ ResultSound
        /\ MirrorSound /\ PostsSound
  BY DEF BridgeInv
<1>2. CardsMove /\ SaidMove
  BY <1>1, InFlightMoves
<1>3. /\ queue' \in Seq(Work) /\ Len(queue') = Len(queue)
      /\ \A i \in 1 .. Len(queue) :
           /\ ~queue'[i].live /\ queue'[i].kind \in {"message", "event"}
           /\ queue'[i].kind = "message" => queue[i].kind = "message" /\ queue'[i].of = queue[i].of
  <2>1. queue \in Seq(Work) /\ Len(queue) \in Nat /\ DOMAIN queue = 1 .. Len(queue)
    BY <1>1, BridgeParts
  <2>2. queue' = [i \in 1 .. Len(queue) |-> Dead(queue[i])]
    BY <2>1 DEF CancelLink, Cancelled
  <2>3. \A i \in 1 .. Len(queue) : Dead(queue[i]) \in Work
    <3> SUFFICES ASSUME NEW w \in Work PROVE Dead(w) \in Work
      BY <2>1
    <3>1. w.kind = "message" => Dead(w) = [kind |-> "message", seq |-> 0, live |-> FALSE, of |-> w.of]
      BY DEF Dead
    <3>2. w.kind # "message" => Dead(w) = [kind |-> "event", seq |-> 0, live |-> FALSE, of |-> Nobody]
      BY DEF Dead
    <3>3. w.of \in Subjects /\ Nobody \in Subjects
      BY DEF Work, Subjects
    <3>4. \A of \in Subjects, kind \in {"message", "event"} :
            [kind |-> kind, seq |-> 0, live |-> FALSE, of |-> of] \in Work
      BY DEF Work
    <3> QED
      BY <3>1, <3>2, <3>3, <3>4
  <2>4. queue' \in Seq(Work) /\ Len(queue') = Len(queue)
    BY <2>1, <2>2, <2>3
  <2> QED
    BY <2>2, <2>4 DEF Dead
<1>4. LinkEnds
  BY <1>3 DEF LinkEnds, CancelLink
<1>5. PromptsMove /\ LogGoesOn /\ UNCHANGED recorded
  BY <1>1, PromptsStay, LogStays DEF given
<1>6. LinkSound' /\ InLine' /\ JobSound' /\ StoreSound' /\ CardSound' /\ ResultSound' /\ MirrorSound'
  BY <1>1, <1>2, <1>4, <1>5, StopKeeps
<1>7. LogSound'
  BY <1>1, <1>5, PromptsStay, LogSoundStays DEF OverOrAsked
<1>8. QueueSound'
  <2> SUFFICES ASSUME NEW i \in 1 .. Len(queue) PROVE WorkSound(i)'
    BY <1>3 DEF QueueSound
  <2>1. WorkSound(i)
    BY <1>1 DEF QueueSound
  <2> QED
    BY <2>1, <1>3 DEF WorkSound, MessagesMove, Up
<1>9. PostsSound'
  BY <1>1, PostsKeep, BridgeParts DEF CancelLink
<1>10. BridgeTyped'
  <2>1. /\ link' \in [phase : Phases, next : Nat] /\ link'.next = 0
        /\ worker' \in [live : BOOLEAN, seq : Nat, shown : [Prompts -> Shown], seen : SUBSET Messages]
        /\ worker'.seq = 0
    BY <1>1, BridgeParts DEF CancelLink, Phases
  <2>2. job' \in JobRecord
    BY DEF CancelLink, NoJob, JobRecord, JobKinds, JobStages, Subjects
  <2>3. /\ Len(queue') <= QueueSize /\ \A i \in DOMAIN queue' : queue'[i] \in Work
    BY <1>1, <1>3 DEF BridgeTyped, BridgeTypeOK
  <2>4. Bounded'
    BY <2>1, <1>1, BridgeParts DEF Bounded, BridgeTyped, durable
  <2>5. cards' \in Seq(CardRecord) /\ \A c \in DOMAIN cards' : cards'[c] \in CardRecord
    BY <1>2 DEF CardsMove
  <2>6. BridgeTypeOK'
    BY <1>1, <2>1, <2>3, <2>5 DEF BridgeTyped, BridgeTypeOK, given, durable, CardRecord
  <2> QED
    BY <1>1, <1>2, <1>3, <2>2, <2>4, <2>5, <2>6 DEF BridgeTyped, SaidMove
<1> QED
  BY <1>6, <1>7, <1>8, <1>9, <1>10 DEF BridgeInv
-----------------------------------------------------------------------------
(* Restarts                                                                *)

LEMMA FreshTyped ==
  /\ Fresh \in [live : BOOLEAN, seq : Nat, shown : [Prompts -> Shown], seen : SUBSET Messages]
  /\ ~Fresh.live /\ Fresh.seq = 0
<1>1. [p \in Prompts |-> "nothing"] \in [Prompts -> Shown]
  BY DEF Shown
<1> QED
  BY <1>1 DEF Fresh

LEMMA NoJobTyped == NoJob \in JobRecord
BY DEF NoJob, JobRecord, JobKinds, JobStages, Subjects

LEMMA StartOverKeeps ==
  ASSUME BridgeInv, StartOver, UNCHANGED <<given, durable, posted, inputs>>, faults' \in 0 .. MaxFaults,
         LogGoesOn, LogSound', PromptsMove, notices' \subseteq Prompts,
         prompt' \in [Prompts -> {"unasked", "pending", "answered", "withdrawn", "lost"}]
  PROVE  BridgeInv'
<1>1. BridgeTyped /\ LogSound /\ LinkSound /\ QueueSound /\ JobSound /\ StoreSound /\ CardSound /\ ResultSound
        /\ MirrorSound /\ PostsSound
  BY DEF BridgeInv
<1>2. CardsMove /\ SaidMove
  BY <1>1, InFlightMoves DEF StartOver
<1>3. /\ link' = [phase |-> "down", next |-> 0] /\ queue' = <<>> /\ worker' = Fresh /\ job' = NoJob
      /\ message' = Silenced
  BY DEF StartOver
<1>4. LinkEnds
  BY <1>3, FreshTyped DEF LinkEnds
<1>5. LinkSound' /\ InLine' /\ JobSound' /\ StoreSound' /\ CardSound' /\ ResultSound' /\ MirrorSound'
  BY <1>1, <1>2, <1>4, StopKeeps
<1>6. QueueSound'
  BY <1>3 DEF QueueSound
<1>7. PostsSound'
  BY <1>1, <1>3 DEF PostsSound, Silenced
<1>8. BridgeTyped'
  <2>1. link' \in [phase : Phases, next : Nat] /\ link'.next = 0
    BY <1>3 DEF Phases
  <2>2. /\ worker' \in [live : BOOLEAN, seq : Nat, shown : [Prompts -> Shown], seen : SUBSET Messages]
        /\ worker'.seq = 0 /\ job' \in JobRecord
    BY <1>3, FreshTyped, NoJobTyped
  <2>3. message' \in [Messages -> {"unsent", "queued", "delivered", "told", "dropped", "past"}]
    BY <1>3 DEF Silenced
  <2>4. Bounded'
    BY <1>1, <2>1, <2>2, BridgeParts DEF Bounded, BridgeTyped, durable, LogGoesOn
  <2>5. cards' \in Seq(CardRecord) /\ \A c \in DOMAIN cards' : cards'[c] \in CardRecord
    BY <1>2 DEF CardsMove
  <2>6. log' \in Seq(EntryRecord) /\ \A n \in DOMAIN log' : log'[n] \in EntryRecord
    BY DEF LogGoesOn
  <2>7. queue' \in Seq(Work) /\ Len(queue') <= QueueSize /\ \A i \in DOMAIN queue' : queue'[i] \in Work
    BY <1>3, BridgeAssumption
  <2>8. BridgeTypeOK'
    BY <1>1, <2>1, <2>2, <2>3, <2>5, <2>6, <2>7 DEF BridgeTyped, BridgeTypeOK, given, durable, CardRecord, EntryRecord
  <2>9. \A i \in 1 .. Len(said') : said'[i] \in 1 .. Len(log')
    <3>1. Len(log) \in Nat /\ Len(log') \in Nat /\ Len(log') >= Len(log)
      BY <1>1, BridgeParts DEF LogGoesOn
    <3> QED
      BY <3>1, <1>2 DEF SaidMove
  <2> QED
    BY <1>1, <1>2, <2>2, <2>4, <2>5, <2>6, <2>7, <2>8, <2>9 DEF BridgeTyped, SaidMove
<1> QED
  BY <1>5, <1>6, <1>7, <1>8 DEF BridgeInv

LEMMA FaultTyped == BridgeInv /\ Fault => faults' \in 0 .. MaxFaults
BY BridgeAssumption DEF Fault, BridgeInv, BridgeTyped, BridgeTypeOK

LEMMA InputTyped == BridgeInv /\ Input => inputs' \in 0 .. MaxInputs
BY BridgeAssumption DEF Input, BridgeInv, BridgeTyped, BridgeTypeOK

LEMMA BridgeRestartKeeps == BridgeInv /\ BridgeRestart => BridgeInv'
<1> SUFFICES ASSUME BridgeInv, BridgeRestart PROVE BridgeInv'
  OBVIOUS
<1>1. StartOver /\ UNCHANGED <<given, daemon, durable, posted, inputs>> /\ faults' \in 0 .. MaxFaults
  BY FaultTyped DEF BridgeRestart
<1>2. BridgeTyped /\ LogSound /\ UNCHANGED <<log, recorded, prompt, notices>>
  BY <1>1 DEF BridgeInv, daemon, given
<1>3. LogSound' /\ LogGoesOn /\ PromptsMove
  BY <1>2, PromptsStay, LogStays, LogSoundStays DEF OverOrAsked
<1> QED
  BY <1>1, <1>2, <1>3, StartOverKeeps, BridgeParts

\* Recovery records the results of the requests that had none.
LEMMA DaemonRestartKeeps == BridgeInv /\ DaemonRestart => BridgeInv'
<1> SUFFICES ASSUME BridgeInv, DaemonRestart PROVE BridgeInv'
  OBVIOUS
<1>1. /\ StartOver /\ UNCHANGED <<given, durable, posted, inputs>> /\ faults' \in 0 .. MaxFaults
      /\ notices' = {}
      /\ prompt' = [p \in Prompts |->
           CASE p \in recorded /\ prompt[p] # "unasked" /\ ~Logged("requested", p) -> "lost"
             [] prompt[p] = "pending" /\ (p \notin recorded \/ Logged("requested", p)) -> "withdrawn"
             [] OTHER -> prompt[p]]
  BY FaultTyped DEF DaemonRestart
<1>2. BridgeTyped /\ LogSound
  BY DEF BridgeInv
<1>3. /\ log \in Seq(EntryRecord) /\ Len(log) \in Nat /\ DOMAIN log = 1 .. Len(log)
      /\ recorded \subseteq Prompts
      /\ prompt \in [Prompts -> {"unasked", "pending", "answered", "withdrawn", "lost"}]
  BY <1>2, BridgeParts
<1>4. /\ \A p \in Prompts : Logged("requested", p) <=> \E n \in 1 .. Len(log) : IsRequest(n, p)
      /\ \A p \in Prompts : Logged("resolved", p) <=> \E n \in 1 .. Len(log) : IsResult(n, p)
  BY <1>3 DEF Logged, IsRequest, IsResult
<1>5. prompt' \in [Prompts -> {"unasked", "pending", "answered", "withdrawn", "lost"}]
  BY <1>1, <1>3
<1>6. PromptsMove
  BY <1>1, <1>3 DEF PromptsMove, Asked, Past
<1>7. \A p \in Prompts : Logged("requested", p) =>
        /\ OverOrAsked(p) /\ OverOrAsked(p)' /\ Over(p)'
  <2> SUFFICES ASSUME NEW p \in Prompts, Logged("requested", p)
               PROVE  OverOrAsked(p) /\ OverOrAsked(p)' /\ Over(p)'
    OBVIOUS
  <2>1. OverOrAsked(p)
    BY <1>2, <1>4 DEF LogSound
  <2>2. prompt'[p] = IF prompt[p] = "pending" THEN "withdrawn" ELSE prompt[p]
    BY <1>1
  <2> QED
    BY <2>1, <2>2 DEF OverOrAsked, Over
<1>8. PICK order \in [1 .. Cardinality(Interrupted) -> Interrupted] :
        /\ Interrupted = {order[i] : i \in DOMAIN order}
        /\ log' = log \o [i \in DOMAIN order |-> [kind |-> "resolved", of |-> order[i]]]
  BY DEF DaemonRestart
<1>9. Cardinality(Interrupted) \in Nat
  <2>1. IsFiniteSet(1 .. Len(log))
    BY <1>3, FS_Interval
  <2> DEFINE S == {log[n].of : n \in 1 .. Len(log)}
             f == [n \in 1 .. Len(log) |-> log[n].of]
  <2>2. IsFiniteSet(S)
    <3>1. f \in Surjection(1 .. Len(log), S)
      BY DEF Surjection
    <3> QED
      BY <2>1, <3>1, FS_Surjection
  <2>3. Interrupted \subseteq S
    BY <1>3 DEF Interrupted, Logged
  <2> QED
    BY <2>2, <2>3, FS_Subset, FS_CardinalityType
<1> DEFINE tail == [i \in DOMAIN order |-> [kind |-> "resolved", of |-> order[i]]]
<1>10. tail \in Seq(EntryRecord) /\ Len(tail) = Cardinality(Interrupted)
       /\ \A i \in 1 .. Len(tail) : tail[i] = [kind |-> "resolved", of |-> order[i]] /\ order[i] \in Interrupted
  <2>1. \A p \in Interrupted : [kind |-> "resolved", of |-> p] \in EntryRecord
    BY <1>3 DEF Interrupted, EntryRecord, EventKinds, Subjects
  <2> QED
    BY <2>1, <1>9
<1>11. log' = log \o tail
  BY <1>8
<1> HIDE DEF tail
<1>12. /\ log' \in Seq(EntryRecord) /\ Len(log') = Len(log) + Len(tail) /\ Len(tail) \in Nat
       /\ \A n \in 1 .. Len(log) : log'[n] = log[n]
       /\ \A n \in Len(log) + 1 .. Len(log') : log'[n] = tail[n - Len(log)] /\ n - Len(log) \in 1 .. Len(tail)
  BY <1>3, <1>10, <1>11
<1>13. LogGoesOn
  BY <1>3, <1>12 DEF LogGoesOn
<1>14. \A n \in Len(log) + 1 .. Len(log') : \E p \in Interrupted : log'[n] = [kind |-> "resolved", of |-> p]
  BY <1>10, <1>12
<1>18. \A n \in 1 .. Len(log') : n \in 1 .. Len(log) \/ n \in Len(log) + 1 .. Len(log')
  BY <1>3, <1>12
<1>15. ASSUME NEW p \in Prompts, NEW n \in 1 .. Len(log')
       PROVE  IsRequest(n, p)' <=> n \in 1 .. Len(log) /\ IsRequest(n, p)
  <2>1. CASE n \in 1 .. Len(log)
    BY <2>1, <1>12 DEF IsRequest
  <2>2. CASE n \in Len(log) + 1 .. Len(log')
    <3>1. log'[n].kind = "resolved" /\ n \notin 1 .. Len(log)
      <4>1. PICK q \in Interrupted : log'[n] = [kind |-> "resolved", of |-> q]
        BY <2>2, <1>14
      <4> QED
        BY <4>1, <2>2, <1>3
    <3> QED
      BY <3>1 DEF IsRequest
  <2> QED
    BY <2>1, <2>2, <1>18
<1>16. ASSUME NEW p \in Prompts, NEW n \in 1 .. Len(log'), IsResult(n, p)'
       PROVE  IF n \in 1 .. Len(log) THEN IsResult(n, p) ELSE p \in Interrupted
  <2>1. CASE n \in 1 .. Len(log)
    BY <1>16, <2>1, <1>12 DEF IsResult
  <2>2. CASE n \in Len(log) + 1 .. Len(log')
    <3>1. PICK q \in Interrupted : log'[n] = [kind |-> "resolved", of |-> q]
      BY <2>2, <1>14
    <3>2. q = log'[n].of /\ p = log'[n].of /\ n \notin 1 .. Len(log)
      BY <3>1, <1>16, <2>2, <1>3 DEF IsResult
    <3> QED
      BY <3>1, <3>2
  <2> QED
    BY <2>1, <2>2, <1>18
<1>17. LogSound'
  <2>1. \A n \in 1 .. Len(log') : log'[n].kind \in {"requested", "resolved"} => log'[n].of \in recorded
    <3>1. \A p \in Interrupted : p \in recorded
      BY DEF Interrupted
    <3> SUFFICES ASSUME NEW n \in 1 .. Len(log'), log'[n].kind \in {"requested", "resolved"}
                 PROVE  log'[n].of \in recorded
      OBVIOUS
    <3>2. CASE n \in 1 .. Len(log)
      BY <3>2, <1>2, <1>12 DEF LogSound
    <3>3. CASE n \in Len(log) + 1 .. Len(log')
      <4>1. PICK q \in Interrupted : log'[n] = [kind |-> "resolved", of |-> q]
        BY <3>3, <1>14
      <4> QED
        BY <4>1, <3>1
    <3> QED
      BY <3>2, <3>3, <1>18
  <2>2. \A p \in Prompts, n \in 1 .. Len(log') : IsRequest(n, p)' => OverOrAsked(p)'
    BY <1>4, <1>7, <1>15
  <2>3. ASSUME NEW p \in Prompts, NEW n \in 1 .. Len(log'), IsResult(n, p)'
        PROVE  Over(p)' /\ \E k \in 1 .. n : IsRequest(k, p)'
    <3>1. Logged("requested", p) /\ \E k \in 1 .. n : IsRequest(k, p)
      <4>1. CASE n \in 1 .. Len(log)
        <5>1. \E k \in 1 .. n : IsRequest(k, p)
          BY <2>3, <4>1, <1>16, <1>2 DEF LogSound
        <5>2. \A k \in 1 .. n : k \in 1 .. Len(log)
          BY <4>1, <1>3
        <5> QED
          BY <5>1, <5>2, <1>4
      <4>2. CASE n \notin 1 .. Len(log)
        <5>1. Logged("requested", p)
          BY <2>3, <4>2, <1>16 DEF Interrupted
        <5>2. PICK k \in 1 .. Len(log) : IsRequest(k, p)
          BY <5>1, <1>4
        <5>3. k \in 1 .. n
          BY <5>2, <4>2, <1>3, <1>12
        <5> QED
          BY <5>1, <5>2, <5>3
      <4> QED
        BY <4>1, <4>2
    <3>2. \A k \in 1 .. n : IsRequest(k, p) => IsRequest(k, p)'
      BY <1>12, <1>3 DEF IsRequest
    <3> QED
      BY <3>1, <3>2, <1>7
  <2>4. \A p \in Prompts, n, k \in 1 .. Len(log') : IsRequest(n, p)' /\ IsRequest(k, p)' => n = k
    BY <1>15, <1>2 DEF LogSound
  <2>5. recorded' = recorded
    BY <1>1 DEF given
  <2> QED
    BY <2>1, <2>2, <2>3, <2>4, <2>5 DEF LogSound
<1> QED
  BY <1>1, <1>5, <1>6, <1>13, <1>17, StartOverKeeps

LEMMA UnheardMoves ==
  ASSUME BridgeInv, message' = Unheard
  PROVE  /\ MessagesMove
         /\ message' \in [Messages -> {"unsent", "queued", "delivered", "told", "dropped", "past"}]
<1>1. message \in [Messages -> {"unsent", "queued", "delivered", "told", "dropped", "past"}]
  BY BridgeParts DEF BridgeInv
<1>2. job.kind = "message" => message[job.of] \notin {"unsent", "past"}
  BY DEF BridgeInv, JobSound
<1> QED
  BY <1>1, <1>2 DEF Unheard, MessagesMove

LEMMA LinkLostKeeps == BridgeInv /\ LinkLost => BridgeInv'
<1> SUFFICES ASSUME BridgeInv, LinkLost PROVE BridgeInv'
  OBVIOUS
<1>1. /\ InFlight /\ CancelLink /\ faults' \in 0 .. MaxFaults /\ message' = Unheard
      /\ UNCHANGED <<given, daemon, durable, posted, inputs>>
  BY FaultTyped DEF LinkLost
<1>2. inputs \in 0 .. MaxInputs /\ notices \subseteq Prompts
  BY BridgeParts DEF BridgeInv
<1> QED
  BY <1>1, <1>2, CutKeeps, UnheardMoves DEF daemon
-----------------------------------------------------------------------------
(* The link                                                                *)

LEMMA TypedKeeps ==
  ASSUME BridgeTyped, UNCHANGED given, LogGoesOn,
         prompt' \in [Prompts -> {"unasked", "pending", "answered", "withdrawn", "lost"}],
         notices' \subseteq Prompts, link' \in [phase : Phases, next : Nat],
         queue' \in Seq(Work), Len(queue') <= QueueSize,
         worker' \in [live : BOOLEAN, seq : Nat, shown : [Prompts -> Shown], seen : SUBSET Messages],
         job' \in JobRecord, store' \in [Prompts -> [card : Nat, seq : Nat]], cursor' \in Nat, Bounded',
         cards' \in Seq(CardRecord), said' \in Seq(Nat), \A i \in 1 .. Len(said') : said'[i] \in 1 .. Len(log'),
         message' \in [Messages -> {"unsent", "queued", "delivered", "told", "dropped", "past"}],
         posted' \in [Messages -> Nat], inputs' \in 0 .. MaxInputs, faults' \in 0 .. MaxFaults
  PROVE  BridgeTyped'
<1>1. /\ \A n \in DOMAIN log' : log'[n] \in EntryRecord
      /\ \A i \in DOMAIN queue' : queue'[i] \in Work
      /\ \A c \in DOMAIN cards' : cards'[c] \in CardRecord
      /\ log' \in Seq(EntryRecord)
  BY DEF LogGoesOn
<1>2. BridgeTypeOK'
  BY <1>1 DEF BridgeTyped, BridgeTypeOK, given, CardRecord, EntryRecord
<1> QED
  BY <1>1, <1>2 DEF BridgeTyped

LEMMA SaidTyped ==
  BridgeTyped /\ UNCHANGED said /\ LogGoesOn
    => said' \in Seq(Nat) /\ \A i \in 1 .. Len(said') : said'[i] \in 1 .. Len(log')
<1> SUFFICES ASSUME BridgeTyped, UNCHANGED said, LogGoesOn
             PROVE  said' \in Seq(Nat) /\ \A i \in 1 .. Len(said') : said'[i] \in 1 .. Len(log')
  OBVIOUS
<1>1. Len(log) \in Nat /\ Len(log') \in Nat /\ Len(log') >= Len(log)
  BY BridgeParts DEF LogGoesOn
<1>2. \A i \in 1 .. Len(said) : said[i] \in 1 .. Len(log)
  BY DEF BridgeTyped
<1> QED
  BY <1>1, <1>2, BridgeParts

\* What the invariant says of the job needs no more than this.
LEMMA JobKeeps ==
  ASSUME JobSound, UNCHANGED <<job, log, store>>, worker'.seq = worker.seq, worker'.seen = worker.seen,
         posted' = posted, job \in JobRecord, MessagesMove, PromptsMove, worker.seen \subseteq Messages
  PROVE  JobSound'
<1>1. \A n : IsChat(n)' <=> IsChat(n)
  BY DEF IsChat
<1>2. job.listed \subseteq Prompts /\ job.todo \subseteq Prompts
  BY DEF JobRecord
<1>3. job.kind = "message" => message'[job.of] \notin {"unsent", "past"}
  BY DEF JobSound, MessagesMove
<1>4. \A p \in Prompts : (Asked(p) => Asked(p)') /\ (Past(p) => Past(p)')
  BY DEF PromptsMove
<1>5. (Past(job.of) => Past(job.of)') \/ job.of \notin Prompts
  <2>1. \A q : q = job.of => job'.of = q
    OBVIOUS
  <2> QED
    BY <2>1, <1>4 DEF Past
<1>6. (Asked(job.of) => Asked(job.of)') \/ job.of \notin Prompts
  BY <1>4 DEF Asked
<1>7. job.stage = "settle" => \A p \in job.todo : store[p] # NoCard /\ Past(p)'
  BY <1>2, <1>4 DEF JobSound
<1>8. \A p \in job.listed : Asked(p)'
  BY <1>2, <1>4 DEF JobSound
<1> QED
  BY <1>1, <1>3, <1>5, <1>6, <1>7, <1>8 DEF JobSound

LEMMA MessagesStay == UNCHANGED message => MessagesMove
BY DEF MessagesMove

\* A link that is down, or that just came up, delivers nothing.
LEMMA LinkMoves ==
  ASSUME BridgeInv, link.phase \in {"down", "lost"}, NEW phase \in {"attached", "down"},
         link' = [phase |-> phase, next |-> 0],
         UNCHANGED <<given, daemon, queue, worker, job, durable, discord, human, faults>>
  PROVE  BridgeInv'
<1>1. BridgeTyped /\ LogSound /\ LinkSound /\ QueueSound /\ InLine /\ JobSound /\ StoreSound /\ CardSound /\ ResultSound
        /\ MirrorSound /\ PostsSound
  BY DEF BridgeInv
<1>2. /\ UNCHANGED <<board, recorded, log, prompt, notices, queue, worker, job, store, cursor, cards, said, message,
                     posted, inputs, faults>>
      /\ link'.phase = phase /\ link'.next = 0
  BY DEF given, daemon, durable, discord, human
<1>3. MessagesMove /\ PromptsMove /\ LogGoesOn /\ CardsMove
  BY <1>1, <1>2, MessagesStay, PromptsStay, LogStays, CardsStay, BridgeParts
<1>4. ~worker.live /\ \A i \in 1 .. Len(queue) : ~queue[i].live
  BY <1>1 DEF LinkSound, QueueSound, WorkSound
<1>5. BridgeTyped'
  <2>1. link' \in [phase : Phases, next : Nat] /\ Bounded'
    BY <1>1, <1>2, BridgeParts DEF Phases, Bounded, BridgeTyped
  <2> QED
    BY <1>1, <1>2, <1>3, <2>1, TypedKeeps, SaidTyped, BridgeParts DEF given, BridgeTyped, BridgeTypeOK
<1>6. LogSound'
  BY <1>1, <1>2, LogSoundStays DEF Over, OverOrAsked
<1>7. LinkSound'
  BY <1>1, <1>2, <1>4 DEF LinkSound
<1>8. QueueSound'
  BY <1>1, <1>2, <1>4 DEF QueueSound, WorkSound, Up
<1>9. InLine'
  BY <1>2, <1>4 DEF InLine, Up
<1>10. JobSound'
  BY <1>1, <1>2, <1>3, JobKeeps, BridgeParts
<1>11. StoreSound' /\ CardSound'
  BY <1>1, <1>2, <1>3, StoreKeeps, CardsKeep, BridgeParts
<1>12. ResultSound'
  <2>1. ~Subscribing' /\ job = NoJob
    BY <1>1, <1>2, <1>4 DEF Subscribing, LinkSound
  <2> QED
    BY <1>1, <1>2, <2>1 DEF ResultSound, IsResult, Syncs, NoJob
<1>13. MirrorSound'
  BY <1>1, <1>2, MirrorKeeps DEF SnapshotsStay, Up
<1>14. PostsSound'
  BY <1>1, <1>2, <1>3, PostsKeep, BridgeParts
<1> QED
  BY <1>5, <1>6, <1>7, <1>8, <1>9, <1>10, <1>11, <1>12, <1>13, <1>14 DEF BridgeInv

LEMMA AttachKeeps == BridgeInv /\ (Attach \/ Detached) => BridgeInv'
<1>1. BridgeInv /\ Attach => BridgeInv'
  BY LinkMoves DEF Attach
<1>2. BridgeInv /\ Detached => BridgeInv'
  BY LinkMoves DEF Detached
<1> QED
  BY <1>1, <1>2

\* A subscription that begins, a card that changes: steps that leave the worker
\* and its queue alone.
LEMMA BesideKeeps ==
  ASSUME BridgeInv, UNCHANGED <<given, log, prompt, notices, queue, worker, job, durable, said, human>>,
         link' = link \/ (link.phase = "bound" /\ link' = [link EXCEPT !.phase = "ready"]),
         CardsMove, faults' \in 0 .. MaxFaults
  PROVE  BridgeInv'
<1>1. BridgeTyped /\ LogSound /\ LinkSound /\ QueueSound /\ InLine /\ JobSound /\ StoreSound /\ CardSound /\ ResultSound
        /\ MirrorSound /\ PostsSound
  BY DEF BridgeInv
<1>2. UNCHANGED <<board, recorded, store, cursor, message, posted, inputs>>
  BY DEF given, durable, human
<1>3. MessagesMove /\ PromptsMove /\ LogGoesOn
  BY <1>1, <1>2, MessagesStay, PromptsStay, LogStays
<1>4. /\ link' \in [phase : Phases, next : Nat] /\ link'.next = link.next
      /\ link'.phase = link.phase \/ (link.phase = "bound" /\ link'.phase = "ready")
  <2>1. link \in [phase : Phases, next : Nat] /\ "ready" \in Phases
    BY <1>1 DEF BridgeTyped, BridgeTypeOK, Phases
  <2> QED
    BY <2>1
<1>5. BridgeTyped'
  <2>1. Bounded'
    BY <1>1, <1>2, <1>4 DEF Bounded, BridgeTyped
  <2>2. cards' \in Seq(CardRecord)
    BY DEF CardsMove
  <2> QED
    BY <1>1, <1>2, <1>3, <1>4, <2>1, <2>2, TypedKeeps, SaidTyped, BridgeParts DEF BridgeTyped, BridgeTypeOK
<1>6. LogSound'
  BY <1>1, <1>2, LogSoundStays DEF Over, OverOrAsked
<1>7. LinkSound'
  BY <1>1, <1>4 DEF LinkSound
<1>8. QueueSound' /\ InLine' /\ SnapshotsStay /\ \A n \in Nat : Coming(n) <=> Coming(n)'
  BY <1>1, <1>3, <1>4, QueueStays
<1>9. JobSound'
  BY <1>1, <1>2, <1>3, JobKeeps, BridgeParts
<1>10. StoreSound' /\ CardSound'
  BY <1>1, <1>2, <1>3, StoreKeeps, CardsKeep, BridgeParts
<1>11. ResultSound'
  <2>1. \A n \in 1 .. Len(log) : Coming(n) => Coming(n)'
    BY <1>8
  <2> QED
    BY <1>1, <1>2, <1>4, <2>1, ResultKeeps, BridgeParts DEF Subscribing, Finishing, Syncs
<1>12. MirrorSound'
  BY <1>1, <1>2, <1>8, MirrorKeeps
<1>13. PostsSound'
  BY <1>1, <1>2, <1>3, PostsKeep, BridgeParts
<1> QED
  BY <1>5, <1>6, <1>7, <1>8, <1>9, <1>10, <1>11, <1>12, <1>13 DEF BridgeInv

LEMMA SubscribeKeeps == BridgeInv /\ Subscribe => BridgeInv'
BY BesideKeeps, CardsStay, BridgeParts DEF Subscribe, daemon, discord, BridgeInv, human

LEMMA EditsKeep ==
  /\ BridgeInv /\ (\E p \in Prompts : Disable(p)) => BridgeInv'
  /\ BridgeInv /\ (\E c \in DOMAIN cards : Delete(c)) => BridgeInv'
<1>1. ASSUME BridgeInv, NEW p \in Prompts, Disable(p) PROVE BridgeInv'
  <2>1. store[p].card \in Nat /\ cards \in Seq(CardRecord) /\ "offline" \in Texts /\ faults \in 0 .. MaxFaults
    BY <1>1, BridgeParts DEF BridgeInv, Texts
  <2>2. CardsMove
    BY <1>1, <2>1, CardEdited DEF Disable
  <2> QED
    BY <1>1, <2>1, <2>2, BesideKeeps DEF Disable, daemon, human
<1>2. ASSUME BridgeInv, NEW c \in DOMAIN cards, Delete(c) PROVE BridgeInv'
  <2>1. cards \in Seq(CardRecord) /\ "deleted" \in Texts /\ c \in Nat
    BY <1>2, BridgeParts DEF BridgeInv, Texts
  <2>2. cards' = Card(c, "deleted")
    BY <1>2 DEF Delete, Card
  <2>3. CardsMove
    BY <2>1, <2>2, CardEdited
  <2> QED
    BY <1>2, <2>3, BesideKeeps, FaultTyped DEF Delete, daemon, human
<1> QED
  BY <1>1, <1>2
-----------------------------------------------------------------------------
(* The queue                                                               *)

LEMMA OverloadKeeps ==
  ASSUME BridgeInv, Overload, UNCHANGED <<given, log, prompt, durable, posted>>,
         notices' \subseteq Prompts, inputs' \in 0 .. MaxInputs, faults' \in 0 .. MaxFaults,
         message' \in [Messages -> {"unsent", "queued", "delivered", "told", "dropped", "past"}],
         MessagesMove
  PROVE  BridgeInv'
BY CutKeeps DEF Overload

\* A notice, a message or a click gets in line.
LEMMA InputKeeps ==
  ASSUME BridgeInv, Room, NEW kind \in {"notice", "message", "click"}, NEW of, Enqueue(kind, of, 0),
         of \in (IF kind = "message" THEN Messages ELSE Prompts),
         kind = "message" => message'[of] \notin {"unsent", "past"},
         link.phase \notin {"down", "lost"},
         UNCHANGED <<given, log, prompt, link, worker, job, durable, discord, posted>>,
         notices' \subseteq Prompts, inputs' \in 0 .. MaxInputs, faults' \in 0 .. MaxFaults,
         message' \in [Messages -> {"unsent", "queued", "delivered", "told", "dropped", "past"}],
         MessagesMove
  PROVE  BridgeInv'
<1>1. BridgeTyped /\ LogSound /\ LinkSound /\ QueueSound /\ InLine /\ JobSound /\ StoreSound /\ CardSound /\ ResultSound
        /\ MirrorSound /\ PostsSound
  BY DEF BridgeInv
<1>2. UNCHANGED <<board, recorded, store, cursor, cards, said>>
  BY DEF given, durable, discord
<1> DEFINE w == [kind |-> kind, of |-> of, seq |-> 0, live |-> TRUE]
<1>3. /\ w \in Work /\ w.kind = kind /\ w.of = of /\ w.live /\ queue' = Append(queue, w)
      /\ queue \in Seq(Work)
  BY <1>1, BridgeParts DEF Work, Subjects, Enqueue
<1>4. /\ (kind = "message" => of \in Messages) /\ (kind \in {"notice", "click"} => of \in Prompts)
      /\ queue' \in Seq(Work) /\ Len(queue') <= QueueSize
  <2>1. Len(queue) \in Nat /\ Len(queue) < QueueSize /\ QueueSize \in Nat
    BY <1>1, BridgeAssumption, BridgeParts DEF Room
  <2>2. queue' \in Seq(Work) /\ Len(queue') = Len(queue) + 1
    BY <1>3
  <2> QED
    BY <2>1, <2>2
<1> HIDE DEF w
<1>5. PromptsMove /\ LogGoesOn /\ CardsMove
  BY <1>1, <1>2, PromptsStay, LogStays, CardsStay, BridgeParts
<1>6. QueueSound' /\ InLine' /\ SnapshotsStay /\ \A n \in Nat : Coming(n) => Coming(n)'
  BY <1>1, <1>3, <1>4, EnqueueKeeps
<1>7. BridgeTyped'
  <2>1. Bounded'
    BY <1>1, <1>2 DEF Bounded, BridgeTyped
  <2> QED
    BY <1>1, <1>2, <1>4, <1>5, <2>1, TypedKeeps, SaidTyped, BridgeParts DEF BridgeTyped, BridgeTypeOK
<1>8. LogSound'
  BY <1>1, <1>2, LogSoundStays DEF Over, OverOrAsked
<1>9. LinkSound'
  BY <1>1 DEF LinkSound
<1>10. JobSound'
  BY <1>1, <1>2, <1>5, JobKeeps, BridgeParts
<1>11. StoreSound' /\ CardSound'
  BY <1>1, <1>2, <1>5, StoreKeeps, CardsKeep, BridgeParts
<1>12. ResultSound'
  <2>1. \A n \in 1 .. Len(log) : Coming(n) => Coming(n)'
    BY <1>6
  <2> QED
    BY <1>1, <1>2, <2>1, ResultKeeps, BridgeParts DEF Subscribing, Finishing, Syncs
<1>13. MirrorSound'
  BY <1>1, <1>2, <1>6, MirrorKeeps
<1>14. PostsSound'
  BY <1>1, <1>2, PostsKeep, BridgeParts
<1> QED
  BY <1>6, <1>7, <1>8, <1>9, <1>10, <1>11, <1>12, <1>13, <1>14 DEF BridgeInv

LEMMA NotifyKeeps == BridgeInv => \A p \in Prompts : Notify(p) => BridgeInv'
<1> SUFFICES ASSUME BridgeInv, NEW p \in Prompts, Notify(p) PROVE BridgeInv'
  OBVIOUS
<1>1. /\ notices' \subseteq Prompts /\ inputs \in 0 .. MaxInputs /\ faults \in 0 .. MaxFaults
      /\ message \in [Messages -> {"unsent", "queued", "delivered", "told", "dropped", "past"}]
      /\ UNCHANGED <<given, log, prompt, durable, posted, inputs, faults>>
      /\ QueueSound /\ BridgeTyped
  BY BridgeParts DEF Notify, BridgeInv
<1>2. CASE Attached /\ ~Room
  BY <1>1, <1>2, OverloadKeeps, UnheardMoves DEF Notify
<1>3. CASE Attached /\ Room
  <2>1. Enqueue("notice", p, 0) /\ UNCHANGED <<link, worker, job, message, discord, faults>>
    BY <1>3 DEF Notify
  <2>2. link.phase \notin {"down", "lost"}
    BY <1>3 DEF Attached
  <2> QED
    BY <1>1, <1>3, <2>1, <2>2, InputKeeps, MessagesStay
<1>4. CASE ~Attached
  <2>1. UNCHANGED <<given, log, prompt, link, queue, worker, job, durable, discord, message, posted, inputs, faults>>
    BY <1>1, <1>4 DEF Notify
  <2>2. BridgeTyped'
    BY <1>1, <2>1 DEF BridgeTyped, BridgeTypeOK, Bounded, given, durable, discord
  <2>3. UNCHANGED <<board, recorded, store, cursor, cards, said>>
    BY <2>1 DEF given, durable, discord
  <2>4. LogSound' /\ LinkSound' /\ QueueSound' /\ InLine' /\ JobSound'
    BY <2>1, <2>3 DEF BridgeInv, LogSound, IsRequest, IsResult, Over, OverOrAsked, LinkSound, QueueSound, WorkSound,
                      InLine, JobSound, Up, Delivered, IsChat, Asked, Past
  <2>5. StoreSound' /\ CardSound' /\ ResultSound' /\ MirrorSound' /\ PostsSound'
    BY <2>1, <2>3 DEF BridgeInv, StoreSound, CardSound, FinalIsTrue, ResultSound, MirrorSound, PostsSound, IsResult,
                      Subscribing, Coming, Delivered, Up, Finishing, Syncs, Ordered, CursorIsBehind, IsChat, IsSaid,
                      SaidUpTo, Asked
  <2> QED
    BY <2>2, <2>4, <2>5 DEF BridgeInv
<1> QED
  BY <1>2, <1>3, <1>4

LEMMA ArriveKeeps == BridgeInv => \A m \in Messages : Arrive(m) => BridgeInv'
<1> SUFFICES ASSUME BridgeInv, NEW m \in Messages, Arrive(m) PROVE BridgeInv'
  OBVIOUS
<1>1. /\ notices \subseteq Prompts /\ faults \in 0 .. MaxFaults /\ inputs' \in 0 .. MaxInputs
      /\ message \in [Messages -> {"unsent", "queued", "delivered", "told", "dropped", "past"}]
      /\ message[m] = "unsent"
      /\ UNCHANGED <<given, log, prompt, notices, durable, posted, faults>>
  BY InputTyped, BridgeParts DEF Arrive, BridgeInv, daemon
<1>2. CASE Routed /\ Room
  <2>1. /\ Enqueue("message", m, 0) /\ message' = [message EXCEPT ![m] = "queued"]
        /\ UNCHANGED <<link, worker, job, discord, faults>>
    BY <1>2 DEF Arrive
  <2>2. /\ MessagesMove /\ message'[m] = "queued"
        /\ message' \in [Messages -> {"unsent", "queued", "delivered", "told", "dropped", "past"}]
    BY <1>1, <2>1 DEF MessagesMove
  <2>3. link.phase \notin {"down", "lost"}
    BY <1>2 DEF Routed
  <2> QED
    BY <1>1, <1>2, <2>1, <2>2, <2>3, InputKeeps
<1>3. CASE Routed /\ ~Room
  <2>1. Overload /\ message' = [Unheard EXCEPT ![m] = "told"]
    BY <1>3 DEF Arrive
  <2>2. job.kind = "message" => message[job.of] \notin {"unsent", "past"}
    BY DEF BridgeInv, JobSound
  <2>3. /\ MessagesMove
        /\ message' \in [Messages -> {"unsent", "queued", "delivered", "told", "dropped", "past"}]
    BY <1>1, <2>1, <2>2 DEF MessagesMove, Unheard
  <2> QED
    BY <1>1, <2>1, <2>3, OverloadKeeps
<1>4. CASE ~Routed
  <2>1. /\ message' = [message EXCEPT ![m] = "told"]
        /\ UNCHANGED <<link, queue, worker, job, discord, faults>>
    BY <1>4 DEF Arrive
  <2>2. /\ MessagesMove
        /\ message' \in [Messages -> {"unsent", "queued", "delivered", "told", "dropped", "past"}]
    BY <1>1, <2>1 DEF MessagesMove
  <2>3. BridgeTyped /\ LogSound /\ LinkSound /\ QueueSound /\ InLine /\ JobSound /\ StoreSound /\ CardSound /\ ResultSound
          /\ MirrorSound /\ PostsSound
    BY DEF BridgeInv
  <2>4. UNCHANGED <<board, recorded, store, cursor, cards, said>>
    BY <1>1, <2>1 DEF given, durable, discord
  <2>5. PromptsMove /\ LogGoesOn /\ CardsMove
    BY <1>1, <2>3, <2>4, PromptsStay, LogStays, CardsStay, BridgeParts
  <2>6. QueueSound' /\ InLine' /\ SnapshotsStay /\ \A n \in Nat : Coming(n) <=> Coming(n)'
    BY <1>1, <2>1, <2>2, <2>3, QueueStays
  <2>7. BridgeTyped'
    <3>1. Bounded'
      BY <1>1, <2>1, <2>3, <2>4 DEF Bounded, BridgeTyped
    <3> QED
      BY <1>1, <2>1, <2>2, <2>3, <2>4, <2>5, <3>1, TypedKeeps, SaidTyped, BridgeParts DEF BridgeTyped, BridgeTypeOK
  <2>8. LogSound' /\ LinkSound'
    BY <1>1, <2>1, <2>3, <2>4, LogSoundStays DEF Over, OverOrAsked, LinkSound
  <2>9. JobSound'
    BY <1>1, <2>1, <2>2, <2>3, <2>4, <2>5, JobKeeps, BridgeParts
  <2>10. StoreSound' /\ CardSound'
    BY <1>1, <2>3, <2>4, <2>5, StoreKeeps, CardsKeep, BridgeParts
  <2>11. ResultSound'
    <3>1. \A n \in 1 .. Len(log) : Coming(n) => Coming(n)'
      BY <2>6
    <3> QED
      BY <1>1, <2>1, <2>3, <2>4, <3>1, ResultKeeps, BridgeParts DEF Subscribing, Finishing, Syncs
  <2>12. MirrorSound'
    BY <1>1, <2>1, <2>3, <2>4, <2>6, MirrorKeeps
  <2>13. PostsSound'
    BY <1>1, <2>1, <2>2, <2>3, PostsKeep, BridgeParts
  <2> QED
    BY <2>6, <2>7, <2>8, <2>9, <2>10, <2>11, <2>12, <2>13 DEF BridgeInv
<1> QED
  BY <1>2, <1>3, <1>4

LEMMA ArriveAgainKeeps == BridgeInv => \A m \in Messages : ArriveAgain(m) => BridgeInv'
<1> SUFFICES ASSUME BridgeInv, NEW m \in Messages, ArriveAgain(m) PROVE BridgeInv'
  OBVIOUS
<1>1. /\ BridgeTyped /\ notices \subseteq Prompts /\ inputs \in 0 .. MaxInputs /\ faults' \in 0 .. MaxFaults
      /\ message \in [Messages -> {"unsent", "queued", "delivered", "told", "dropped", "past"}]
      /\ message[m] \notin {"unsent", "past"} /\ link.phase = "ready"
      /\ UNCHANGED <<given, log, prompt, notices, durable, posted, inputs>>
  BY FaultTyped, BridgeParts DEF BridgeInv, ArriveAgain, Routed, daemon
<1>2. CASE Room
  <2>1. Enqueue("message", m, 0) /\ UNCHANGED <<link, worker, job, message, discord>>
    BY <1>2 DEF ArriveAgain
  <2> QED
    BY <1>1, <1>2, <2>1, InputKeeps, MessagesStay
<1>3. CASE ~Room
  BY <1>1, <1>3, OverloadKeeps, UnheardMoves DEF ArriveAgain
<1> QED
  BY <1>2, <1>3

LEMMA ClickKeeps == BridgeInv => \A c \in DOMAIN cards : Click(c) => BridgeInv'
<1> SUFFICES ASSUME BridgeInv, NEW c \in DOMAIN cards, Click(c) PROVE BridgeInv'
  OBVIOUS
<1>1. /\ BridgeTyped /\ inputs' \in 0 .. MaxInputs /\ faults \in 0 .. MaxFaults /\ link.phase = "ready"
      /\ UNCHANGED <<given, log, prompt, notices, durable, posted, faults>>
      /\ notices \subseteq Prompts /\ cards[c].of \in Prompts
      /\ message \in [Messages -> {"unsent", "queued", "delivered", "told", "dropped", "past"}]
  BY InputTyped, BridgeParts DEF BridgeInv, BridgeTyped, BridgeTypeOK, Click, Routed, daemon
<1>2. CASE Room
  <2>1. /\ Enqueue("click", cards[c].of, 0)
        /\ UNCHANGED <<link, worker, job, message, discord, faults>>
    BY <1>2 DEF Click
  <2> QED
    BY <1>1, <1>2, <2>1, InputKeeps, MessagesStay
<1>3. CASE ~Room
  BY <1>1, <1>3, OverloadKeeps, UnheardMoves DEF Click
<1> QED
  BY <1>2, <1>3
LEMMA ReplayFromTyped ==
  ASSUME BridgeTyped, NEW seq \in Nat
  PROVE  /\ ReplayFrom(seq) \in Nat /\ ReplayFrom(seq) <= seq + 1
         /\ \A p \in recorded : store[p] # NoCard => ReplayFrom(seq) <= store[p].seq + 1
<1> DEFINE from == {seq + 1} \cup {store[p].seq + 1 : p \in Stored \cap recorded}
<1>1. from \in SUBSET Nat /\ seq + 1 \in from
  BY BridgeParts DEF Stored
<1>2. \A p \in recorded : store[p] # NoCard => store[p].seq + 1 \in from
  BY BridgeParts DEF Stored
<1>3. ReplayFrom(seq) = CHOOSE n \in from : \A o \in from : n <= o
  BY DEF ReplayFrom
<1> HIDE DEF from
<1>4. \E n \in from : \A o \in from : n <= o
  BY <1>1, Smallest
<1>5. ReplayFrom(seq) \in from /\ \A o \in from : ReplayFrom(seq) <= o
  BY <1>3, <1>4
<1> QED
  BY <1>1, <1>2, <1>5

\* The snapshot gets in line, and the subscription its start.
LEMMA ReconcileKeeps == BridgeInv /\ Reconcile => BridgeInv'
<1> SUFFICES ASSUME BridgeInv, Reconcile PROVE BridgeInv'
  OBVIOUS
<1>1. BridgeTyped /\ LogSound /\ LinkSound /\ QueueSound /\ InLine /\ JobSound /\ StoreSound /\ CardSound /\ ResultSound
        /\ MirrorSound /\ PostsSound
  BY DEF BridgeInv
<1>2. /\ link.phase = "attached" /\ Room
      /\ UNCHANGED <<board, recorded, log, prompt, notices, worker, job, store, cursor, cards, said, message, posted,
                     inputs, faults>>
      /\ link' = [phase |-> "binding", next |-> ReplayFrom(SnapshotSeq)]
      /\ Enqueue("snapshot", Nobody, SnapshotSeq)
  BY DEF Reconcile, given, daemon, durable, discord, human
<1> DEFINE seq == SnapshotSeq
           w == [kind |-> "snapshot", of |-> Nobody, seq |-> seq, live |-> TRUE]
           next == ReplayFrom(seq)
<1>3. seq \in Nat /\ seq <= Len(log) /\ Len(log) \in Nat
  BY <1>1, BridgeParts DEF SnapshotSeq, BridgeTyped, Bounded
<1>4. next \in Nat /\ next <= seq + 1 /\ \A p \in recorded : store[p] # NoCard => next <= store[p].seq + 1
  BY <1>1, <1>3, ReplayFromTyped
<1>5. /\ w \in Work /\ w.kind = "snapshot" /\ w.of = Nobody /\ w.seq = seq /\ w.live /\ queue' = Append(queue, w)
      /\ queue \in Seq(Work) /\ Len(queue) \in Nat
  BY <1>1, <1>2, <1>3, BridgeParts DEF Work, Subjects, Enqueue
<1>6. board => seq = cursor
  BY DEF SnapshotSeq
<1>7. ~board => seq = Len(log)
  BY DEF SnapshotSeq
<1>8. link'.phase = "binding" /\ link'.next = next /\ link' \in [phase : Phases, next : Nat]
  BY <1>2, <1>4 DEF Phases
<1> HIDE DEF w, seq, next
<1>9. /\ queue' \in Seq(Work) /\ Len(queue') = Len(queue) + 1
      /\ \A i \in 1 .. Len(queue) : queue'[i] = queue[i]
      /\ queue'[Len(queue) + 1] = w
      /\ \A i \in 1 .. Len(queue') : i \in 1 .. Len(queue) \/ i = Len(queue) + 1
  BY <1>5
<1>10. ~worker.live /\ job = NoJob
  BY <1>1, <1>2 DEF LinkSound
<1>11. \A i \in 1 .. Len(queue) : ~Up(i, "event") /\ ~Up(i, "snapshot")
  BY <1>1, <1>2 DEF QueueSound, WorkSound
<1>12. /\ \A i \in 1 .. Len(queue') : ~Up(i, "event")'
       /\ \A i \in 1 .. Len(queue') : Up(i, "snapshot")' => i = Len(queue) + 1 /\ queue'[i].seq = seq
  <2> SUFFICES ASSUME NEW i \in 1 .. Len(queue')
               PROVE  ~Up(i, "event")' /\ (Up(i, "snapshot")' => i = Len(queue) + 1 /\ queue'[i].seq = seq)
    OBVIOUS
  <2>1. CASE i \in 1 .. Len(queue)
    BY <2>1, <1>9, <1>11 DEF Up
  <2>2. CASE i = Len(queue) + 1
    BY <2>2, <1>5, <1>9 DEF Up
  <2> QED
    BY <2>1, <2>2, <1>9
<1>13. MessagesMove /\ PromptsMove /\ LogGoesOn /\ CardsMove
  BY <1>1, <1>2, MessagesStay, PromptsStay, LogStays, CardsStay, BridgeParts
<1>14. BridgeTyped'
  <2>1. Len(queue') <= QueueSize
    BY <1>2, <1>5, <1>9, BridgeAssumption DEF Room
  <2>2. Bounded'
    BY <1>1, <1>2, <1>3, <1>4, <1>8, BridgeParts DEF Bounded, BridgeTyped
  <2> QED
    BY <1>1, <1>2, <1>8, <1>9, <1>13, <2>1, <2>2, TypedKeeps, SaidTyped, BridgeParts
       DEF BridgeTyped, BridgeTypeOK, given
<1>15. LogSound'
  BY <1>1, <1>2, LogSoundStays DEF Over, OverOrAsked
<1>16. LinkSound'
  BY <1>2, <1>8, <1>10 DEF LinkSound, NoJob
<1>17. QueueSound'
  <2> SUFFICES ASSUME NEW i \in 1 .. Len(queue') PROVE WorkSound(i)'
    BY DEF QueueSound
  <2>1. /\ queue'[i].kind = "message" => queue'[i].of \in Messages /\ message[queue'[i].of] \notin {"unsent", "past"}
        /\ queue'[i].kind \in {"notice", "click"} => queue'[i].of \in Prompts
    <3>1. CASE i \in 1 .. Len(queue)
      BY <3>1, <1>1, <1>9 DEF QueueSound, WorkSound
    <3>2. CASE i = Len(queue) + 1
      BY <3>2, <1>5, <1>9
    <3> QED
      BY <3>1, <3>2, <1>9
  <2>2. Up(i, "snapshot")' =>
          /\ link'.next <= queue'[i].seq + 1 /\ queue'[i].seq <= Len(log)
          /\ \A j \in 1 .. Len(queue') : Up(j, "snapshot")' => i = j
    BY <1>3, <1>4, <1>8, <1>12
  <2> QED
    BY <1>2, <1>8, <1>10, <1>12, <2>1, <2>2 DEF WorkSound
<1>18. InLine'
  BY <1>2, <1>10, <1>12 DEF InLine
<1>19. JobSound'
  BY <1>1, <1>2, <1>13, JobKeeps, BridgeParts
<1>20. StoreSound' /\ CardSound'
  BY <1>1, <1>2, <1>13, StoreKeeps, CardsKeep, BridgeParts
<1>21. ResultSound'
  <2> SUFFICES ASSUME NEW p \in recorded, NEW n \in 1 .. Len(log), IsResult(n, p)
               PROVE  /\ store[p] # NoCard => store[p].seq < n /\ Coming(n)'
                      /\ ~(p \in job.listed)
    BY <1>2 DEF ResultSound, IsResult
  <2>1. store[p] # NoCard => store[p].seq < n
    BY <1>1 DEF ResultSound
  <2>2. store[p] # NoCard => store[p].seq \in Nat /\ next <= store[p].seq + 1
    BY <1>1, <1>4, BridgeParts
  <2>3. store[p] # NoCard => link'.next <= n
    BY <2>1, <2>2, <1>4, <1>8
  <2> QED
    BY <2>1, <2>3, <1>10 DEF Coming, NoJob
<1>22. MirrorSound'
  <2>1. Ordered(said)' /\ CursorIsBehind'
    BY <1>1, <1>2 DEF MirrorSound, Ordered, CursorIsBehind, IsChat, IsSaid
  <2>2. board => \A i \in 1 .. Len(queue') : Up(i, "snapshot")' => queue'[i].seq <= cursor
    BY <1>1, <1>6, <1>12, BridgeParts
  <2>3. ~board => \A i \in 1 .. Len(queue') : Up(i, "snapshot")' => \A k \in 1 .. Len(said) : said[k] <= queue'[i].seq
    <3>1. \A k \in 1 .. Len(said) : said[k] \in 1 .. Len(log)
      BY <1>1 DEF BridgeTyped
    <3> QED
      BY <3>1, <1>3, <1>7, <1>12
  <2> QED
    BY <2>1, <2>2, <2>3, <1>2, <1>10 DEF MirrorSound, SaidUpTo, NoJob
<1>23. PostsSound'
  BY <1>1, <1>2, <1>13, PostsKeep, BridgeParts
<1> QED
  BY <1>14, <1>15, <1>16, <1>17, <1>18, <1>19, <1>20, <1>21, <1>22, <1>23 DEF BridgeInv

LEMMA ReconcileOverloadedKeeps == BridgeInv /\ ReconcileOverloaded => BridgeInv'
<1> SUFFICES ASSUME BridgeInv, ReconcileOverloaded PROVE BridgeInv'
  OBVIOUS
<1>1. /\ CancelLink
      /\ UNCHANGED <<given, log, prompt, notices, durable, discord, message, posted, inputs, faults>>
  BY DEF ReconcileOverloaded, daemon, human
<1>2. BridgeTyped
  BY DEF BridgeInv
<1> QED
  BY <1>1, <1>2, CutKeeps, MessagesStay, BridgeParts DEF InFlight
\* The next event of the log gets in line.
LEMMA DeliverKeeps == BridgeInv /\ Deliver => BridgeInv'
<1> SUFFICES ASSUME BridgeInv, Deliver PROVE BridgeInv'
  OBVIOUS
<1>1. BridgeTyped /\ LogSound /\ LinkSound /\ QueueSound /\ InLine /\ JobSound /\ StoreSound /\ CardSound /\ ResultSound
        /\ MirrorSound /\ PostsSound
  BY DEF BridgeInv
<1>2. /\ link.phase = "ready" /\ link.next \in 1 .. Len(log)
      /\ UNCHANGED <<board, recorded, log, prompt, notices, store, cursor, posted, inputs, faults>>
      /\ UNCHANGED <<given, durable>>
  BY <1>1, BridgeParts DEF Deliver, given, daemon, durable
<1>3. CASE ~Room
  BY <1>1, <1>2, <1>3, OverloadKeeps, UnheardMoves, BridgeParts DEF Deliver
<1>4. CASE Room
  <2> DEFINE w == [kind |-> "event", of |-> log[link.next].of, seq |-> link.next, live |-> TRUE]
  <2>1. /\ UNCHANGED <<worker, job, message, cards, said, faults>>
        /\ link' = [link EXCEPT !.next = @ + 1] /\ queue' = Append(queue, w)
    BY <1>4 DEF Deliver, discord, Enqueue
  <2>2. /\ w \in Work /\ w.kind = "event" /\ w.of = log[link.next].of /\ w.seq = link.next /\ w.live
        /\ queue \in Seq(Work) /\ Len(queue) \in Nat /\ Len(log) \in Nat /\ link.next \in Nat
    <3>1. log[link.next] \in EntryRecord /\ queue \in Seq(Work)
      BY <1>1, <1>2, BridgeParts
    <3>2. log[link.next].of \in Subjects
      BY <3>1 DEF EntryRecord
    <3> QED
      BY <1>1, <3>1, <3>2, BridgeParts DEF Work
  <2> HIDE DEF w
  <2>3. /\ queue' \in Seq(Work) /\ Len(queue') = Len(queue) + 1
        /\ \A i \in 1 .. Len(queue) : queue'[i] = queue[i]
        /\ queue'[Len(queue) + 1] = w
        /\ \A i \in 1 .. Len(queue') : i \in 1 .. Len(queue) \/ i = Len(queue) + 1
    BY <2>1, <2>2
  <2>4. /\ link'.phase = "ready" /\ link'.next = link.next + 1 /\ link' \in [phase : Phases, next : Nat]
    <3>1. link \in [phase : Phases, next : Nat]
      BY <1>1 DEF BridgeTyped, BridgeTypeOK
    <3> QED
      BY <1>2, <2>1, <3>1
  <2>5. worker.live /\ job.kind # "snapshot" /\ \A i \in 1 .. Len(queue) : ~Up(i, "snapshot")
    BY <1>1, <1>2 DEF LinkSound, QueueSound, WorkSound
  <2>6. /\ \A i \in 1 .. Len(queue') : ~Up(i, "snapshot")'
        /\ \A i \in 1 .. Len(queue) : Up(i, "event")' <=> Up(i, "event")
        /\ \A k \in 1 .. Len(queue') : k = Len(queue) + 1 => Up(k, "event")'
    <3>1. \A i \in 1 .. Len(queue) : i \in 1 .. Len(queue')
      BY <2>2, <2>3
    <3>2. \A i \in 1 .. Len(queue), kind \in {"event", "snapshot"} : Up(i, kind)' <=> Up(i, kind)
      BY <2>3, <3>1 DEF Up
    <3>3. \A k \in 1 .. Len(queue') : k = Len(queue) + 1 => Up(k, "event")' /\ ~Up(k, "snapshot")'
      BY <2>2, <2>3 DEF Up
    <3> QED
      BY <2>3, <2>5, <3>2, <3>3
  <2>7. \A n \in Nat : (Delivered(n) => Delivered(n)') /\ (n = link.next => Delivered(n)')
    <3>1. \A i \in 1 .. Len(queue) : i \in 1 .. Len(queue') /\ queue'[i] = queue[i]
      BY <2>2, <2>3
    <3>2. \A n \in Nat : Delivered(n) => Delivered(n)'
      BY <3>1, <2>6 DEF Delivered
    <3>3. Len(queue) + 1 \in 1 .. Len(queue')
      BY <2>2, <2>3
    <3>4. ASSUME NEW n, n = link.next PROVE Delivered(n)'
      <4>1. PICK k \in 1 .. Len(queue') : k = Len(queue) + 1
        BY <3>3
      <4>2. Up(k, "event")' /\ queue'[k].seq = n
        BY <3>4, <4>1, <2>2, <2>3, <2>6
      <4> QED
        BY <4>2 DEF Delivered
    <3> QED
      BY <3>2, <3>4
  <2>8. \A n \in Nat : Coming(n) => Coming(n)'
    <3> SUFFICES ASSUME NEW n \in Nat, Coming(n) PROVE Coming(n)'
      OBVIOUS
    <3>1. CASE link.next = n
      <4>1. Delivered(n)'
        BY <2>7, <3>1
      <4> QED
        BY <4>1 DEF Coming
    <3>2. CASE link.next < n
      <4>1. link'.next <= n
        BY <3>2, <2>2, <2>4
      <4> QED
        BY <4>1 DEF Coming
    <3>3. CASE Delivered(n)
      BY <2>7, <3>3 DEF Coming
    <3> QED
      BY <3>1, <3>2, <3>3, <2>2 DEF Coming
  <2>9. MessagesMove /\ PromptsMove /\ LogGoesOn /\ CardsMove
    BY <1>1, <1>2, <2>1, MessagesStay, PromptsStay, LogStays, CardsStay, BridgeParts
  <2>10. BridgeTyped'
    <3>1. Len(queue') <= QueueSize
      BY <1>4, <2>2, <2>3, BridgeAssumption DEF Room
    <3>2. Bounded'
      <4>1. link.next + 1 <= Len(log) + 1
        BY <1>2, <2>2
      <4> QED
        BY <1>1, <1>2, <2>1, <2>4, <4>1 DEF Bounded, BridgeTyped
    <3> QED
      BY <1>1, <1>2, <2>1, <2>3, <2>4, <2>9, <3>1, <3>2, TypedKeeps, SaidTyped, BridgeParts
         DEF BridgeTyped, BridgeTypeOK
  <2>11. LogSound'
    BY <1>1, <1>2, LogSoundStays DEF Over, OverOrAsked
  <2>12. LinkSound'
    BY <1>1, <1>2, <2>1, <2>4, <2>5 DEF LinkSound
  <2>13. QueueSound'
    <3> SUFFICES ASSUME NEW i \in 1 .. Len(queue') PROVE WorkSound(i)'
      BY DEF QueueSound
    <3>1. CASE i \in 1 .. Len(queue)
      <4>1. WorkSound(i) /\ queue'[i] = queue[i] /\ (Up(i, "event")' <=> Up(i, "event")) /\ ~Up(i, "snapshot")'
        BY <1>1, <2>3, <2>6, <3>1 DEF QueueSound
      <4> QED
        BY <4>1, <1>2, <2>1, <2>4 DEF WorkSound
    <3>2. CASE i = Len(queue) + 1
      <4>1. queue'[i] = w /\ ~Up(i, "snapshot")'
        BY <2>3, <2>6, <3>2
      <4> QED
        BY <4>1, <1>2, <2>2, <2>4 DEF WorkSound
    <3> QED
      BY <3>1, <3>2, <2>3
  <2>14. InLine'
    <3>1. ASSUME NEW i \in 1 .. Len(queue'), Up(i, "event")'
          PROVE \/ queue'[i].seq <= worker.seq + 1
                \/ \E j \in 1 .. i - 1 : Up(j, "event")' /\ queue'[j].seq + 1 = queue'[i].seq
      <4>1. CASE i \in 1 .. Len(queue)
        <5>1. \A j \in 1 .. i : j \in 1 .. Len(queue) /\ queue'[j] = queue[j] /\ (Up(j, "event")' <=> Up(j, "event"))
          BY <4>1, <2>2, <2>3, <2>6
        <5>2. \A j \in 1 .. i - 1 : j \in 1 .. i
          BY <4>1, <2>2
        <5>3. i \in 1 .. i
          BY <4>1, <2>2
        <5>4. \/ queue[i].seq <= worker.seq + 1
              \/ \E j \in 1 .. i - 1 : Up(j, "event") /\ queue[j].seq + 1 = queue[i].seq
          BY <1>1, <3>1, <4>1, <5>1, <5>3 DEF InLine
        <5> QED
          BY <5>1, <5>2, <5>3, <5>4
      <4>2. CASE i = Len(queue) + 1
        <5>1. queue'[i].seq = link.next /\ i - 1 = Len(queue)
          BY <4>2, <2>2, <2>3
        <5>2. link.next <= worker.seq + 1 \/ \E j \in 1 .. Len(queue) : Up(j, "event") /\ queue[j].seq = link.next - 1
          BY <1>1, <2>5 DEF InLine, Delivered
        <5>3. \A j \in 1 .. Len(queue) : queue[j].seq = link.next - 1 => queue'[j].seq + 1 = link.next
          BY <2>2, <2>3
        <5> QED
          BY <5>1, <5>2, <5>3, <2>6
      <4> QED
        BY <4>1, <4>2, <2>3
    <3>2. \A n : n = link'.next - 1 => Delivered(n)'
      <4>1. link'.next - 1 = link.next
        BY <2>2, <2>4
      <4> QED
        BY <4>1, <2>2, <2>7
    <3>3. Delivered(link.next - 1)'
      BY <3>2 DEF Delivered
    <3> QED
      BY <3>1, <3>3, <2>1 DEF InLine
  <2>15. JobSound'
    BY <1>1, <1>2, <2>1, <2>9, JobKeeps, BridgeParts
  <2>16. StoreSound' /\ CardSound'
    BY <1>1, <1>2, <2>9, StoreKeeps, CardsKeep, BridgeParts
  <2>17. ResultSound'
    <3>1. \A n \in 1 .. Len(log) : Coming(n) => Coming(n)'
      BY <2>8
    <3>2. Subscribing' => Subscribing
      BY <1>2 DEF Subscribing
    <3> QED
      BY <1>1, <1>2, <2>1, <3>1, <3>2, ResultKeeps, BridgeParts DEF Finishing, Syncs
  <2>18. MirrorSound'
    BY <1>1, <1>2, <2>1, <2>6, MirrorKeeps DEF SnapshotsStay
  <2>19. PostsSound'
    BY <1>1, <1>2, <2>1, <2>9, PostsKeep, BridgeParts
  <2> QED
    BY <2>10, <2>11, <2>12, <2>13, <2>14, <2>15, <2>16, <2>17, <2>18, <2>19 DEF BridgeInv
<1> QED
  BY <1>3, <1>4
-----------------------------------------------------------------------------
(* The worker takes a work                                                 *)

LEMMA BegunTyped ==
  ASSUME NEW kind \in JobKinds, NEW of \in Subjects, NEW seq \in Nat, NEW stage \in JobStages,
         Begin(kind, of, seq, stage)
  PROVE  /\ job' \in JobRecord /\ job'.kind = kind /\ job'.of = of /\ job'.seq = seq /\ job'.stage = stage
         /\ job'.listed = {} /\ job'.todo = {}
<1>1. job' = [kind |-> kind, of |-> of, seq |-> seq, stage |-> stage, listed |-> {}, todo |-> {}]
  BY DEF Begin, NoJob
<1> QED
  BY <1>1 DEF JobRecord

\* The event that the worker takes is at most the next one after those it has seen.
LEMMA HeadEvent ==
  ASSUME BridgeInv, Serves("event")
  PROVE  /\ job = NoJob /\ queue # <<>> /\ worker.live /\ link.phase = "ready"
         /\ Head(queue) = queue[1] /\ Up(1, "event")
         /\ queue[1].seq \in 1 .. Len(log) /\ queue[1].seq <= worker.seq + 1
         /\ queue[1].of = log[queue[1].seq].of /\ queue[1].of \in Subjects
<1>1. BridgeTyped /\ QueueSound /\ InLine
  BY DEF BridgeInv
<1>2. job = NoJob /\ queue # <<>> /\ worker.live /\ Head(queue).live /\ Head(queue).kind = "event"
  BY DEF Serves, IsNext, Unoccupied
<1>3. queue \in Seq(Work) /\ Len(queue) \in Nat
  BY <1>1, BridgeParts
<1>4. Head(queue) = queue[1] /\ 1 \in 1 .. Len(queue) /\ queue[1] \in Work
  BY <1>2, <1>3
<1>5. Up(1, "event")
  BY <1>2, <1>4 DEF Up
<1>6. WorkSound(1)
  BY <1>1, <1>4 DEF QueueSound
<1>7. queue[1].seq <= worker.seq + 1
  <2>1. \A j \in 1 .. 1 - 1 : FALSE
    OBVIOUS
  <2> QED
    BY <1>1, <1>4, <1>5, <2>1 DEF InLine
<1> QED
  BY <1>2, <1>4, <1>5, <1>6, <1>7 DEF WorkSound, Work

\* A work that is taken from a link that goes on.
LEMMA ServeKeeps ==
  ASSUME BridgeInv, job = NoJob, queue # <<>>, Drop, MessagesMove,
         UNCHANGED <<given, log, prompt, notices, link, discord, posted, inputs, faults>>,
         message' \in [Messages -> {"unsent", "queued", "delivered", "told", "dropped", "past"}],
         worker' \in [live : BOOLEAN, seq : Nat, shown : [Prompts -> Shown], seen : SUBSET Messages],
         worker'.live = worker.live, worker.seen \subseteq worker'.seen, worker'.seq >= worker.seq,
         worker'.seq > worker.seq => worker.live /\ worker'.seq <= worker.seq + 1 /\ worker'.seq <= Len(log),
         Up(1, "event") => worker'.seq >= queue[1].seq,
         job' \in JobRecord, JobSound', job'.kind # "snapshot", ~Syncs', job' # NoJob => worker.live,
         store' \in [Prompts -> [card : Nat, seq : Nat]], StoreSound',
         \A p \in recorded : store'[p] # NoCard => store[p] # NoCard,
         \A p \in recorded, n \in 1 .. Len(log) : IsResult(n, p) /\ store'[p] # NoCard => store'[p].seq < n,
         \A p \in recorded : Up(1, "event") /\ IsResult(queue[1].seq, p) /\ store'[p] # NoCard => Finishing(p)',
         \A n \in Nat : n = worker.seq + 1 /\ IsChat(n) /\ worker'.seq = n => job'.stage = "say" /\ job'.seq = n,
         job'.stage = "say" => job'.seq > worker.seq,
         cursor' \in Nat, cursor' # cursor => cursor' <= worker'.seq /\ job'.stage # "say" /\ worker.live
  PROVE  BridgeInv'
<1>1. BridgeTyped /\ LogSound /\ LinkSound /\ QueueSound /\ InLine /\ JobSound /\ StoreSound /\ CardSound /\ ResultSound
        /\ MirrorSound /\ PostsSound
  BY DEF BridgeInv
<1>2. UNCHANGED <<board, recorded, cards, said>>
  BY DEF given, discord
<1>3. /\ worker.seq \in Nat /\ worker'.seq \in Nat /\ Len(log) \in Nat /\ worker.seq <= Len(log)
      /\ worker'.seq <= Len(log) /\ worker'.seq <= worker.seq + 1
  BY <1>1, BridgeParts DEF BridgeTyped, Bounded
<1>4. PromptsMove /\ LogGoesOn /\ CardsMove
  BY <1>1, <1>2, PromptsStay, LogStays, CardsStay, BridgeParts
<1>5. /\ QueueSound' /\ InLine' /\ SnapshotsStay
      /\ \A n \in Nat : Coming(n) => Coming(n)' \/ (Up(1, "event") /\ queue[1].seq = n)
  BY <1>1, <1>3, TakeKeeps
<1>6. /\ queue' \in Seq(Work) /\ Len(queue') <= QueueSize
  BY <1>1, WorkTaken, BridgeParts, BridgeAssumption DEF Drop, BridgeTyped, BridgeTypeOK
<1>7. BridgeTyped'
  <2>1. Bounded'
    BY <1>1, <1>3 DEF Bounded, BridgeTyped
  <2> QED
    BY <1>1, <1>2, <1>4, <1>6, <2>1, TypedKeeps, SaidTyped, BridgeParts DEF BridgeTyped, BridgeTypeOK
<1>8. LogSound'
  BY <1>1, <1>2, LogSoundStays DEF Over, OverOrAsked
<1>9. LinkSound'
  BY <1>1 DEF LinkSound, NoJob
<1>10. CardSound'
  BY <1>1, <1>2, <1>4, CardsKeep, BridgeParts
<1>11. ResultSound'
  <2> SUFFICES ASSUME NEW p \in recorded, NEW n \in 1 .. Len(log), IsResult(n, p), store'[p] # NoCard
               PROVE  store'[p].seq < n /\ (Subscribing' => Coming(n)' \/ Finishing(p)')
    BY <1>2 DEF ResultSound, IsResult
  <2>1. store'[p].seq < n
    OBVIOUS
  <2>2. Subscribing => Coming(n) \/ Finishing(p)
    BY <1>1 DEF ResultSound
  <2>3. ~Finishing(p)
    BY DEF Finishing, NoJob
  <2>4. Subscribing' => Subscribing
    BY DEF Subscribing
  <2>5. Coming(n) => Coming(n)' \/ Finishing(p)'
    BY <1>5
  <2> QED
    BY <2>1, <2>2, <2>3, <2>4, <2>5
<1>12. MirrorSound'
  <2>1. /\ \A n : IsChat(n)' <=> IsChat(n)
        /\ \A n : IsSaid(n)' <=> IsSaid(n)
    BY <1>2 DEF IsChat, IsSaid
  <2>2. Ordered(said)'
    BY <1>1, <1>2, <2>1 DEF MirrorSound, Ordered
  <2>3. ASSUME board, worker.live, NEW n \in 1 .. worker'.seq, IsChat(n)
        PROVE  IsSaid(n) \/ (job'.stage = "say" /\ job'.seq = n)
    <3>1. CASE n \in 1 .. worker.seq
      <4>1. job.stage # "say"
        BY DEF NoJob
      <4> QED
        BY <1>1, <2>3, <3>1, <4>1 DEF MirrorSound
    <3>2. CASE n \notin 1 .. worker.seq
      <4>1. n = worker.seq + 1 /\ worker'.seq = n
        BY <1>3, <3>2
      <4> QED
        BY <2>3, <4>1
    <3> QED
      BY <3>1, <3>2
  <2>4. CursorIsBehind'
    <3>1. CASE cursor' = cursor
      BY <1>1, <1>2, <2>1, <3>1 DEF MirrorSound, CursorIsBehind
    <3>2. CASE cursor' # cursor
      <4>1. \A n \in 1 .. cursor' : n \in 1 .. worker'.seq
        BY <1>3, <3>2
      <4> QED
        BY <1>2, <2>1, <2>3, <3>2, <4>1 DEF CursorIsBehind
    <3> QED
      BY <3>1, <3>2
  <2>5. ASSUME board, NEW i \in 1 .. Len(queue'), Up(i, "snapshot")' PROVE queue'[i].seq <= cursor'
    <3>1. PICK j \in 1 .. Len(queue) : Up(j, "snapshot") /\ queue[j].seq = queue'[i].seq
      BY <1>5, <2>5 DEF SnapshotsStay
    <3>2. queue'[i].seq <= cursor /\ ~worker.live
      BY <1>1, <2>5, <3>1 DEF MirrorSound, QueueSound, WorkSound
    <3> QED
      BY <3>2
  <2>6. ASSUME ~board
        PROVE  /\ worker.live => \A i \in 1 .. Len(said) : said[i] <= worker'.seq
               /\ job'.stage = "say" => \A i \in 1 .. Len(said) : said[i] < job'.seq
    <3>1. worker.live => \A i \in 1 .. Len(said) : said[i] <= worker.seq /\ said[i] \in Nat
      BY <1>1, <2>6, BridgeParts DEF MirrorSound, SaidUpTo
    <3>2. job'.stage = "say" => worker.live /\ job'.seq \in Nat
      <4>1. job'.seq \in Nat
        BY DEF JobRecord
      <4>2. NoJob.stage # "say"
        BY DEF NoJob
      <4> QED
        BY <4>1, <4>2
    <3>3. \A a, b, c \in Nat : (a <= b /\ b <= c => a <= c) /\ (a <= b /\ c > b => a < c)
      OBVIOUS
    <3>4. worker.live => \A i \in 1 .. Len(said) : said[i] <= worker'.seq
      BY <1>3, <3>1, <3>3
    <3>5. job'.stage = "say" => \A i \in 1 .. Len(said) : said[i] < job'.seq
      BY <1>3, <3>1, <3>2, <3>3
    <3> QED
      BY <3>4, <3>5
  <2>7. ASSUME ~board, NEW i \in 1 .. Len(queue'), Up(i, "snapshot")'
        PROVE  \A k \in 1 .. Len(said) : said[k] <= queue'[i].seq
    <3>1. PICK j \in 1 .. Len(queue) : Up(j, "snapshot") /\ queue[j].seq = queue'[i].seq
      BY <1>5, <2>7 DEF SnapshotsStay
    <3> QED
      BY <1>1, <2>7, <3>1 DEF MirrorSound, SaidUpTo
  <2> QED
    BY <1>2, <2>1, <2>2, <2>3, <2>4, <2>5, <2>6, <2>7 DEF MirrorSound, SaidUpTo
<1>13. PostsSound'
  BY <1>1, PostsKeep
<1> QED
  BY <1>5, <1>7, <1>8, <1>9, <1>10, <1>11, <1>12, <1>13 DEF BridgeInv
LEMMA NoJobSound == job' = NoJob => JobSound' /\ job' \in JobRecord /\ ~Syncs' /\ job'.kind # "snapshot" /\ job'.stage # "say"
BY NoJobTyped DEF JobSound, NoJob, Syncs

\* A work that changes no card.
LEMMA ServePlainly ==
  ASSUME BridgeInv, job = NoJob, queue # <<>>, Drop, MessagesMove,
         UNCHANGED <<given, log, prompt, notices, link, store, discord, posted, inputs, faults>>,
         message' \in [Messages -> {"unsent", "queued", "delivered", "told", "dropped", "past"}],
         worker' \in [live : BOOLEAN, seq : Nat, shown : [Prompts -> Shown], seen : SUBSET Messages],
         worker'.live = worker.live, worker.seen \subseteq worker'.seen, worker'.seq >= worker.seq,
         worker'.seq > worker.seq => worker.live /\ worker'.seq <= worker.seq + 1 /\ worker'.seq <= Len(log),
         Up(1, "event") => worker'.seq >= queue[1].seq,
         job' \in JobRecord, JobSound', job'.kind # "snapshot", ~Syncs', job' # NoJob => worker.live,
         Up(1, "event") => log[queue[1].seq].kind # "resolved" \/ store[queue[1].of] = NoCard \/ (job'.stage = "finish" /\ job'.of = queue[1].of),
         Up(1, "event") => queue[1].of = log[queue[1].seq].of,
         \A n \in Nat : n = worker.seq + 1 /\ IsChat(n) /\ worker'.seq = n => job'.stage = "say" /\ job'.seq = n,
         job'.stage = "say" => job'.seq > worker.seq,
         cursor' \in Nat, cursor' # cursor => cursor' <= worker'.seq /\ job'.stage # "say" /\ worker.live
  PROVE  BridgeInv'
<1>1. BridgeTyped /\ StoreSound /\ ResultSound
  BY DEF BridgeInv
<1>2. store' \in [Prompts -> [card : Nat, seq : Nat]] /\ StoreSound'
  BY <1>1, StoreKeeps, CardsStay, BridgeParts DEF discord
<1>3. \A p \in recorded, n \in 1 .. Len(log) : IsResult(n, p) /\ store'[p] # NoCard => store'[p].seq < n
  BY <1>1 DEF ResultSound
<1>4. \A p \in recorded : Up(1, "event") /\ IsResult(queue[1].seq, p) /\ store'[p] # NoCard => Finishing(p)'
  <2> SUFFICES ASSUME NEW p \in recorded, Up(1, "event"), IsResult(queue[1].seq, p), store[p] # NoCard
               PROVE  Finishing(p)'
    OBVIOUS
  <2>1. log[queue[1].seq].kind = "resolved" /\ log[queue[1].seq].of = p
    BY DEF IsResult
  <2>2. queue[1].of = p
    BY <2>1
  <2>3. store[queue[1].of] # NoCard
    BY <2>2
  <2>4. job'.stage = "finish" /\ job'.of = queue[1].of
    BY <2>1, <2>3
  <2> QED
    BY <2>2, <2>4 DEF Finishing
<1>5. \A p \in recorded : store'[p] # NoCard => store[p] # NoCard
  OBVIOUS
<1> QED
  BY <1>2, <1>3, <1>4, <1>5, ServeKeeps
\* What every step of the worker starts from.
LEMMA TakeParts ==
  ASSUME BridgeInv
  PROVE  /\ BridgeTyped /\ JobSound /\ QueueSound /\ recorded \subseteq Prompts
         /\ worker \in [live : BOOLEAN, seq : Nat, shown : [Prompts -> Shown], seen : SUBSET Messages]
         /\ worker.seq \in Nat /\ worker.seq <= Len(log) /\ Len(log) \in Nat
         /\ message \in [Messages -> {"unsent", "queued", "delivered", "told", "dropped", "past"}]
         /\ queue \in Seq(Work) /\ cursor \in Nat
         /\ link.phase # "ready" => \A i : ~Up(i, "event")
         /\ link.phase = "ready" => worker.live
BY BridgeParts DEF BridgeInv, BridgeTyped, Bounded, LinkSound, QueueSound, WorkSound, Up

LEMMA TakeIdleKeeps == BridgeInv /\ (TakeAbandoned \/ TakeEarly) => BridgeInv'
<1> SUFFICES ASSUME BridgeInv, TakeAbandoned \/ TakeEarly PROVE BridgeInv'
  OBVIOUS
<1>1. /\ job = NoJob /\ queue # <<>> /\ Drop
      /\ UNCHANGED <<given, log, prompt, notices, link, worker, job, store, cursor, discord, posted, inputs, faults>>
  BY DEF TakeAbandoned, TakeEarly, Unoccupied, daemon, durable, human
<1>2. Head(queue) = queue[1] /\ 1 \in 1 .. Len(queue) /\ queue[1] \in Work
  BY <1>1, TakeParts
<1>3. ~Up(1, "event")
  BY <1>2, TakeParts DEF TakeAbandoned, TakeEarly, Up
<1>4. MessagesMove /\ message' \in [Messages -> {"unsent", "queued", "delivered", "told", "dropped", "past"}]
  <2>1. CASE UNCHANGED message
    BY <2>1, TakeParts DEF MessagesMove
  <2>2. CASE queue[1].kind = "message" /\ message' = [message EXCEPT ![queue[1].of] = "told"]
    <3>1. queue[1].of \in Messages /\ message[queue[1].of] \notin {"unsent", "past"}
      BY <1>2, <2>2, TakeParts DEF QueueSound, WorkSound
    <3> QED
      BY <2>2, <3>1, TakeParts DEF MessagesMove
  <2> QED
    BY <1>2, <2>1, <2>2 DEF TakeAbandoned, TakeEarly, human
<1>5. JobSound' /\ job' \in JobRecord /\ ~Syncs' /\ job'.kind # "snapshot" /\ job'.stage # "say"
  BY <1>1, NoJobSound
<1> QED
  BY <1>1, <1>3, <1>4, <1>5, TakeParts, ServePlainly

LEMMA TakeMovedKeeps ==
  ASSUME BridgeInv, Serves("event"), Drop, job' = NoJob, NEW seq \in Nat,
         \/ seq = worker.seq /\ queue[1].seq <= seq
         \/ seq = queue[1].seq /\ seq >= worker.seq /\ ~IsChat(seq),
         worker' = [worker EXCEPT !.seq = seq],
         log[queue[1].seq].kind # "resolved" \/ store[queue[1].of] = NoCard,
         cursor' \in Nat, cursor' # cursor => cursor' <= seq,
         UNCHANGED <<given, daemon, link, store, discord, human, faults>>
  PROVE  BridgeInv'
<1>1. /\ job = NoJob /\ queue # <<>> /\ worker.live /\ Up(1, "event") /\ queue[1].seq \in 1 .. Len(log)
      /\ queue[1].seq <= worker.seq + 1 /\ queue[1].of = log[queue[1].seq].of
  BY HeadEvent
<1>2. UNCHANGED <<given, log, prompt, notices, link, store, discord, message, posted, inputs, faults>>
  BY DEF daemon, human
<1>3. /\ worker' \in [live : BOOLEAN, seq : Nat, shown : [Prompts -> Shown], seen : SUBSET Messages]
      /\ worker'.live = worker.live /\ worker'.seen = worker.seen /\ worker'.seq = seq
  BY TakeParts
<1>4. MessagesMove
  BY <1>2, MessagesStay
<1>5. JobSound' /\ job' \in JobRecord /\ ~Syncs' /\ job'.kind # "snapshot" /\ job'.stage # "say"
  BY NoJobSound
<1>6. /\ seq >= worker.seq /\ seq >= queue[1].seq
      /\ seq > worker.seq => seq <= worker.seq + 1 /\ seq <= Len(log)
      /\ \A n \in Nat : n = worker.seq + 1 /\ IsChat(n) => seq # n
  BY <1>1, TakeParts
<1> QED
  BY <1>1, <1>2, <1>3, <1>4, <1>5, <1>6, TakeParts, ServePlainly

LEMMA TakeSkippedKeeps == BridgeInv /\ TakeSkipped => BridgeInv'
<1> SUFFICES ASSUME BridgeInv, TakeSkipped PROVE BridgeInv'
  OBVIOUS
<1>1. Serves("event")
  BY DEF TakeSkipped
<1>2. /\ Drop /\ job' = job /\ worker' = worker
      /\ log[Head(queue).seq].kind \in {"chat", "own"} /\ Head(queue).seq <= worker.seq
      /\ UNCHANGED <<given, daemon, link, store, cursor, discord, human, faults>>
  BY DEF TakeSkipped, durable
<1>3. Head(queue) = queue[1] /\ job = NoJob
  BY <1>1, <1>2, HeadEvent
<1>4. worker' = [worker EXCEPT !.seq = worker.seq] /\ worker.seq \in Nat /\ cursor \in Nat
  BY <1>2, TakeParts
<1>5. /\ queue[1].seq <= worker.seq /\ log[queue[1].seq].kind # "resolved" /\ job' = NoJob
      /\ cursor' \in Nat /\ cursor' = cursor
  BY <1>2, <1>3, <1>4
<1> DEFINE s == worker.seq
<1>6. s \in Nat /\ s = worker.seq /\ queue[1].seq <= s /\ worker' = [worker EXCEPT !.seq = s]
  BY <1>4, <1>5
<1> HIDE DEF s
<1>7. Drop /\ UNCHANGED <<given, daemon, link, store, discord, human, faults>>
  BY <1>2
<1>8. cursor' # cursor => cursor' <= s
  BY <1>5
<1> QED
  BY <1>1, <1>5, <1>6, <1>7, <1>8, TakeMovedKeeps

LEMMA TakeOwnKeeps == BridgeInv /\ TakeOwn => BridgeInv'
<1> SUFFICES ASSUME BridgeInv, TakeOwn PROVE BridgeInv'
  OBVIOUS
<1>1. Serves("event") /\ log[Head(queue).seq].kind = "own"
  BY DEF TakeOwn
<1> DEFINE seq == queue[1].seq
<1>2. Head(queue) = queue[1] /\ job = NoJob /\ seq \in 1 .. Len(log) /\ seq \in Nat
  BY <1>1, HeadEvent, TakeParts
<1>3. /\ Drop /\ job' = job /\ worker' = [worker EXCEPT !.seq = seq] /\ Advance(seq) /\ seq > worker.seq
      /\ UNCHANGED <<given, daemon, link, store, discord, human, faults>>
  BY <1>2 DEF TakeOwn
<1>4. cursor' \in Nat /\ (cursor' # cursor => cursor' <= seq)
  BY <1>2, <1>3, TakeParts DEF Advance
<1>5. ~IsChat(seq) /\ log[seq].kind # "resolved"
  BY <1>1, <1>2 DEF IsChat
<1>6. seq >= worker.seq
  BY <1>2, <1>3, TakeParts
<1> QED
  BY <1>1, <1>2, <1>3, <1>4, <1>5, <1>6, TakeMovedKeeps

LEMMA TakeChatKeeps == BridgeInv /\ TakeChat => BridgeInv'
<1> SUFFICES ASSUME BridgeInv, TakeChat PROVE BridgeInv'
  OBVIOUS
<1>1. Serves("event") /\ log[Head(queue).seq].kind = "chat"
  BY DEF TakeChat
<1> DEFINE seq == queue[1].seq
<1>2. /\ Head(queue) = queue[1] /\ job = NoJob /\ seq \in 1 .. Len(log) /\ seq \in Nat /\ queue # <<>> /\ worker.live
      /\ Up(1, "event") /\ seq <= worker.seq + 1 /\ queue[1].of = log[seq].of
  BY <1>1, HeadEvent, TakeParts
<1>3. /\ Drop /\ worker' = [worker EXCEPT !.seq = seq] /\ seq > worker.seq
      /\ Begin("event", Nobody, seq, "say")
      /\ UNCHANGED <<given, log, prompt, notices, link, store, cursor, discord, message, posted, inputs, faults>>
  BY <1>2 DEF TakeChat, daemon, durable, human
<1> HIDE DEF seq
<1>4. /\ worker' \in [live : BOOLEAN, seq : Nat, shown : [Prompts -> Shown], seen : SUBSET Messages]
      /\ worker'.live = worker.live /\ worker'.seen = worker.seen /\ worker'.seq = seq
  BY <1>2, <1>3, TakeParts
<1>5. /\ job' \in JobRecord /\ job'.kind = "event" /\ job'.of = Nobody /\ job'.seq = seq /\ job'.stage = "say"
      /\ job'.listed = {} /\ job'.todo = {}
  BY <1>2, <1>3, BegunTyped DEF JobKinds, JobStages, Subjects
<1>6. IsChat(job.seq)'
  <2>1. log[seq].kind = "chat" /\ log' = log
    BY <1>1, <1>2, <1>3 DEF seq
  <2>2. DOMAIN log = 1 .. Len(log)
    BY TakeParts, BridgeParts
  <2> QED
    BY <1>2, <1>5, <2>1, <2>2 DEF IsChat
<1>7. JobSound' /\ ~Syncs'
  BY <1>4, <1>5, <1>6 DEF JobSound, Syncs
<1>8. MessagesMove
  BY <1>3, MessagesStay
<1>9. seq >= worker.seq /\ log[seq].kind # "resolved"
  BY <1>1, <1>2, <1>3, TakeParts DEF seq
<1> QED
  <2>1. /\ queue[1].seq = seq /\ (worker'.seq > worker.seq => worker'.seq <= worker.seq + 1 /\ worker'.seq <= Len(log))
        /\ \A n \in Nat : n = worker.seq + 1 /\ IsChat(n) /\ worker'.seq = n => job'.stage = "say" /\ job'.seq = n
    BY <1>2, <1>4, <1>5 DEF seq
  <2>2. worker.seen \subseteq worker'.seen /\ worker'.seq >= worker.seq /\ job'.seq > worker.seq /\ job'.kind # "snapshot"
    BY <1>3, <1>4, <1>5, <1>9
  <2>3. cursor' \in Nat /\ cursor' = cursor
    BY <1>3, TakeParts
  <2>4. /\ message' \in [Messages -> {"unsent", "queued", "delivered", "told", "dropped", "past"}]
        /\ log[queue[1].seq].kind # "resolved" /\ queue[1].of = log[queue[1].seq].of
    BY <1>2, <1>3, <1>9, <2>1, TakeParts
  <2> QED
    BY <1>2, <1>3, <1>4, <1>5, <1>7, <1>8, <1>9, <2>1, <2>2, <2>3, <2>4, ServePlainly
LEMMA TakeRequestedKeeps == BridgeInv /\ TakeRequested => BridgeInv'
<1> SUFFICES ASSUME BridgeInv, TakeRequested PROVE BridgeInv'
  OBVIOUS
<1>1. Serves("event") /\ log[Head(queue).seq].kind = "requested"
  BY DEF TakeRequested
<1> DEFINE seq == queue[1].seq
           p == queue[1].of
<1>2. /\ Head(queue) = queue[1] /\ job = NoJob /\ seq \in 1 .. Len(log) /\ seq \in Nat /\ queue # <<>> /\ worker.live
      /\ Up(1, "event") /\ seq <= worker.seq + 1 /\ p = log[seq].of
  BY <1>1, HeadEvent, TakeParts
<1>3. /\ Drop /\ job' = job /\ worker' = [worker EXCEPT !.seq = Ahead(seq)] /\ store' = Raised(p, seq)
      /\ IF seq > worker.seq THEN Advance(seq) ELSE UNCHANGED cursor
      /\ UNCHANGED <<given, log, prompt, notices, link, discord, message, posted, inputs, faults>>
  BY <1>2 DEF TakeRequested, daemon, human
<1>4. LogSound /\ StoreSound /\ ResultSound /\ BridgeTyped
  BY DEF BridgeInv
<1>5. log[seq].kind = "requested" /\ log[seq] \in EntryRecord /\ p \in recorded /\ p \in Prompts
  BY <1>1, <1>2, <1>4, BridgeParts DEF LogSound
<1> HIDE DEF seq, p
<1>6. /\ worker' \in [live : BOOLEAN, seq : Nat, shown : [Prompts -> Shown], seen : SUBSET Messages]
      /\ worker'.live = worker.live /\ worker'.seen = worker.seen /\ worker'.seq = Ahead(seq)
  <2>1. Ahead(seq) \in Nat
    BY <1>2, TakeParts DEF Ahead
  <2> QED
    BY <1>3, <2>1, TakeParts
<1>7. /\ worker'.seq >= worker.seq /\ worker'.seq >= seq
      /\ worker'.seq > worker.seq => worker'.seq <= worker.seq + 1 /\ worker'.seq <= Len(log) /\ worker'.seq = seq
  BY <1>2, <1>6, TakeParts DEF Ahead
<1>8. cursor' \in Nat /\ (cursor' # cursor => cursor' <= worker'.seq)
  BY <1>2, <1>3, <1>7, TakeParts DEF Advance
<1>9. /\ store' \in [Prompts -> [card : Nat, seq : Nat]]
      /\ \A q \in Prompts : /\ store'[q].card = store[q].card /\ (store'[q] # NoCard => store[q] # NoCard)
                            /\ store'[q].seq = store[q].seq \/ (q = p /\ store'[q].seq = seq)
  <2>1. store \in [Prompts -> [card : Nat, seq : Nat]]
    BY <1>4, BridgeParts
  <2>2. \A c \in [card : Nat, seq : Nat] :
          [c EXCEPT !.seq = seq] \in [card : Nat, seq : Nat] /\ [c EXCEPT !.seq = seq].card = c.card
            /\ [c EXCEPT !.seq = seq].seq = seq
    BY <1>2
  <2>3. store[p] \in [card : Nat, seq : Nat]
    BY <2>1, <1>5
  <2>4. store' = [store EXCEPT ![p] = IF store[p] = NoCard \/ store[p].seq >= seq THEN store[p]
                                      ELSE [store[p] EXCEPT !.seq = seq]]
    BY <1>3 DEF Raised
  <2>5. CASE store[p] = NoCard \/ store[p].seq >= seq
    <3>1. store' = store
      BY <2>1, <2>4, <2>5, <1>5
    <3> QED
      BY <2>1, <3>1
  <2>6. CASE ~(store[p] = NoCard \/ store[p].seq >= seq)
    <3>1. store' = [store EXCEPT ![p] = [store[p] EXCEPT !.seq = seq]]
      BY <2>4, <2>6
    <3> QED
      BY <2>1, <2>2, <2>3, <2>6, <3>1, <1>5
  <2> QED
    BY <2>5, <2>6
<1>10. StoreSound'
  <2> SUFFICES ASSUME NEW q \in Prompts, store'[q] # NoCard
               PROVE  /\ store'[q].card \in 1 .. Len(cards) /\ cards[store'[q].card].of = q
                      /\ store'[q].seq <= Len(log)
    BY <1>3 DEF StoreSound, discord
  <2>1. store[q].card \in 1 .. Len(cards) /\ cards[store[q].card].of = q /\ store[q].seq <= Len(log)
    BY <1>4, <1>9 DEF StoreSound
  <2> QED
    BY <2>1, <1>2, <1>9
<1>11. ASSUME NEW q \in recorded, NEW n \in 1 .. Len(log), IsResult(n, q), store'[q] # NoCard
       PROVE  store'[q].seq < n
  <2>1. q \in Prompts /\ store[q] # NoCard
    BY <1>11, <1>9, TakeParts
  <2>2. store[q].seq < n
    BY <1>4, <1>11, <2>1 DEF ResultSound
  <2>3. q = p => seq < n
    <3> SUFFICES ASSUME q = p PROVE seq < n
      OBVIOUS
    <3>1. PICK k \in 1 .. n : IsRequest(k, p)
      BY <1>4, <1>5, <1>11 DEF LogSound
    <3>2. IsRequest(seq, p)
      BY <1>2, <1>5 DEF IsRequest, EntryRecord
    <3>3. k \in 1 .. Len(log) /\ Len(log) \in Nat
      BY TakeParts
    <3>4. k = seq
      BY <1>2, <1>4, <1>5, <3>1, <3>2, <3>3 DEF LogSound
    <3>5. seq # n
      BY <1>5, <1>11 DEF IsResult
    <3> QED
      BY <3>3, <3>4, <3>5
  <2> QED
    BY <1>9, <2>1, <2>2, <2>3
<1>12. \A q \in recorded : ~IsResult(seq, q)
  BY <1>5 DEF IsResult
<1>13. JobSound' /\ job' \in JobRecord /\ ~Syncs' /\ job'.kind # "snapshot" /\ job'.stage # "say" /\ job' = NoJob
  BY <1>2, <1>3, NoJobSound
<1>14. MessagesMove
  BY <1>3, MessagesStay
<1>15. \A n \in Nat : n = worker.seq + 1 /\ IsChat(n) => worker'.seq # n
  BY <1>5, <1>7, TakeParts DEF IsChat
<1>16. queue[1].seq = seq
  BY DEF seq
<1>17. message' \in [Messages -> {"unsent", "queued", "delivered", "told", "dropped", "past"}]
  BY <1>3, TakeParts
<1>18. \A q \in recorded : store'[q] # NoCard => store[q] # NoCard
  BY <1>9, TakeParts
<1> QED
  BY <1>2, <1>3, <1>6, <1>7, <1>8, <1>9, <1>10, <1>11, <1>12, <1>13, <1>14, <1>15, <1>16, <1>17, <1>18, ServeKeeps

LEMMA TakeResolvedKeeps == BridgeInv /\ TakeResolved => BridgeInv'
<1> SUFFICES ASSUME BridgeInv, TakeResolved PROVE BridgeInv'
  OBVIOUS
<1>1. Serves("event") /\ log[Head(queue).seq].kind = "resolved"
  BY DEF TakeResolved
<1> DEFINE seq == queue[1].seq
           p == queue[1].of
<1>2. /\ Head(queue) = queue[1] /\ job = NoJob /\ seq \in 1 .. Len(log) /\ seq \in Nat /\ queue # <<>> /\ worker.live
      /\ Up(1, "event") /\ seq <= worker.seq + 1 /\ p = log[seq].of
  BY <1>1, HeadEvent, TakeParts
<1>3. /\ Drop /\ worker' = [worker EXCEPT !.seq = Ahead(seq)]
      /\ IF store[p] = NoCard
         THEN (IF seq > worker.seq THEN Advance(seq) ELSE UNCHANGED cursor) /\ UNCHANGED job
         ELSE Begin("event", p, seq, "finish") /\ UNCHANGED cursor
      /\ UNCHANGED <<given, log, prompt, notices, link, store, discord, message, posted, inputs, faults>>
  BY <1>2 DEF TakeResolved, daemon, human
<1>4. LogSound /\ BridgeTyped
  BY DEF BridgeInv
<1>5. log[seq].kind = "resolved" /\ log[seq] \in EntryRecord /\ p \in recorded /\ p \in Prompts /\ Over(p)
  <2>1. log[seq].kind = "resolved" /\ log[seq] \in EntryRecord /\ p \in recorded /\ p \in Prompts
    BY <1>1, <1>2, <1>4, BridgeParts DEF LogSound
  <2>2. IsResult(seq, p)
    BY <1>2, <2>1 DEF IsResult, EntryRecord
  <2> QED
    BY <1>2, <1>4, <2>1, <2>2 DEF LogSound
<1>16. queue[1].seq = seq /\ queue[1].of = p
  OBVIOUS
<1> HIDE DEF seq, p
<1>6. /\ worker' \in [live : BOOLEAN, seq : Nat, shown : [Prompts -> Shown], seen : SUBSET Messages]
      /\ worker'.live = worker.live /\ worker'.seen = worker.seen /\ worker'.seq = Ahead(seq)
  <2>1. Ahead(seq) \in Nat
    BY <1>2, TakeParts DEF Ahead
  <2> QED
    BY <1>3, <2>1, TakeParts
<1>7. /\ worker'.seq >= worker.seq /\ worker'.seq >= seq
      /\ worker'.seq > worker.seq => worker'.seq <= worker.seq + 1 /\ worker'.seq <= Len(log) /\ worker'.seq = seq
  BY <1>2, <1>6, TakeParts DEF Ahead
<1>8. cursor' \in Nat /\ (cursor' # cursor => cursor' <= worker'.seq)
  BY <1>2, <1>3, <1>7, TakeParts DEF Advance
<1>9. /\ job' \in JobRecord /\ JobSound' /\ job'.kind # "snapshot" /\ ~Syncs' /\ job'.stage # "say"
      /\ store[p] = NoCard \/ (job'.stage = "finish" /\ job'.of = p)
  <2>1. CASE store[p] = NoCard
    BY <1>2, <1>3, <2>1, NoJobSound
  <2>2. CASE store[p] # NoCard
    <3>1. /\ job' \in JobRecord /\ job'.kind = "event" /\ job'.of = p /\ job'.seq = seq /\ job'.stage = "finish"
          /\ job'.listed = {} /\ job'.todo = {}
      BY <1>2, <1>3, <1>5, <2>2, BegunTyped DEF JobKinds, JobStages, Subjects
    <3>2. Past(job.of)'
      BY <1>3, <1>5, <3>1 DEF Past, Over
    <3>3. JobSound' /\ ~Syncs'
      BY <1>5, <1>7, <3>1, <3>2 DEF JobSound, Syncs
    <3> QED
      BY <3>1, <3>3
  <2> QED
    BY <2>1, <2>2
<1>14. MessagesMove
  BY <1>3, MessagesStay
<1>15. \A n \in Nat : n = worker.seq + 1 /\ IsChat(n) => worker'.seq # n
  BY <1>5, <1>7, TakeParts DEF IsChat
<1>17. message' \in [Messages -> {"unsent", "queued", "delivered", "told", "dropped", "past"}]
  BY <1>3, TakeParts
<1> QED
  BY <1>2, <1>3, <1>6, <1>7, <1>8, <1>9, <1>14, <1>15, <1>16, <1>17, ServePlainly
\* A step of the worker between two works: the queue and what was seen stay.
LEMMA WorkKeeps ==
  ASSUME BridgeInv, UNCHANGED <<given, log, notices, queue, inputs, faults>>,
         worker' \in [live : BOOLEAN, seq : Nat, shown : [Prompts -> Shown], seen : SUBSET Messages],
         worker'.live = worker.live, worker'.seq = worker.seq, worker'.seen = worker.seen,
         link' \in [phase : Phases, next : Nat], link'.next = link.next,
         link'.phase = link.phase \/ (link.phase = "binding" /\ worker.live /\ link'.phase = "bound"), LinkSound',
         prompt' \in [Prompts -> {"unasked", "pending", "answered", "withdrawn", "lost"}],
         \A p \in Prompts : prompt'[p] = prompt[p] \/ (prompt[p] = "pending" /\ prompt'[p] = "answered"),
         message' \in [Messages -> {"unsent", "queued", "delivered", "told", "dropped", "past"}], MessagesMove,
         job' \in JobRecord, JobSound', CardsMove, StoreSound',
         store' \in [Prompts -> [card : Nat, seq : Nat]], cursor' \in Nat, cursor' <= Len(log), SaidMove,
         \A p \in recorded, n \in 1 .. Len(log) : IsResult(n, p) =>
            /\ store'[p] # NoCard => store'[p].seq < n /\ (Subscribing' => Coming(n) \/ Finishing(p)')
            /\ p \in job'.listed /\ Syncs' => worker.seq < n /\ Coming(n),
         SnapshotsStay => MirrorSound', posted' \in [Messages -> Nat], PostsSound'
  PROVE  BridgeInv'
<1>1. BridgeTyped /\ LogSound /\ LinkSound /\ QueueSound /\ InLine /\ JobSound /\ StoreSound /\ CardSound /\ ResultSound
        /\ MirrorSound /\ PostsSound
  BY DEF BridgeInv
<1>2. UNCHANGED <<board, recorded>>
  BY DEF given
<1>3. LogGoesOn
  BY <1>1, LogStays
<1>4. PromptsMove /\ \A p \in Prompts : (Over(p) => Over(p)') /\ (OverOrAsked(p) => OverOrAsked(p)')
  BY DEF PromptsMove, Asked, Past, Over, OverOrAsked
<1>5. QueueSound' /\ InLine' /\ SnapshotsStay /\ \A n \in Nat : Coming(n) <=> Coming(n)'
  BY <1>1, QueueStays
<1>6. BridgeTyped'
  <2>1. Bounded'
    BY <1>1 DEF Bounded, BridgeTyped
  <2>2. cards' \in Seq(CardRecord) /\ said' \in Seq(Nat) /\ \A i \in 1 .. Len(said') : said'[i] \in 1 .. Len(log')
    BY DEF CardsMove, SaidMove
  <2> QED
    BY <1>1, <1>2, <1>3, <2>1, <2>2, TypedKeeps, BridgeParts DEF BridgeTyped, BridgeTypeOK
<1>7. LogSound'
  BY <1>1, <1>2, <1>4, LogSoundStays
<1>8. CardSound'
  BY <1>1, <1>4, CardsKeep, BridgeParts
<1>9. ResultSound'
  <2> SUFFICES ASSUME NEW p \in recorded, NEW n \in 1 .. Len(log), IsResult(n, p)
               PROVE  /\ store'[p] # NoCard => store'[p].seq < n /\ (Subscribing' => Coming(n)' \/ Finishing(p)')
                      /\ p \in job'.listed /\ Syncs' => worker'.seq < n /\ Coming(n)'
    BY <1>2 DEF ResultSound, IsResult
  <2>1. /\ store'[p] # NoCard => store'[p].seq < n /\ (Subscribing' => Coming(n) \/ Finishing(p)')
        /\ p \in job'.listed /\ Syncs' => worker.seq < n /\ Coming(n)
    OBVIOUS
  <2>2. Coming(n) => Coming(n)'
    BY <1>5
  <2> QED
    BY <2>1, <2>2
<1> QED
  BY <1>5, <1>6, <1>7, <1>8, <1>9 DEF BridgeInv
LEMMA TakeInputKeeps == BridgeInv /\ (TakeNotice \/ TakeClick \/ TakeMessage) => BridgeInv'
<1> SUFFICES ASSUME BridgeInv, TakeNotice \/ TakeClick \/ TakeMessage PROVE BridgeInv'
  OBVIOUS
<1>1. /\ job = NoJob /\ queue # <<>> /\ worker.live /\ Drop /\ Head(queue).kind \in {"notice", "click", "message"}
      /\ UNCHANGED <<given, log, prompt, notices, link, store, cursor, discord, message, posted, inputs, faults>>
      /\ worker'.seq = worker.seq /\ worker'.live = worker.live
      /\ worker' \in [live : BOOLEAN, seq : Nat, shown : [Prompts -> Shown], seen : SUBSET Messages]
      /\ worker.seen \subseteq worker'.seen
  <2>1. /\ job = NoJob /\ queue # <<>> /\ worker.live /\ Drop /\ Head(queue).kind \in {"notice", "click", "message"}
        /\ UNCHANGED <<given, log, prompt, notices, link, store, cursor, discord, message, posted, inputs, faults>>
    BY DEF TakeNotice, TakeClick, TakeMessage, Serves, IsNext, Unoccupied, daemon, durable, human
  <2>2. \/ worker' = worker
        \/ Head(queue).kind = "message" /\ worker' = [worker EXCEPT !.seen = @ \cup {Head(queue).of}]
    BY DEF TakeNotice, TakeClick, TakeMessage, Serves, IsNext
  <2>3. Head(queue) = queue[1] /\ 1 \in 1 .. Len(queue)
    BY <2>1, TakeParts
  <2>4. Head(queue).kind = "message" => Head(queue).of \in Messages
    BY <2>3, TakeParts DEF QueueSound, WorkSound
  <2> QED
    BY <2>1, <2>2, <2>4, TakeParts
<1> DEFINE of == queue[1].of
<1>2. Head(queue) = queue[1] /\ 1 \in 1 .. Len(queue) /\ of \in Subjects /\ ~Up(1, "event")
  <2>1. Head(queue) = queue[1] /\ 1 \in 1 .. Len(queue) /\ queue[1] \in Work
    BY <1>1, TakeParts
  <2>2. of \in Subjects
    BY <2>1 DEF Work
  <2> QED
    BY <1>1, <2>1, <2>2 DEF Up
<1>3. WorkSound(1)
  BY <1>2, TakeParts DEF QueueSound
<1> HIDE DEF of
<1>4. ASSUME NEW kind \in {"notice", "click"}, Head(queue).kind = kind, Begin(kind, of, 0, "list")
      PROVE  job' \in JobRecord /\ JobSound' /\ ~Syncs' /\ job'.kind # "snapshot" /\ job'.stage # "say"
  <2>1. /\ job' \in JobRecord /\ job'.kind = kind /\ job'.of = of /\ job'.seq = 0 /\ job'.stage = "list"
        /\ job'.listed = {} /\ job'.todo = {}
    BY <1>2, <1>4, BegunTyped DEF JobKinds, JobStages
  <2>2. of \in Prompts
    BY <1>2, <1>3, <1>4 DEF WorkSound, of
  <2> QED
    BY <2>1, <2>2, <1>4 DEF JobSound, Syncs
<1>5. CASE TakeNotice \/ TakeClick
  <2>1. \E kind \in {"notice", "click"} : Head(queue).kind = kind /\ Begin(kind, of, 0, "list")
    BY <1>2, <1>5 DEF TakeNotice, TakeClick, Serves, IsNext, of
  <2>2. job' \in JobRecord /\ JobSound' /\ ~Syncs' /\ job'.kind # "snapshot" /\ job'.stage # "say"
    BY <1>4, <2>1
  <2> QED
    BY <1>1, <1>2, <2>2, MessagesStay, TakeParts, ServePlainly
<1>6. CASE TakeMessage
  <2>1. CASE of \in worker.seen
    <3>1. job' = NoJob
      BY <1>1, <1>2, <1>6, <2>1 DEF TakeMessage, of
    <3> QED
      BY <1>1, <1>2, <3>1, NoJobSound, MessagesStay, TakeParts, ServePlainly
  <2>2. CASE of \notin worker.seen
    <3>1. worker' = [worker EXCEPT !.seen = @ \cup {of}] /\ Begin("message", of, 0, "post") /\ Head(queue).kind = "message"
      BY <1>2, <1>6, <2>2 DEF TakeMessage, Serves, IsNext, of
    <3>2. /\ job' \in JobRecord /\ job'.kind = "message" /\ job'.of = of /\ job'.seq = 0 /\ job'.stage = "post"
          /\ job'.listed = {} /\ job'.todo = {}
      BY <1>2, <3>1, BegunTyped DEF JobKinds, JobStages
    <3>3. of \in Messages /\ message[of] \notin {"unsent", "past"} /\ of \in worker'.seen
      BY <1>2, <1>3, <3>1, TakeParts DEF WorkSound, of
    <3>4. posted[of] = 0
      <4>1. PostsSound /\ posted[of] \in Nat
        BY <3>3, BridgeParts DEF BridgeInv
      <4> QED
        BY <4>1, <2>2, <3>3 DEF PostsSound
    <3>5. JobSound' /\ ~Syncs'
      <4>1. message'[of] \notin {"unsent", "past"} /\ posted'[of] = 0
        BY <1>1, <3>3, <3>4
      <4>2. message'[job'.of] \notin {"unsent", "past"} /\ posted'[job'.of] = 0
        BY <3>2, <4>1
      <4> QED
        BY <3>2, <3>3, <4>2 DEF JobSound, Syncs
    <3> QED
      BY <1>1, <1>2, <3>2, <3>5, MessagesStay, TakeParts, ServePlainly
  <2> QED
    BY <2>1, <2>2
<1> QED
  BY <1>5, <1>6

LEMMA TickKeeps == BridgeInv /\ Tick => BridgeInv'
<1> SUFFICES ASSUME BridgeInv, Tick PROVE BridgeInv'
  OBVIOUS
<1>1. /\ job = NoJob /\ worker.live /\ Begin("tick", Nobody, 0, "list")
      /\ UNCHANGED <<given, log, prompt, notices, link, queue, worker, store, cursor, cards, said, message, posted, inputs,
                     faults>>
  BY DEF Tick, Unoccupied, daemon, durable, discord, human
<1>2. BridgeTyped /\ LinkSound /\ StoreSound /\ ResultSound /\ MirrorSound /\ PostsSound
  BY DEF BridgeInv
<1>3. /\ job' \in JobRecord /\ job'.kind = "tick" /\ job'.of = Nobody /\ job'.seq = 0 /\ job'.stage = "list"
      /\ job'.listed = {} /\ job'.todo = {}
  BY <1>1, BegunTyped DEF JobKinds, JobStages, Subjects
<1>4. JobSound' /\ ~Syncs'
  BY <1>3 DEF JobSound, Syncs
<1>5. LinkSound'
  BY <1>1, <1>2, <1>3 DEF LinkSound, NoJob
<1>6. CardsMove /\ SaidMove /\ MessagesMove /\ StoreSound'
  BY <1>1, <1>2, CardsStay, SaidStays, MessagesStay, BridgeParts DEF StoreSound
<1>7. \A p \in recorded, n \in 1 .. Len(log) : IsResult(n, p) =>
        /\ store'[p] # NoCard => store'[p].seq < n /\ (Subscribing' => Coming(n) \/ Finishing(p)')
        /\ p \in job'.listed /\ Syncs' => worker.seq < n /\ Coming(n)
  <2>1. \A p : ~Finishing(p)
    BY <1>1 DEF Finishing, NoJob
  <2>2. Subscribing' => Subscribing
    BY <1>1 DEF Subscribing
  <2> QED
    BY <1>1, <1>2, <1>4, <2>1, <2>2 DEF ResultSound
<1>8. SnapshotsStay => MirrorSound'
  <2>1. job.stage # "say" /\ job'.stage # "say" /\ UNCHANGED board
    BY <1>1, <1>3 DEF NoJob, given
  <2> QED
    BY <1>1, <1>2, <2>1, MirrorKeeps
<1>9. PostsSound'
  BY <1>1, <1>2 DEF PostsSound
<1>10. cursor \in Nat /\ cursor <= Len(log) /\ posted \in [Messages -> Nat] /\ store \in [Prompts -> [card : Nat, seq : Nat]]
       /\ prompt \in [Prompts -> {"unasked", "pending", "answered", "withdrawn", "lost"}]
       /\ link \in [phase : Phases, next : Nat]
  BY <1>2, BridgeParts DEF BridgeTyped, Bounded, BridgeTypeOK
<1> QED
  BY <1>1, <1>3, <1>4, <1>5, <1>6, <1>7, <1>8, <1>9, <1>10, TakeParts, WorkKeeps
\* The snapshot makes the worker live.
LEMMA TakeSnapshotKeeps == BridgeInv /\ TakeSnapshot => BridgeInv'
<1> SUFFICES ASSUME BridgeInv, TakeSnapshot PROVE BridgeInv'
  OBVIOUS
<1>1. BridgeTyped /\ LogSound /\ LinkSound /\ QueueSound /\ InLine /\ JobSound /\ StoreSound /\ CardSound /\ ResultSound
        /\ MirrorSound /\ PostsSound
  BY DEF BridgeInv
<1> DEFINE seq == queue[1].seq
<1>2. /\ job = NoJob /\ queue # <<>> /\ Head(queue).live /\ Head(queue).kind = "snapshot" /\ Drop
      /\ UNCHANGED <<board, recorded, log, prompt, notices, link, store, cursor, cards, said, message, posted, inputs,
                     faults>>
      /\ Begin("snapshot", Nobody, 0, "list")
  BY DEF TakeSnapshot, IsNext, Unoccupied, given, daemon, durable, discord, human
<1>3. Head(queue) = queue[1] /\ 1 \in 1 .. Len(queue) /\ queue[1] \in Work
  BY <1>2, TakeParts
<1>4. Up(1, "snapshot") /\ seq \in Nat
  BY <1>2, <1>3 DEF Up, Work
<1>5. /\ worker' = [worker EXCEPT !.live = TRUE, !.seq = seq, !.shown = [p \in Prompts |-> "nothing"]]
  BY <1>3 DEF TakeSnapshot
<1>6. /\ link.phase = "binding" /\ ~worker.live /\ link.next <= seq + 1 /\ seq <= Len(log)
      /\ \A j \in 1 .. Len(queue) : Up(j, "snapshot") => 1 = j
  BY <1>1, <1>3, <1>4 DEF QueueSound, WorkSound
<1>7. board => seq <= cursor
  BY <1>1, <1>3, <1>4 DEF MirrorSound
<1>8. ~board => SaidUpTo(seq)
  BY <1>1, <1>3, <1>4 DEF MirrorSound
<1> HIDE DEF seq
<1>9. /\ worker' \in [live : BOOLEAN, seq : Nat, shown : [Prompts -> Shown], seen : SUBSET Messages]
      /\ worker'.live /\ worker'.seq = seq /\ worker'.seen = worker.seen
  <2>1. [p \in Prompts |-> "nothing"] \in [Prompts -> Shown]
    BY DEF Shown
  <2> QED
    BY <1>4, <1>5, <2>1, TakeParts
<1>10. /\ job' \in JobRecord /\ job'.kind = "snapshot" /\ job'.of = Nobody /\ job'.seq = 0 /\ job'.stage = "list"
       /\ job'.listed = {} /\ job'.todo = {}
  BY <1>2, BegunTyped DEF JobKinds, JobStages, Subjects
<1>11. /\ queue' \in Seq(Work) /\ Len(queue') = Len(queue) - 1 /\ Len(queue) \in Nat
       /\ \A i \in 1 .. Len(queue') : queue'[i] = queue[i + 1] /\ i + 1 \in 1 .. Len(queue)
       /\ \A i \in 1 .. Len(queue'), kind \in {"event", "snapshot"} : Up(i, kind)' <=> Up(i + 1, kind)
  BY <1>2, TakeParts, WorkTaken DEF Drop
<1>12. /\ \A i \in 1 .. Len(queue) : ~Up(i, "event")
       /\ \A i \in 1 .. Len(queue') : ~Up(i, "event")' /\ ~Up(i, "snapshot")'
  <2>1. \A i \in 1 .. Len(queue) : ~Up(i, "event")
    BY <1>1, <1>6 DEF QueueSound, WorkSound
  <2>2. \A i \in 1 .. Len(queue') : i + 1 # 1
    BY <1>11
  <2> QED
    BY <1>6, <1>11, <2>1, <2>2
<1>13. MessagesMove /\ PromptsMove /\ LogGoesOn /\ CardsMove
  BY <1>1, <1>2, MessagesStay, PromptsStay, LogStays, CardsStay, BridgeParts
<1>14. BridgeTyped'
  <2>1. Len(queue') <= QueueSize
    BY <1>1, <1>11, BridgeAssumption DEF BridgeTyped, BridgeTypeOK
  <2>2. Bounded'
    BY <1>1, <1>2, <1>6, <1>9 DEF Bounded, BridgeTyped
  <2> QED
    BY <1>1, <1>2, <1>9, <1>10, <1>11, <1>13, <2>1, <2>2, TypedKeeps, SaidTyped, BridgeParts
       DEF BridgeTyped, BridgeTypeOK, given
<1>15. LogSound'
  BY <1>1, <1>2, LogSoundStays DEF Over, OverOrAsked
<1>16. LinkSound'
  BY <1>2, <1>6, <1>9, <1>10 DEF LinkSound
<1>17. QueueSound'
  <2> SUFFICES ASSUME NEW i \in 1 .. Len(queue') PROVE WorkSound(i)'
    BY DEF QueueSound
  <2>1. WorkSound(i + 1) /\ queue'[i] = queue[i + 1]
    BY <1>1, <1>11 DEF QueueSound
  <2> QED
    BY <1>2, <1>12, <2>1 DEF WorkSound
<1>18. InLine'
  BY <1>2, <1>6, <1>9, <1>12 DEF InLine
<1>19. JobSound' /\ ~Syncs'
  BY <1>10 DEF JobSound, Syncs
<1>20. StoreSound' /\ CardSound'
  BY <1>1, <1>2, <1>13, StoreKeeps, CardsKeep, BridgeParts
<1>21. ResultSound'
  <2> SUFFICES ASSUME NEW p \in recorded, NEW n \in 1 .. Len(log), IsResult(n, p), store[p] # NoCard
               PROVE  store[p].seq < n /\ Coming(n)'
    BY <1>2, <1>19 DEF ResultSound, IsResult
  <2>1. store[p].seq < n /\ (Coming(n) \/ Finishing(p))
    BY <1>1, <1>6 DEF ResultSound, Subscribing
  <2>2. ~Finishing(p) /\ ~Delivered(n)
    BY <1>2, <1>12 DEF Finishing, NoJob, Delivered
  <2> QED
    BY <1>2, <2>1, <2>2 DEF Coming
<1>22. MirrorSound'
  <2>1. Ordered(said)' /\ CursorIsBehind' /\ (\A n : IsChat(n)' <=> IsChat(n)) /\ (\A n : IsSaid(n)' <=> IsSaid(n))
    BY <1>1, <1>2 DEF MirrorSound, Ordered, CursorIsBehind, IsChat, IsSaid
  <2>2. board => \A n \in 1 .. seq : IsChat(n) => IsSaid(n)
    <3>1. board => \A n \in 1 .. seq : n \in 1 .. cursor
      BY <1>4, <1>7, TakeParts
    <3> QED
      BY <1>1, <3>1 DEF MirrorSound, CursorIsBehind
  <2> QED
    BY <1>2, <1>8, <1>9, <1>10, <1>12, <2>1, <2>2 DEF MirrorSound, SaidUpTo
<1>23. PostsSound'
  BY <1>1, <1>2, <1>9, <1>13, PostsKeep
<1> QED
  BY <1>14, <1>15, <1>16, <1>17, <1>18, <1>19, <1>20, <1>21, <1>22, <1>23 DEF BridgeInv
-----------------------------------------------------------------------------
(* The worker's own steps                                                  *)

LEMMA WorkParts ==
  ASSUME BridgeInv, job # NoJob
  PROVE  /\ BridgeTyped /\ LinkSound /\ QueueSound /\ JobSound /\ StoreSound /\ CardSound /\ ResultSound /\ MirrorSound
         /\ PostsSound /\ worker.live /\ recorded \subseteq Prompts
         /\ worker \in [live : BOOLEAN, seq : Nat, shown : [Prompts -> Shown], seen : SUBSET Messages]
         /\ worker.seq \in Nat /\ worker.seq <= Len(log) /\ Len(log) \in Nat
         /\ message \in [Messages -> {"unsent", "queued", "delivered", "told", "dropped", "past"}]
         /\ prompt \in [Prompts -> {"unasked", "pending", "answered", "withdrawn", "lost"}]
         /\ link \in [phase : Phases, next : Nat]
         /\ store \in [Prompts -> [card : Nat, seq : Nat]] /\ cards \in Seq(CardRecord)
         /\ cursor \in Nat /\ cursor <= Len(log) /\ posted \in [Messages -> Nat]
         /\ job \in JobRecord /\ job.seq \in Nat /\ job.listed \subseteq Prompts /\ job.todo \subseteq Prompts
         /\ \A i \in 1 .. Len(queue) : ~Up(i, "snapshot")
<1>1. /\ BridgeTyped /\ LinkSound /\ QueueSound /\ JobSound /\ StoreSound /\ CardSound /\ ResultSound /\ MirrorSound
      /\ PostsSound /\ worker.live
  BY DEF BridgeInv, LinkSound
<1>2. \A i \in 1 .. Len(queue) : ~Up(i, "snapshot")
  BY <1>1 DEF QueueSound, WorkSound
<1> QED
  BY <1>1, <1>2, BridgeParts DEF BridgeTyped, Bounded, BridgeTypeOK

LEMMA MirrorWorks ==
  ASSUME BridgeInv, job # NoJob, SaidMove, UNCHANGED <<board, log>>, worker'.live = worker.live, worker'.seq = worker.seq,
         job'.stage # "say", SnapshotsStay,
         board => \A n \in 1 .. worker.seq : IsChat(n) => IsSaid(n)',
         ~board => \A i \in 1 .. Len(said') : said'[i] <= worker.seq,
         cursor' \in Nat, cursor' # cursor => cursor' <= worker.seq
  PROVE  MirrorSound'
<1>1. \A n : IsChat(n)' <=> IsChat(n)
  BY DEF IsChat
<1>2. \A i \in 1 .. Len(queue') : ~Up(i, "snapshot")'
  BY WorkParts DEF SnapshotsStay
<1>3. Ordered(said)'
  BY <1>1 DEF SaidMove, Ordered
<1>4. CursorIsBehind'
  <2>1. CASE cursor' = cursor
    <3>1. \A n \in 1 .. cursor : n \in Nat
      BY WorkParts
    <3>2. board => \A n \in 1 .. cursor : IsChat(n) => IsSaid(n)
      BY WorkParts DEF MirrorSound, CursorIsBehind
    <3> QED
      BY <1>1, <2>1, <3>1, <3>2 DEF CursorIsBehind, SaidMove
  <2>2. CASE cursor' # cursor
    <3>1. \A n \in 1 .. cursor' : n \in 1 .. worker.seq
      BY <2>2, WorkParts
    <3> QED
      BY <1>1, <3>1 DEF CursorIsBehind
  <2> QED
    BY <2>1, <2>2
<1> QED
  BY <1>1, <1>2, <1>3, <1>4 DEF MirrorSound, SaidUpTo

\* Between two works and not about to say anything, all chat that was seen is said.
LEMMA AllIsSaid ==
  ASSUME BridgeInv, job # NoJob, job.stage # "say", said' = said
  PROVE  /\ SaidMove
         /\ board => \A n \in 1 .. worker.seq : IsChat(n) => IsSaid(n)'
         /\ ~board => \A i \in 1 .. Len(said') : said'[i] <= worker.seq
<1>1. MirrorSound /\ BridgeTyped /\ worker.live
  BY WorkParts
<1>2. \A n : IsSaid(n)' <=> IsSaid(n)
  BY DEF IsSaid
<1> QED
  BY <1>1, <1>2, SaidStays DEF MirrorSound, SaidUpTo

LEMMA SayKeeps == BridgeInv /\ Say => BridgeInv'
<1> SUFFICES ASSUME BridgeInv, Say, NEW s, s = job.seq PROVE BridgeInv'
  OBVIOUS
<1>1. /\ job.stage = "say" /\ said' = Saying(s) /\ Advance(s) /\ job' = NoJob
      /\ UNCHANGED <<given, board, recorded, log, prompt, notices, link, queue, worker, store, cards, message, posted,
                     inputs, faults>>
  BY DEF Say, Quiet, given, daemon, human
<1>2. job # NoJob
  BY <1>1 DEF NoJob
<1>3. IsChat(s) /\ s = worker.seq /\ s \in Nat
  BY <1>1, <1>2, WorkParts DEF JobSound
<1>4. /\ SaidMove /\ IsSaid(s)' /\ (~board => \A i \in 1 .. Len(said') : said'[i] <= s)
  BY <1>1, <1>2, SaidGrows, WorkParts
<1>5. cursor' \in Nat /\ (cursor' # cursor => cursor' <= worker.seq) /\ cursor' <= Len(log)
  BY <1>1, <1>2, <1>3, WorkParts DEF Advance
<1>6. board => \A n \in 1 .. worker.seq : IsChat(n) => IsSaid(n)'
  <2> SUFFICES ASSUME board, NEW n \in 1 .. worker.seq, IsChat(n) PROVE IsSaid(n)'
    OBVIOUS
  <2>1. IsSaid(n) \/ n = s
    BY <1>2, WorkParts DEF MirrorSound
  <2> QED
    BY <2>1, <1>3, <1>4 DEF SaidMove
<1>7. SnapshotsStay => MirrorSound'
  BY <1>1, <1>2, <1>3, <1>4, <1>5, <1>6, MirrorWorks, NoJobSound
<1>8. JobSound' /\ job' \in JobRecord /\ ~Syncs' /\ job'.kind # "snapshot"
  BY <1>1, NoJobSound
<1>9. LinkSound'
  <2>1. job.kind # "snapshot"
    BY <1>1, <1>2, WorkParts DEF JobSound
  <2> QED
    BY <1>1, <1>2, <1>8, <2>1, WorkParts DEF LinkSound
<1>10. CardsMove /\ StoreSound' /\ MessagesMove /\ PostsSound'
  BY <1>1, <1>2, CardsStay, MessagesStay, WorkParts DEF StoreSound, PostsSound
<1>11. \A p \in recorded, n \in 1 .. Len(log) : IsResult(n, p) =>
         /\ store'[p] # NoCard => store'[p].seq < n /\ (Subscribing' => Coming(n) \/ Finishing(p)')
         /\ p \in job'.listed /\ Syncs' => worker.seq < n /\ Coming(n)
  <2>1. \A p : ~Finishing(p)
    BY <1>1 DEF Finishing
  <2>2. Subscribing' => Subscribing
    BY <1>1 DEF Subscribing
  <2> QED
    BY <1>1, <1>2, <1>8, <2>1, <2>2, WorkParts DEF ResultSound
<1> QED
  BY <1>1, <1>2, <1>4, <1>5, <1>7, <1>8, <1>9, <1>10, <1>11, WorkParts, WorkKeeps
\* What the worker finishes it forgets.
LEMMA FinishKeeps == BridgeInv /\ Finish => BridgeInv'
<1> SUFFICES ASSUME BridgeInv, Finish PROVE BridgeInv'
  OBVIOUS
<1> DEFINE p == job.of
<1>1. /\ job.stage = "finish" /\ cards' = Card(store[p].card, "final") /\ store' = [store EXCEPT ![p] = NoCard]
      /\ worker' = [worker EXCEPT !.shown[p] = "nothing"] /\ job' = NoJob
      /\ IF job.kind = "event" /\ job.seq >= worker.seq THEN Advance(job.seq) ELSE UNCHANGED cursor
      /\ UNCHANGED <<given, board, recorded, log, prompt, notices, link, queue, said, message, posted, inputs, faults>>
  BY DEF Finish, Forget, Quiet, given, daemon, human
<1>2. job # NoJob
  BY <1>1 DEF NoJob
<1>3. p \in Prompts /\ Past(p) /\ (job.kind = "event" => job.seq <= worker.seq) /\ job.kind # "snapshot"
  BY <1>1, <1>2, WorkParts DEF JobSound
<1>4. \A q \in Prompts : q # p => ~Finishing(q)
  BY DEF Finishing
<1> HIDE DEF p
<1>5. /\ worker' \in [live : BOOLEAN, seq : Nat, shown : [Prompts -> Shown], seen : SUBSET Messages]
      /\ worker'.live = worker.live /\ worker'.seq = worker.seq /\ worker'.seen = worker.seen
  <2>1. [worker.shown EXCEPT ![p] = "nothing"] \in [Prompts -> Shown]
    BY <1>2, WorkParts DEF Shown
  <2>2. worker' = [worker EXCEPT !.shown = [worker.shown EXCEPT ![p] = "nothing"]]
    BY <1>1
  <2> QED
    BY <1>2, <2>1, <2>2, WorkParts
<1>6. CardsMove
  <2>1. store[p].card \in Nat /\ "final" \in Texts
    BY <1>2, <1>3, WorkParts DEF Texts
  <2>2. store[p].card \in 1 .. Len(cards) => cards[store[p].card].of = p
    <3>1. store[p] = NoCard => store[p].card = 0
      BY DEF NoCard
    <3> QED
      BY <1>2, <1>3, <3>1, WorkParts DEF StoreSound
  <2> QED
    BY <1>1, <1>2, <1>3, <2>1, <2>2, CardEdited, WorkParts
<1>7. /\ store' \in [Prompts -> [card : Nat, seq : Nat]]
      /\ \A q \in Prompts : store'[q] = IF q = p THEN NoCard ELSE store[q]
  BY <1>1, <1>2, <1>3, WorkParts DEF NoCard
<1>8. StoreSound'
  BY <1>1, <1>2, <1>6, <1>7, StoreKeeps, WorkParts
<1>9. cursor' \in Nat /\ (cursor' # cursor => cursor' <= worker.seq) /\ cursor' <= Len(log)
  BY <1>1, <1>2, <1>3, WorkParts DEF Advance
<1>10. SaidMove /\ (SnapshotsStay => MirrorSound')
  BY <1>1, <1>2, <1>5, <1>9, AllIsSaid, MirrorWorks, NoJobSound
<1>11. JobSound' /\ job' \in JobRecord /\ ~Syncs' /\ job'.kind # "snapshot"
  BY <1>1, NoJobSound
<1>12. LinkSound'
  BY <1>1, <1>2, <1>3, <1>5, <1>11, WorkParts DEF LinkSound
<1>13. MessagesMove /\ PostsSound'
  BY <1>1, <1>2, <1>5, MessagesStay, PostsKeep, WorkParts
<1>14. \A q \in recorded, n \in 1 .. Len(log) : IsResult(n, q) =>
         /\ store'[q] # NoCard => store'[q].seq < n /\ (Subscribing' => Coming(n) \/ Finishing(q)')
         /\ q \in job'.listed /\ Syncs' => worker.seq < n /\ Coming(n)
  <2> SUFFICES ASSUME NEW q \in recorded, NEW n \in 1 .. Len(log), IsResult(n, q), store'[q] # NoCard
               PROVE  store'[q].seq < n /\ (Subscribing' => Coming(n))
    BY <1>11
  <2>1. q \in Prompts /\ q # p /\ store'[q] = store[q]
    BY <1>2, <1>7, WorkParts
  <2>2. ~Finishing(q) /\ (Subscribing' => Subscribing)
    BY <1>1, <1>4, <2>1 DEF Subscribing
  <2> QED
    BY <1>2, <2>1, <2>2, WorkParts DEF ResultSound
<1> QED
  BY <1>1, <1>2, <1>5, <1>6, <1>7, <1>8, <1>9, <1>10, <1>11, <1>12, <1>13, <1>14, WorkParts, WorkKeeps

\* The worker learns what became of a message.
LEMMA AnsweredKeeps ==
  ASSUME BridgeInv, job.stage \in {"post", "accepted"}, NEW answer \in {"delivered", "told"},
         message' = [message EXCEPT ![job.of] = answer], job' = NoJob,
         UNCHANGED <<worker, durable, discord, posted, inputs>>, Quiet
  PROVE  BridgeInv'
<1>1. /\ UNCHANGED <<given, board, recorded, log, prompt, notices, link, queue, worker, store, cursor, cards, said, posted,
                     inputs, faults>>
  BY DEF Quiet, given, daemon, durable, discord
<1>2. job # NoJob
  BY DEF NoJob
<1>3. job.kind = "message" /\ job.of \in Messages /\ message[job.of] \notin {"unsent", "past"}
  BY <1>2, WorkParts DEF JobSound
<1>4. /\ message' \in [Messages -> {"unsent", "queued", "delivered", "told", "dropped", "past"}]
      /\ MessagesMove
  BY <1>2, <1>3, WorkParts DEF MessagesMove
<1>5. JobSound' /\ job' \in JobRecord /\ ~Syncs' /\ job'.kind # "snapshot" /\ job'.stage # "say"
  BY NoJobSound
<1>6. LinkSound'
  BY <1>1, <1>2, <1>3, <1>5, WorkParts DEF LinkSound
<1>7. CardsMove /\ SaidMove /\ StoreSound'
  BY <1>1, <1>2, CardsStay, SaidStays, WorkParts DEF StoreSound
<1>8. PostsSound'
  BY <1>1, <1>2, <1>4, PostsKeep, WorkParts
<1>9. SnapshotsStay => MirrorSound'
  BY <1>1, <1>2, <1>5, MirrorKeeps, WorkParts
<1>10. \A p \in recorded, n \in 1 .. Len(log) : IsResult(n, p) =>
         /\ store'[p] # NoCard => store'[p].seq < n /\ (Subscribing' => Coming(n) \/ Finishing(p)')
         /\ p \in job'.listed /\ Syncs' => worker.seq < n /\ Coming(n)
  <2>1. \A p : ~Finishing(p)
    BY DEF Finishing
  <2>2. Subscribing' => Subscribing
    BY <1>1 DEF Subscribing
  <2> QED
    BY <1>1, <1>2, <1>5, <2>1, <2>2, WorkParts DEF ResultSound
<1> QED
  BY <1>1, <1>2, <1>4, <1>5, <1>6, <1>7, <1>8, <1>9, <1>10, WorkParts, WorkKeeps

LEMMA AcceptedKeeps == BridgeInv /\ (Accepted \/ Rejected) => BridgeInv'
<1>1. BridgeInv /\ Accepted => BridgeInv'
  BY AnsweredKeeps DEF Accepted
<1>2. BridgeInv /\ Rejected => BridgeInv'
  BY AnsweredKeeps DEF Rejected
<1> QED
  BY <1>1, <1>2

\* A click's answer: the first one counts.
LEMMA ReplyKeeps == BridgeInv /\ Reply => BridgeInv'
<1> SUFFICES ASSUME BridgeInv, Reply PROVE BridgeInv'
  OBVIOUS
<1> DEFINE p == job.of
<1>1. /\ job.stage = "reply" /\ prompt[p] = "pending" /\ prompt' = [prompt EXCEPT ![p] = "answered"]
      /\ job' = [job EXCEPT !.stage = "finish"]
      /\ UNCHANGED <<given, board, recorded, log, notices, link, queue, worker, store, cursor, cards, said, message, posted,
                     inputs, faults>>
  BY DEF Reply, given, durable, discord, human
<1>2. job # NoJob
  BY <1>1 DEF NoJob
<1>3. p \in Prompts /\ job.kind = "click"
  BY <1>1, <1>2, WorkParts DEF JobSound
<1> HIDE DEF p
<1>4. /\ prompt' \in [Prompts -> {"unasked", "pending", "answered", "withdrawn", "lost"}]
      /\ \A q \in Prompts : prompt'[q] = prompt[q] \/ (prompt[q] = "pending" /\ prompt'[q] = "answered")
      /\ prompt'[p] = "answered"
  BY <1>1, <1>2, <1>3, WorkParts
<1>5. /\ job' \in JobRecord /\ job'.kind = "click" /\ job'.of = p /\ job'.seq = job.seq /\ job'.stage = "finish"
      /\ job'.listed = job.listed /\ job'.todo = job.todo
  BY <1>1, <1>2, <1>3, WorkParts DEF JobRecord, JobStages, p
<1>6. JobSound' /\ ~Syncs'
  <2>1. \A q \in job.listed : Asked(q)'
    BY <1>2, <1>4, WorkParts DEF JobSound, Asked
  <2>2. Past(job.of)'
    BY <1>4, <1>5 DEF Past
  <2> QED
    BY <1>3, <1>5, <2>1, <2>2 DEF JobSound, Syncs
<1>7. LinkSound'
  BY <1>1, <1>2, <1>5, WorkParts DEF LinkSound
<1>8. CardsMove /\ SaidMove /\ StoreSound' /\ MessagesMove /\ PostsSound'
  BY <1>1, <1>2, CardsStay, SaidStays, MessagesStay, WorkParts DEF StoreSound, PostsSound
<1>9. SnapshotsStay => MirrorSound'
  BY <1>1, <1>2, <1>5, MirrorKeeps, WorkParts
<1>10. \A q \in recorded, n \in 1 .. Len(log) : IsResult(n, q) =>
         /\ store'[q] # NoCard => store'[q].seq < n /\ (Subscribing' => Coming(n) \/ Finishing(q)')
         /\ q \in job'.listed /\ Syncs' => worker.seq < n /\ Coming(n)
  <2>1. \A q : ~Finishing(q)
    BY <1>1 DEF Finishing
  <2>2. Subscribing' => Subscribing
    BY <1>1 DEF Subscribing
  <2> QED
    BY <1>1, <1>2, <1>6, <2>1, <2>2, WorkParts DEF ResultSound
<1> QED
  BY <1>1, <1>2, <1>4, <1>5, <1>6, <1>7, <1>8, <1>9, <1>10, WorkParts, WorkKeeps

LEMMA ReplyRefusedKeeps == BridgeInv /\ ReplyRefused => BridgeInv'
<1> SUFFICES ASSUME BridgeInv, ReplyRefused PROVE BridgeInv'
  OBVIOUS
<1> DEFINE p == job.of
<1>1. /\ job.stage = "reply" /\ job' = NoJob
      /\ cards' = cards \/ cards' = Card(store[p].card, "live")
      /\ store' = store \/ store' = [store EXCEPT ![p] = NoCard]
      /\ worker' = worker \/ worker' = [worker EXCEPT !.shown[p] = "nothing"]
      /\ UNCHANGED <<given, board, recorded, log, prompt, notices, link, queue, cursor, said, message, posted, inputs, faults>>
  BY DEF ReplyRefused, Forget, Quiet, given, daemon, human
<1>2. job # NoJob
  BY <1>1 DEF NoJob
<1>3. p \in Prompts /\ job.kind = "click"
  BY <1>1, <1>2, WorkParts DEF JobSound
<1>4. \A q : ~Finishing(q)
  BY <1>1 DEF Finishing
<1> HIDE DEF p
<1>5. /\ worker' \in [live : BOOLEAN, seq : Nat, shown : [Prompts -> Shown], seen : SUBSET Messages]
      /\ worker'.live = worker.live /\ worker'.seq = worker.seq /\ worker'.seen = worker.seen
  <2>1. [worker.shown EXCEPT ![p] = "nothing"] \in [Prompts -> Shown]
    BY <1>2, WorkParts DEF Shown
  <2>2. worker' = worker \/ worker' = [worker EXCEPT !.shown = [worker.shown EXCEPT ![p] = "nothing"]]
    BY <1>1
  <2> QED
    BY <1>2, <2>1, <2>2, WorkParts
<1>6. CardsMove
  <2>1. store[p].card \in Nat /\ "live" \in Texts /\ "live" # "final"
    BY <1>2, <1>3, WorkParts DEF Texts
  <2> QED
    BY <1>1, <1>2, <2>1, CardEdited, CardsStay, WorkParts
<1>7. /\ store' \in [Prompts -> [card : Nat, seq : Nat]]
      /\ \A q \in Prompts : store'[q] = store[q] \/ store'[q] = NoCard
  <2>1. CASE store' = store
    BY <1>2, <2>1, WorkParts
  <2>2. CASE store' = [store EXCEPT ![p] = NoCard]
    BY <1>2, <1>3, <2>2, WorkParts DEF NoCard
  <2> QED
    BY <1>1, <2>1, <2>2
<1>8. StoreSound'
  BY <1>1, <1>2, <1>6, <1>7, StoreKeeps, WorkParts
<1>9. JobSound' /\ job' \in JobRecord /\ ~Syncs' /\ job'.kind # "snapshot" /\ job'.stage # "say"
  BY <1>1, NoJobSound
<1>10. LinkSound'
  BY <1>1, <1>2, <1>3, <1>5, <1>9, WorkParts DEF LinkSound
<1>11. MessagesMove /\ PostsSound' /\ SaidMove
  BY <1>1, <1>2, <1>5, MessagesStay, SaidStays, PostsKeep, WorkParts
<1>12. SnapshotsStay => MirrorSound'
  BY <1>1, <1>2, <1>5, <1>9, MirrorKeeps, WorkParts
<1>13. \A q \in recorded, n \in 1 .. Len(log) : IsResult(n, q) =>
         /\ store'[q] # NoCard => store'[q].seq < n /\ (Subscribing' => Coming(n) \/ Finishing(q)')
         /\ q \in job'.listed /\ Syncs' => worker.seq < n /\ Coming(n)
  <2> SUFFICES ASSUME NEW q \in recorded, NEW n \in 1 .. Len(log), IsResult(n, q), store'[q] # NoCard
               PROVE  store'[q].seq < n /\ (Subscribing' => Coming(n))
    BY <1>9
  <2>1. q \in Prompts /\ store'[q] = store[q] /\ ~Finishing(q) /\ (Subscribing' => Subscribing)
    BY <1>1, <1>2, <1>4, <1>7, WorkParts DEF Subscribing
  <2> QED
    BY <1>2, <2>1, WorkParts DEF ResultSound
<1> QED
  BY <1>1, <1>2, <1>5, <1>6, <1>7, <1>8, <1>9, <1>10, <1>11, <1>12, <1>13, WorkParts, WorkKeeps
\* After one call of sync_prompts the worker goes on to the next.
LEMMA ProceedSound ==
  ASSUME NEW j \in JobRecord, NEW shown, j.stage \in {"settle", "show"}, NEW k, k = Proceed(j, shown),
         j.kind \in {"snapshot", "notice", "click", "tick"}
  PROVE  /\ k = NoJob \/ (/\ k \in JobRecord /\ k.kind = j.kind /\ k.of = j.of /\ k.seq = j.seq /\ k.listed = j.listed
                          /\ k.stage \in {"settle", "show", "reply"}
                          /\ k.stage = "settle" => j.stage = "settle" /\ k.todo = j.todo
                          /\ k.stage = "show" => (j.stage = "show" /\ k.todo = j.todo) \/ k.todo \subseteq j.listed
                          /\ k.stage = "reply" => j.kind = "click" /\ j.of \in j.listed)
<1> DEFINE unshown == {p \in j.listed : shown[p] # "live"}
<1>1. unshown \subseteq Prompts /\ unshown \subseteq j.listed /\ j.listed \subseteq Prompts
  BY DEF JobRecord
<1>2. /\ [j EXCEPT !.stage = "show", !.todo = unshown] \in JobRecord
      /\ [j EXCEPT !.stage = "reply"] \in JobRecord
  BY <1>1 DEF JobRecord, JobStages
<1>3. CASE j.todo # {}
  <2>1. k = j
    BY <1>3 DEF Proceed
  <2> QED
    BY <2>1
<1>4. CASE j.todo = {} /\ j.stage = "settle" /\ unshown # {}
  <2>1. k = [j EXCEPT !.stage = "show", !.todo = unshown]
    BY <1>4 DEF Proceed
  <2> QED
    BY <1>1, <1>2, <2>1 DEF JobRecord
<1>5. CASE j.todo = {} /\ ~(j.stage = "settle" /\ unshown # {})
  <2>1. k = IF j.kind = "click" /\ j.of \in j.listed THEN [j EXCEPT !.stage = "reply"] ELSE NoJob
    BY <1>5 DEF Proceed
  <2> QED
    BY <1>2, <2>1 DEF JobRecord
<1> QED
  BY <1>3, <1>4, <1>5

LEMMA ContinueKeeps ==
  ASSUME BridgeInv, job.stage \in {"list", "settle", "show"}, NEW j \in JobRecord, j.kind = job.kind, j.of = job.of,
         j.seq = job.seq, j.stage \in {"settle", "show"}, \A p \in j.listed : Asked(p),
         NEW shown \in [Prompts -> Shown], Continue(j, shown),
         CardsMove, StoreSound', store' \in [Prompts -> [card : Nat, seq : Nat]],
         j.stage = "settle" => \A p \in j.todo : store'[p] # NoCard /\ Past(p),
         j.stage = "show" => j.todo \subseteq j.listed,
         \A p \in recorded, n \in 1 .. Len(log) : IsResult(n, p) =>
            /\ store'[p] # NoCard => store'[p].seq < n /\ (Subscribing => Coming(n))
            /\ p \in j.listed => worker.seq < n /\ Coming(n)
  PROVE  BridgeInv'
<1>1. /\ job' = Proceed(j, shown) /\ worker' = [worker EXCEPT !.shown = shown]
      /\ link' = IF job.kind = "snapshot" /\ Proceed(j, shown) = NoJob THEN [link EXCEPT !.phase = "bound"] ELSE link
      /\ UNCHANGED <<given, board, recorded, log, prompt, notices, queue, faults, cursor, said, message, posted, inputs>>
  BY DEF Continue, given, daemon, human
<1>2. job # NoJob
  BY DEF NoJob
<1>3. job.kind \in {"snapshot", "notice", "click", "tick"} /\ (job.kind \in {"notice", "click"} => job.of \in Prompts)
  BY <1>2, WorkParts DEF JobSound
<1>4. \/ job' = NoJob
      \/ /\ job' \in JobRecord /\ job'.kind = j.kind /\ job'.of = j.of /\ job'.seq = j.seq /\ job'.listed = j.listed
         /\ job'.stage \in {"settle", "show", "reply"}
         /\ job'.stage = "settle" => j.stage = "settle" /\ job'.todo = j.todo
         /\ job'.stage = "show" => (j.stage = "show" /\ job'.todo = j.todo) \/ job'.todo \subseteq j.listed
         /\ job'.stage = "reply" => j.kind = "click" /\ j.of \in j.listed
  BY <1>1, <1>3, ProceedSound
<1>5. /\ worker' \in [live : BOOLEAN, seq : Nat, shown : [Prompts -> Shown], seen : SUBSET Messages]
      /\ worker'.live = worker.live /\ worker'.seq = worker.seq /\ worker'.seen = worker.seen
  BY <1>1, <1>2, WorkParts
<1>6. job'.stage # "say" /\ job' \in JobRecord /\ (job' = NoJob => job'.kind = "none" /\ job'.listed = {})
  <2>1. NoJob.stage = "none" /\ NoJob.kind = "none" /\ NoJob.listed = {} /\ NoJob \in JobRecord
    BY NoJobTyped DEF NoJob
  <2>2. job'.stage \in {"settle", "show", "reply"} => job'.stage # "say"
    OBVIOUS
  <2> QED
    BY <1>4, <2>1, <2>2
<1>7. JobSound'
  <2>1. CASE job' = NoJob
    BY <2>1, NoJobSound
  <2>2. CASE job' # NoJob
    <3>1. \A p \in j.listed : Asked(p)' /\ p \in Prompts
      BY <1>1 DEF Asked, JobRecord
    <3>2. job'.stage = "settle" => \A p \in job'.todo : store'[p] # NoCard /\ Past(p)'
      BY <1>1, <1>4, <2>2 DEF Past
    <3>3. job'.stage = "show" => job'.todo \subseteq job'.listed
      BY <1>4, <2>2
    <3>4. job'.stage = "reply" => job'.of \in Prompts /\ Asked(job.of)' /\ job'.kind = "click"
      <4>1. ASSUME NEW p, p = j.of, job'.stage = "reply" PROVE Asked(p)'
        BY <1>4, <2>2, <3>1, <4>1
      <4> QED
        BY <1>4, <2>2, <3>1, <4>1 DEF Asked
    <3> QED
      BY <1>3, <1>4, <2>2, <3>1, <3>2, <3>3, <3>4 DEF JobSound
  <2> QED
    BY <2>1, <2>2
<1>8. /\ link' \in [phase : Phases, next : Nat] /\ link'.next = link.next
      /\ IF job.kind = "snapshot" /\ job' = NoJob
         THEN link.phase = "binding" /\ link'.phase = "bound" ELSE link'.phase = link.phase
  BY <1>1, <1>2, WorkParts DEF LinkSound, Phases
<1>9. LinkSound'
  <2>1. job' # NoJob => job'.kind = job.kind
    BY <1>4
  <2> QED
    BY <1>2, <1>5, <1>6, <1>8, <2>1, WorkParts DEF LinkSound
<1>10. MessagesMove /\ PostsSound' /\ SaidMove
  BY <1>1, <1>2, <1>5, MessagesStay, SaidStays, PostsKeep, WorkParts
<1>11. SnapshotsStay => MirrorSound'
  BY <1>1, <1>2, <1>5, <1>6, MirrorKeeps, WorkParts
<1>12. \A p \in recorded, n \in 1 .. Len(log) : IsResult(n, p) =>
         /\ store'[p] # NoCard => store'[p].seq < n /\ (Subscribing' => Coming(n) \/ Finishing(p)')
         /\ p \in job'.listed /\ Syncs' => worker.seq < n /\ Coming(n)
  <2>1. Subscribing' => Subscribing
    BY <1>8 DEF Subscribing
  <2>2. job'.listed \subseteq j.listed
    BY <1>4, <1>6
  <2> QED
    BY <2>1, <2>2
<1>13. UNCHANGED <<inputs, notices>> /\ cursor' \in Nat /\ cursor' <= Len(log) /\ posted' \in [Messages -> Nat]
       /\ prompt' \in [Prompts -> {"unasked", "pending", "answered", "withdrawn", "lost"}] /\ prompt' = prompt
       /\ message' \in [Messages -> {"unsent", "queued", "delivered", "told", "dropped", "past"}]
  BY <1>1, <1>2, WorkParts
<1>14. link'.phase = link.phase \/ (link.phase = "binding" /\ worker.live /\ link'.phase = "bound")
  BY <1>2, <1>8, WorkParts
<1> QED
  BY <1>1, <1>5, <1>6, <1>7, <1>8, <1>9, <1>10, <1>11, <1>12, <1>13, <1>14, WorkKeeps
\* What is stored was asked.
LEMMA StoredAsked ==
  ASSUME BridgeInv, job # NoJob, NEW p \in Prompts, store[p] # NoCard
  PROVE  Asked(p) /\ store[p].card \in 1 .. Len(cards) /\ store[p].card \in Nat /\ cards[store[p].card].of = p
<1>1. store[p].card \in 1 .. Len(cards) /\ cards[store[p].card].of = p /\ store[p].card \in Nat
  BY WorkParts DEF StoreSound
<1>2. Asked(cards[store[p].card].of)
  BY <1>1, WorkParts DEF CardSound
<1> QED
  BY <1>1, <1>2

LEMMA ListKeeps == BridgeInv /\ List => BridgeInv'
<1> SUFFICES ASSUME BridgeInv, List PROVE BridgeInv'
  OBVIOUS
<1>1. job.stage = "list" /\ UNCHANGED <<store, cards>>
  BY DEF List
<1> DEFINE missing == {p \in Stored \ Listed : worker.shown[p] # "updating" \/ FinishesNow(p)}
           j == [job EXCEPT !.listed = Listed, !.stage = "settle", !.todo = missing]
           shown == worker.shown
<1>2. Continue(j, shown)
  BY DEF List
<1>3. job # NoJob
  BY <1>1 DEF NoJob
<1>4. shown \in [Prompts -> Shown]
  BY <1>3, WorkParts
<1>5. Listed \subseteq Prompts /\ missing \subseteq Prompts /\ job \in JobRecord
  BY <1>3, WorkParts DEF Listed, Stored
<1>6. \A p \in missing : store[p] # NoCard /\ Past(p)
  <2> SUFFICES ASSUME NEW p \in missing PROVE store[p] # NoCard /\ Past(p)
    OBVIOUS
  <2>1. p \in Prompts /\ store[p] # NoCard /\ prompt[p] # "pending"
    BY DEF Stored, Listed
  <2>2. Asked(p)
    BY <1>3, <2>1, StoredAsked
  <2> QED
    BY <2>1, <2>2 DEF Asked, Past
<1>7. /\ j \in JobRecord /\ j.kind = job.kind /\ j.of = job.of /\ j.seq = job.seq /\ j.stage = "settle"
      /\ j.listed = Listed /\ j.todo = missing
  <2> HIDE DEF missing
  <2>1. "settle" \in JobStages
    BY DEF JobStages
  <2> QED
    BY <1>5, <2>1 DEF JobRecord
<1> HIDE DEF j, missing, shown
<1>8. \A p \in Listed : Asked(p)
  BY DEF Listed, Asked
<1>9. CardsMove /\ StoreSound'
  BY <1>1, <1>3, CardsStay, StoreKeeps, WorkParts, <1>2 DEF Continue, StoreSound, daemon
<1>10. \A p \in recorded, n \in 1 .. Len(log) : IsResult(n, p) =>
         /\ store'[p] # NoCard => store'[p].seq < n /\ (Subscribing => Coming(n))
         /\ p \in j.listed => worker.seq < n /\ Coming(n)
  <2> SUFFICES ASSUME NEW p \in recorded, NEW n \in 1 .. Len(log), IsResult(n, p)
               PROVE  /\ store[p] # NoCard => store[p].seq < n /\ (Subscribing => Coming(n))
                      /\ p \notin Listed
    BY <1>1, <1>7
  <2>1. ~Finishing(p)
    BY <1>1 DEF Finishing
  <2>2. Over(p) /\ p \in Prompts
    BY <1>3, WorkParts DEF BridgeInv, LogSound
  <2> QED
    BY <1>3, <2>1, <2>2, WorkParts DEF ResultSound, Listed, Over
<1>11. store' \in [Prompts -> [card : Nat, seq : Nat]] /\ \A p \in j.todo : store'[p] # NoCard /\ Past(p)
  BY <1>1, <1>3, <1>6, <1>7, WorkParts
<1> QED
  BY <1>1, <1>2, <1>4, <1>7, <1>8, <1>9, <1>10, <1>11, ContinueKeeps

\* A card is edited, and perhaps forgotten; the next one follows.
LEMMA DidKeeps ==
  ASSUME BridgeInv, job.stage \in {"settle", "show"}, NEW p \in job.todo, NEW shown \in [Prompts -> Shown],
         Continue(Did(p), shown), CardsMove, StoreSound', store' \in [Prompts -> [card : Nat, seq : Nat]],
         \A q \in Prompts : \/ store'[q] = store[q] \/ (q = p /\ store'[q] = NoCard)
                            \/ (job.stage = "show" /\ q = p /\ store'[q].seq = worker.seq)
  PROVE  BridgeInv'
<1> DEFINE j == Did(p)
<1>1. job # NoJob
  BY DEF NoJob
<1>2. job.todo \ {p} \subseteq Prompts /\ job \in JobRecord
  BY <1>1, WorkParts
<1>3. /\ j \in JobRecord /\ j.kind = job.kind /\ j.of = job.of /\ j.seq = job.seq /\ j.stage = job.stage
      /\ j.listed = job.listed /\ j.todo = job.todo \ {p}
  <2>1. j = [job EXCEPT !.todo = job.todo \ {p}]
    BY DEF Did
  <2> QED
    BY <1>2, <2>1 DEF JobRecord
<1>4. Continue(j, shown)
  OBVIOUS
<1> HIDE DEF j
<1>5. \A q \in job.listed : Asked(q)
  BY <1>1, WorkParts DEF JobSound
<1>6. j.stage = "settle" => \A q \in j.todo : store'[q] # NoCard /\ Past(q)
  <2> SUFFICES ASSUME j.stage = "settle", NEW q \in j.todo PROVE store'[q] # NoCard /\ Past(q)
    OBVIOUS
  <2>1. q \in job.todo /\ q # p /\ q \in Prompts /\ job.stage = "settle"
    BY <1>1, <1>3, WorkParts
  <2>2. store[q] # NoCard /\ Past(q)
    BY <1>1, <2>1, WorkParts DEF JobSound
  <2> QED
    BY <2>1, <2>2
<1>7. j.stage = "show" => j.todo \subseteq j.listed
  BY <1>1, <1>3, WorkParts DEF JobSound
<1>8. \A q \in recorded, n \in 1 .. Len(log) : IsResult(n, q) =>
        /\ store'[q] # NoCard => store'[q].seq < n /\ (Subscribing => Coming(n))
        /\ q \in j.listed => worker.seq < n /\ Coming(n)
  <2> SUFFICES ASSUME NEW q \in recorded, NEW n \in 1 .. Len(log), IsResult(n, q)
               PROVE  /\ store'[q] # NoCard => store'[q].seq < n /\ (Subscribing => Coming(n))
                      /\ q \in job.listed => worker.seq < n /\ Coming(n)
    BY <1>3
  <2>1. q \in job.listed => worker.seq < n /\ Coming(n)
    BY <1>1, WorkParts DEF ResultSound, Syncs
  <2>2. store[q] # NoCard => store[q].seq < n /\ (Subscribing => Coming(n))
    <3>1. ~Finishing(q)
      BY DEF Finishing
    <3> QED
      BY <1>1, <3>1, WorkParts DEF ResultSound
  <2>3. job.stage = "show" => p \in job.listed
    BY <1>1, WorkParts DEF JobSound
  <2>4. q \in Prompts
    BY <1>1, WorkParts
  <2> QED
    BY <2>1, <2>2, <2>3, <2>4
<1> QED
  BY <1>3, <1>4, <1>5, <1>6, <1>7, <1>8, ContinueKeeps

LEMMA SettleKeeps == BridgeInv => \A p \in Prompts : SettleOne(p) \/ ShowStored(p) => BridgeInv'
<1> SUFFICES ASSUME BridgeInv, NEW p \in Prompts, SettleOne(p) \/ ShowStored(p) PROVE BridgeInv'
  OBVIOUS
<1>1. job.stage \in {"settle", "show"} /\ p \in job.todo
  BY DEF SettleOne, ShowStored
<1>2. job # NoJob
  BY <1>1 DEF NoJob
<1>3. /\ store[p] # NoCard
      /\ \E text \in Texts : cards' = Card(store[p].card, text) /\ (text = "final" => Past(p))
      /\ store' = store \/ store' = [store EXCEPT ![p] = NoCard]
      /\ \E s \in Shown : Continue(Did(p), [worker.shown EXCEPT ![p] = s])
  <2>1. CASE SettleOne(p)
    <3>1. job.stage = "settle" /\ cards' = Card(store[p].card, Settling(p))
      BY <2>1 DEF SettleOne
    <3>2. store[p] # NoCard /\ Past(p)
      BY <1>1, <1>2, <3>1, WorkParts DEF JobSound
    <3>3. Settling(p) \in Texts
      BY DEF Settling, Texts
    <3>4. store' = store \/ store' = [store EXCEPT ![p] = NoCard]
      BY <2>1 DEF SettleOne, Forget
    <3>5. \E s \in Shown : Continue(Did(p), [worker.shown EXCEPT ![p] = s])
      <4> DEFINE s == IF FinishesNow(p) \/ Gone(p) THEN "nothing" ELSE "updating"
      <4>1. s \in Shown /\ Continue(Did(p), [worker.shown EXCEPT ![p] = s])
        BY <2>1 DEF SettleOne, Shown
      <4> QED
        BY <4>1
    <3> QED
      BY <3>1, <3>2, <3>3, <3>4, <3>5
  <2>2. CASE ShowStored(p)
    <3>1. store[p] # NoCard /\ cards' = Card(store[p].card, "live") /\ "live" \in Texts /\ "live" # "final"
      BY <2>2 DEF ShowStored, Texts
    <3>2. store' = store \/ store' = [store EXCEPT ![p] = NoCard]
      BY <2>2 DEF ShowStored, Forget
    <3>3. \E s \in Shown : Continue(Did(p), [worker.shown EXCEPT ![p] = s])
      <4> DEFINE s == IF Gone(p) THEN "nothing" ELSE "live"
      <4>1. s \in Shown /\ Continue(Did(p), [worker.shown EXCEPT ![p] = s])
        BY <2>2 DEF ShowStored, Shown
      <4> QED
        BY <4>1
    <3> QED
      BY <3>1, <3>2, <3>3
  <2> QED
    BY <2>1, <2>2
<1>4. PICK text \in Texts : cards' = Card(store[p].card, text) /\ (text = "final" => Past(p))
  BY <1>3
<1>5. PICK s \in Shown : Continue(Did(p), [worker.shown EXCEPT ![p] = s])
  BY <1>3
<1>6. CardsMove
  BY <1>2, <1>3, <1>4, CardEdited, StoredAsked, WorkParts
<1>7. store' \in [Prompts -> [card : Nat, seq : Nat]]
      /\ \A q \in Prompts : store'[q] = store[q] \/ (q = p /\ store'[q] = NoCard)
  <2>1. CASE store' = store
    BY <1>2, <2>1, WorkParts
  <2>2. CASE store' = [store EXCEPT ![p] = NoCard]
    BY <1>2, <2>2, WorkParts DEF NoCard
  <2> QED
    BY <1>3, <2>1, <2>2
<1>8. StoreSound'
  BY <1>2, <1>5, <1>6, <1>7, StoreKeeps, WorkParts DEF Continue, daemon
<1>9. [worker.shown EXCEPT ![p] = s] \in [Prompts -> Shown]
  BY <1>2, WorkParts
<1> QED
  BY <1>1, <1>5, <1>6, <1>7, <1>8, <1>9, DidKeeps

\* A new card is stored with what the worker has seen: its result comes later.
LEMMA ShowNewKeeps == BridgeInv => \A p \in Prompts : ShowNew(p) => BridgeInv'
<1> SUFFICES ASSUME BridgeInv, NEW p \in Prompts, ShowNew(p) PROVE BridgeInv'
  OBVIOUS
<1>1. /\ job.stage = "show" /\ p \in job.todo /\ store[p] = NoCard
      /\ cards' = Append(cards, [of |-> p, text |-> "live"])
      /\ store' = [store EXCEPT ![p] = [card |-> Len(cards) + 1, seq |-> worker.seq]]
      /\ Continue(Did(p), [worker.shown EXCEPT ![p] = "live"])
  BY DEF ShowNew
<1>2. job # NoJob
  BY <1>1 DEF NoJob
<1>3. Asked(p)
  BY <1>1, <1>2, WorkParts DEF JobSound
<1>4. CardsMove /\ Len(cards') = Len(cards) + 1 /\ cards'[Len(cards) + 1].of = p
  BY <1>1, <1>2, <1>3, CardAdded, WorkParts
<1>5. Len(cards) \in Nat /\ worker.seq \in Nat /\ worker.seq <= Len(log) /\ log' = log
  BY <1>1, <1>2, WorkParts DEF Continue, daemon
<1>6. /\ store' \in [Prompts -> [card : Nat, seq : Nat]]
      /\ \A q \in Prompts : store'[q] = store[q]
                            \/ (q = p /\ store'[q].seq = worker.seq /\ store'[q].card = Len(cards) + 1)
  BY <1>1, <1>2, <1>5, WorkParts
<1>7. StoreSound'
  <2> SUFFICES ASSUME NEW q \in Prompts, store'[q] # NoCard
               PROVE  /\ store'[q].card \in 1 .. Len(cards') /\ cards'[store'[q].card].of = q
                      /\ store'[q].seq <= Len(log')
    BY DEF StoreSound
  <2>1. CASE store'[q] = store[q]
    <3>1. store[q].card \in 1 .. Len(cards) /\ cards[store[q].card].of = q /\ store[q].seq <= Len(log)
      BY <1>2, <2>1, WorkParts DEF StoreSound
    <3> QED
      BY <2>1, <3>1, <1>4, <1>5 DEF CardsMove
  <2>2. CASE q = p /\ store'[q].seq = worker.seq /\ store'[q].card = Len(cards) + 1
    BY <2>2, <1>4, <1>5
  <2> QED
    BY <1>6, <2>1, <2>2
<1>8. [worker.shown EXCEPT ![p] = "live"] \in [Prompts -> Shown]
  BY <1>2, WorkParts DEF Shown
<1> QED
  BY <1>1, <1>4, <1>6, <1>7, <1>8, DidKeeps
-----------------------------------------------------------------------------
(* The daemon                                                              *)

LEMMA PromptKeeps ==
  ASSUME BridgeInv, UNCHANGED <<given, log, link, queue, worker, job, durable, discord, human, faults>>,
         prompt' \in [Prompts -> {"unasked", "pending", "answered", "withdrawn", "lost"}], notices' \subseteq Prompts,
         PromptsMove, \A p \in Prompts : (Over(p) => Over(p)') /\ (OverOrAsked(p) => OverOrAsked(p)')
  PROVE  BridgeInv'
<1>1. BridgeTyped /\ LogSound /\ LinkSound /\ QueueSound /\ InLine /\ JobSound /\ StoreSound /\ CardSound /\ ResultSound
        /\ MirrorSound /\ PostsSound
  BY DEF BridgeInv
<1>2. UNCHANGED <<board, recorded, store, cursor, cards, said, message, posted, inputs>>
  BY DEF given, durable, discord, human
<1>3. MessagesMove /\ LogGoesOn /\ CardsMove
  BY <1>1, <1>2, MessagesStay, LogStays, CardsStay, BridgeParts
<1>4. QueueSound' /\ InLine' /\ SnapshotsStay /\ \A n \in Nat : Coming(n) <=> Coming(n)'
  BY <1>1, <1>3, QueueStays
<1>5. BridgeTyped'
  <2>1. Bounded'
    BY <1>1, <1>2 DEF Bounded, BridgeTyped
  <2> QED
    BY <1>1, <1>2, <1>3, <2>1, TypedKeeps, SaidTyped, BridgeParts DEF BridgeTyped, BridgeTypeOK
<1>6. LogSound' /\ LinkSound'
  BY <1>1, <1>2, LogSoundStays DEF LinkSound
<1>7. JobSound'
  BY <1>1, <1>2, <1>3, JobKeeps, BridgeParts
<1>8. StoreSound' /\ CardSound'
  BY <1>1, <1>2, <1>3, StoreKeeps, CardsKeep, BridgeParts
<1>9. ResultSound'
  <2>1. \A n \in 1 .. Len(log) : Coming(n) => Coming(n)'
    BY <1>4
  <2> QED
    BY <1>1, <1>2, <2>1, ResultKeeps, BridgeParts DEF Subscribing, Finishing, Syncs
<1>10. MirrorSound'
  BY <1>1, <1>2, <1>4, MirrorKeeps
<1>11. PostsSound'
  BY <1>1, <1>2, <1>3, PostsKeep, BridgeParts
<1> QED
  BY <1>4, <1>5, <1>6, <1>7, <1>8, <1>9, <1>10, <1>11 DEF BridgeInv

LEMMA AskKeeps == BridgeInv => \A p \in Prompts : Ask(p) \/ AnswerElsewhere(p) \/ Withdraw(p) => BridgeInv'
<1> SUFFICES ASSUME BridgeInv, NEW p \in Prompts, Ask(p) \/ AnswerElsewhere(p) \/ Withdraw(p) PROVE BridgeInv'
  OBVIOUS
<1>1. /\ prompt \in [Prompts -> {"unasked", "pending", "answered", "withdrawn", "lost"}] /\ notices \subseteq Prompts
  BY BridgeParts DEF BridgeInv
<1>2. /\ UNCHANGED <<given, log, link, queue, worker, job, durable, discord, human, faults>>
      /\ notices' \subseteq Prompts
      /\ \/ prompt[p] = "unasked" /\ prompt' = [prompt EXCEPT ![p] = "pending"]
         \/ prompt[p] = "pending" /\ prompt' = [prompt EXCEPT ![p] = "answered"]
         \/ prompt[p] = "pending" /\ prompt' = [prompt EXCEPT ![p] = "withdrawn"]
  BY <1>1 DEF Ask, AnswerElsewhere, Withdraw, Elsewhere
<1>3. prompt' \in [Prompts -> {"unasked", "pending", "answered", "withdrawn", "lost"}]
  BY <1>1, <1>2
<1>4. PromptsMove /\ \A q \in Prompts : (Over(q) => Over(q)') /\ (OverOrAsked(q) => OverOrAsked(q)')
  BY <1>1, <1>2 DEF PromptsMove, Asked, Past, Over, OverOrAsked
<1> QED
  BY <1>2, <1>3, <1>4, PromptKeeps

\* An event that is appended comes after all that was seen.
LEMMA LogKeeps ==
  ASSUME BridgeInv, NEW e \in EntryRecord, log' = Append(log, e), LogSound',
         UNCHANGED <<given, prompt, notices, link, queue, worker, durable, discord, message, inputs, faults>>,
         job' \in JobRecord, job'.kind = job.kind, job'.of = job.of, job'.seq = job.seq, job'.listed = job.listed,
         job'.todo = job.todo,
         job' = job \/ (job.stage = "post" /\ job'.stage = "accepted"),
         posted' \in [Messages -> Nat], PostsSound', job'.stage = "post" => posted' = posted
  PROVE  BridgeInv'
<1>1. BridgeTyped /\ LogSound /\ LinkSound /\ QueueSound /\ InLine /\ JobSound /\ StoreSound /\ CardSound /\ ResultSound
        /\ MirrorSound /\ PostsSound
  BY DEF BridgeInv
<1>2. UNCHANGED <<board, recorded, store, cursor, cards, said>>
  BY DEF given, durable, discord
<1>3. /\ log' \in Seq(EntryRecord) /\ Len(log') = Len(log) + 1 /\ Len(log) \in Nat
      /\ \A n \in 1 .. Len(log) : log'[n] = log[n]
  BY <1>1, BridgeParts
<1>4. LogGoesOn
  BY <1>3 DEF LogGoesOn
<1>5. CardsMove /\ PromptsMove
  BY <1>1, <1>2, CardsStay, PromptsStay, BridgeParts
<1>6. QueueSound' /\ InLine' /\ \A n \in Nat : Coming(n) <=> Coming(n)'
  BY <1>1, <1>4, QueueGrows
<1>7. /\ cursor \in Nat /\ worker.seq \in Nat /\ cursor <= Len(log) /\ worker.seq <= Len(log) /\ link.next <= Len(log) + 1
      /\ link.next \in Nat /\ \A p \in Prompts : store[p].seq \in Nat
  BY <1>1, BridgeParts DEF BridgeTyped, Bounded
<1>8. BridgeTyped'
  <2>1. Bounded'
    BY <1>2, <1>3, <1>7 DEF Bounded
  <2> QED
    BY <1>1, <1>2, <1>4, <2>1, TypedKeeps, SaidTyped, BridgeParts DEF BridgeTyped, BridgeTypeOK
<1>9. LinkSound'
  <2>1. job' # NoJob => job # NoJob
    BY DEF NoJob
  <2> QED
    BY <1>1, <2>1 DEF LinkSound
<1>10. JobSound'
  <2>1. IsChat(job.seq) => IsChat(job.seq)'
    <3>1. ASSUME NEW n, n = job.seq, IsChat(n) PROVE IsChat(n)'
      <4>1. DOMAIN log = 1 .. Len(log) /\ DOMAIN log' = 1 .. Len(log')
        BY <1>1, <1>3, BridgeParts
      <4> QED
        BY <1>3, <3>1, <4>1 DEF IsChat
    <3> QED
      BY <3>1 DEF IsChat
  <2>2. (Past(job.of)' <=> Past(job.of)) /\ (Asked(job.of)' <=> Asked(job.of))
    BY DEF Past, Asked
  <2>3. job' = NoJob <=> job = NoJob
    BY DEF NoJob
  <2>4. /\ \A p \in job.listed : Asked(p)'
        /\ job.stage = "settle" => \A p \in job.todo : store[p] # NoCard /\ Past(p)'
    BY <1>1 DEF JobSound, Asked, Past
  <2>5. job'.stage = "post" => posted'[job'.of] = 0
    <3>1. job'.stage = "post" => job.stage = "post" /\ posted' = posted
      OBVIOUS
    <3>2. job.stage = "post" => posted[job.of] = 0
      BY <1>1 DEF JobSound
    <3> QED
      BY <3>1, <3>2
  <2> QED
    BY <1>1, <1>2, <2>1, <2>2, <2>3, <2>4, <2>5 DEF JobSound
<1>11. StoreSound'
  BY <1>1, <1>2, <1>3, <1>7 DEF StoreSound
<1>12. CardSound'
  BY <1>1, <1>5, CardsKeep, BridgeParts
<1>13. ResultSound'
  <2> SUFFICES ASSUME NEW p \in recorded, NEW n \in 1 .. Len(log'), IsResult(n, p)'
               PROVE  /\ store[p] # NoCard => store[p].seq < n /\ (Subscribing' => Coming(n)' \/ Finishing(p)')
                      /\ p \in job'.listed /\ Syncs' => worker.seq < n /\ Coming(n)'
    BY <1>2 DEF ResultSound
  <2>1. p \in Prompts
    BY <1>1, BridgeParts
  <2>2. CASE n \in 1 .. Len(log)
    <3>1. IsResult(n, p)
      BY <1>3, <2>2 DEF IsResult
    <3>2. /\ store[p] # NoCard => store[p].seq < n /\ (Subscribing => Coming(n) \/ Finishing(p))
          /\ p \in job.listed /\ Syncs => worker.seq < n /\ Coming(n)
      BY <1>1, <2>2, <3>1 DEF ResultSound
    <3>3. (Subscribing' <=> Subscribing) /\ (Finishing(p) => Finishing(p)') /\ (Syncs' => Syncs)
      BY DEF Subscribing, Finishing, Syncs
    <3> QED
      BY <1>6, <2>2, <3>2, <3>3
  <2>3. CASE n = Len(log) + 1
    <3>1. link'.next <= n /\ worker.seq < n
      BY <1>3, <1>7, <2>3
    <3>2. store[p] # NoCard => store[p].seq < n
      BY <1>1, <1>3, <1>7, <2>1, <2>3 DEF StoreSound
    <3> QED
      BY <3>1, <3>2 DEF Coming
  <2> QED
    BY <1>3, <2>2, <2>3
<1>14. MirrorSound'
  BY <1>1, <1>2, <1>4, MirrorGrows
<1> QED
  BY <1>6, <1>8, <1>9, <1>10, <1>11, <1>12, <1>13, <1>14 DEF BridgeInv
LEMMA LogSoundGrows ==
  ASSUME BridgeInv, NEW e \in EntryRecord, log' = Append(log, e), UNCHANGED <<prompt, recorded>>,
         e.kind \in {"requested", "resolved"} => e.of \in recorded,
         e.kind = "requested" => OverOrAsked(e.of) /\ ~Logged("requested", e.of),
         e.kind = "resolved" => Over(e.of) /\ Logged("requested", e.of)
  PROVE  LogSound'
<1>1. BridgeTyped /\ LogSound /\ recorded \subseteq Prompts
  BY BridgeParts DEF BridgeInv
<1>2. /\ log' \in Seq(EntryRecord) /\ Len(log') = Len(log) + 1 /\ Len(log) \in Nat /\ DOMAIN log = 1 .. Len(log)
      /\ \A n \in 1 .. Len(log) : log'[n] = log[n]
      /\ log'[Len(log) + 1] = e
  BY <1>1, BridgeParts
<1>3. \A n \in 1 .. Len(log') : n \in 1 .. Len(log) \/ n = Len(log) + 1
  BY <1>2
<1>4. \A p \in Prompts : Logged("requested", p) <=> \E n \in 1 .. Len(log) : IsRequest(n, p)
  BY <1>2 DEF Logged, IsRequest
<1>5. \A p \in Prompts, n \in 1 .. Len(log') :
        /\ IsRequest(n, p)' <=> IF n \in 1 .. Len(log) THEN IsRequest(n, p) ELSE e = [kind |-> "requested", of |-> p]
        /\ IsResult(n, p)' <=> IF n \in 1 .. Len(log) THEN IsResult(n, p) ELSE e = [kind |-> "resolved", of |-> p]
  BY <1>2, <1>3 DEF IsRequest, IsResult
<1>6. \A n \in 1 .. Len(log') : log'[n].kind \in {"requested", "resolved"} => log'[n].of \in recorded
  BY <1>1, <1>2, <1>3 DEF LogSound
<1>7. \A p \in Prompts, n \in 1 .. Len(log') : IsRequest(n, p)' => OverOrAsked(p)
  <2> SUFFICES ASSUME NEW p \in Prompts, NEW n \in 1 .. Len(log'), IsRequest(n, p)' PROVE OverOrAsked(p)
    OBVIOUS
  <2>1. CASE n \in 1 .. Len(log)
    BY <1>1, <1>5, <2>1 DEF LogSound
  <2>2. CASE n \notin 1 .. Len(log)
    <3>1. e = [kind |-> "requested", of |-> p]
      BY <1>5, <2>2
    <3>2. e.kind = "requested" /\ e.of = p
      BY <3>1
    <3> QED
      BY <3>2
  <2> QED
    BY <2>1, <2>2
<1>8. ASSUME NEW p \in Prompts, NEW n \in 1 .. Len(log'), IsResult(n, p)'
      PROVE  Over(p) /\ \E k \in 1 .. n : IsRequest(k, p)'
  <2>1. CASE n \in 1 .. Len(log)
    <3>1. Over(p) /\ \E k \in 1 .. n : IsRequest(k, p)
      BY <1>1, <1>5, <1>8, <2>1 DEF LogSound
    <3>2. \A k \in 1 .. n : k \in 1 .. Len(log) /\ k \in 1 .. Len(log')
      BY <1>2, <2>1
    <3> QED
      BY <1>5, <3>1, <3>2
  <2>2. CASE n \notin 1 .. Len(log)
    <3>1. e = [kind |-> "resolved", of |-> p]
      BY <1>5, <1>8, <2>2
    <3>2. e.kind = "resolved" /\ e.of = p
      BY <3>1
    <3>3. Over(p) /\ Logged("requested", p)
      BY <3>2
    <3>4. PICK k \in 1 .. Len(log) : IsRequest(k, p)
      BY <1>4, <3>3
    <3>5. k \in 1 .. n /\ k \in 1 .. Len(log')
      BY <1>2, <1>3, <2>2, <3>4
    <3> QED
      BY <1>5, <3>3, <3>4, <3>5
  <2> QED
    BY <2>1, <2>2
<1>9. ASSUME NEW p \in Prompts, NEW n \in 1 .. Len(log'), NEW k \in 1 .. Len(log'), IsRequest(n, p)', IsRequest(k, p)'
      PROVE  n = k
  <2>1. \A i \in 1 .. Len(log') : i \notin 1 .. Len(log) /\ IsRequest(i, p)' => ~Logged("requested", p)
    <3> SUFFICES ASSUME NEW i \in 1 .. Len(log'), i \notin 1 .. Len(log), IsRequest(i, p)' PROVE ~Logged("requested", p)
      OBVIOUS
    <3>1. e = [kind |-> "requested", of |-> p]
      BY <1>5
    <3>2. e.kind = "requested" /\ e.of = p
      BY <3>1
    <3> QED
      BY <3>2
  <2>2. CASE n \in 1 .. Len(log) /\ k \in 1 .. Len(log)
    BY <1>1, <1>5, <1>9, <2>2 DEF LogSound
  <2>3. CASE n \notin 1 .. Len(log) /\ k \notin 1 .. Len(log)
    BY <1>3, <2>3
  <2>4. n \in 1 .. Len(log) => Logged("requested", p)
    BY <1>4, <1>5, <1>9
  <2>5. k \in 1 .. Len(log) => Logged("requested", p)
    BY <1>4, <1>5, <1>9
  <2> QED
    BY <1>9, <2>1, <2>2, <2>3, <2>4, <2>5
<1> QED
  BY <1>6, <1>7, <1>8, <1>9 DEF LogSound, Over, OverOrAsked

LEMMA RecordKeeps ==
  ASSUME BridgeInv, NEW e \in EntryRecord, log' = Append(log, e), LogSound', Elsewhere, UNCHANGED <<prompt, notices>>
  PROVE  BridgeInv'
<1>1. UNCHANGED <<given, prompt, notices, link, queue, worker, job, durable, discord, message, posted, inputs, faults>>
  BY DEF Elsewhere, human
<1>2. job \in JobRecord /\ posted \in [Messages -> Nat] /\ PostsSound
  BY BridgeParts DEF BridgeInv
<1>3. PostsSound'
  BY <1>1, <1>2 DEF PostsSound
<1> QED
  BY <1>1, <1>2, <1>3, LogKeeps

LEMMA ChatKeeps == BridgeInv /\ Chat => BridgeInv'
<1> SUFFICES ASSUME BridgeInv, Chat PROVE BridgeInv'
  OBVIOUS
<1> DEFINE e == [kind |-> "chat", of |-> Nobody]
<1>1. e \in EntryRecord /\ e.kind = "chat"
  BY DEF EntryRecord, EventKinds, Subjects
<1>2. log' = Append(log, e) /\ UNCHANGED <<prompt, notices>> /\ Elsewhere /\ UNCHANGED recorded
  BY DEF Chat, Elsewhere, given
<1> HIDE DEF e
<1>3. LogSound'
  BY <1>1, <1>2, LogSoundGrows
<1> QED
  BY <1>1, <1>2, <1>3, RecordKeeps

LEMMA RecordingKeeps == BridgeInv => \A p \in Prompts : RecordRequest(p) \/ RecordResult(p) => BridgeInv'
<1> SUFFICES ASSUME BridgeInv, NEW p \in Prompts, RecordRequest(p) \/ RecordResult(p) PROVE BridgeInv'
  OBVIOUS
<1>1. UNCHANGED <<prompt, notices>> /\ Elsewhere /\ UNCHANGED recorded
  BY DEF RecordRequest, RecordResult, Elsewhere, given
<1>2. BridgeTyped /\ LogSound /\ prompt \in [Prompts -> {"unasked", "pending", "answered", "withdrawn", "lost"}]
      /\ Len(log) \in Nat /\ DOMAIN log = 1 .. Len(log)
  BY BridgeParts DEF BridgeInv
<1>3. CASE RecordRequest(p)
  <2> DEFINE e == [kind |-> "requested", of |-> p]
  <2>1. e \in EntryRecord /\ e.kind = "requested" /\ e.of = p /\ log' = Append(log, e)
    BY <1>3 DEF EntryRecord, EventKinds, Subjects, RecordRequest
  <2>2. p \in recorded /\ prompt[p] \notin {"unasked", "lost"} /\ ~Logged("requested", p)
    BY <1>3 DEF RecordRequest
  <2>3. OverOrAsked(p)
    BY <1>2, <2>2 DEF OverOrAsked
  <2> HIDE DEF e
  <2>4. LogSound'
    BY <1>1, <2>1, <2>2, <2>3, LogSoundGrows
  <2> QED
    BY <1>1, <2>1, <2>4, RecordKeeps
<1>4. CASE RecordResult(p)
  <2> DEFINE e == [kind |-> "resolved", of |-> p]
  <2>1. e \in EntryRecord /\ e.kind = "resolved" /\ e.of = p /\ log' = Append(log, e)
    BY <1>4 DEF EntryRecord, EventKinds, Subjects, RecordResult
  <2>2. Over(p) /\ Logged("requested", p)
    BY <1>4 DEF RecordResult
  <2>3. PICK n \in 1 .. Len(log) : log[n] = [kind |-> "requested", of |-> p]
    BY <1>2, <2>2 DEF Logged
  <2>4. log[n].kind = "requested" /\ log[n].of = p
    BY <2>3
  <2>5. p \in recorded
    BY <1>2, <2>4 DEF LogSound
  <2> HIDE DEF e
  <2>6. LogSound'
    BY <1>1, <2>1, <2>2, <2>5, LogSoundGrows
  <2> QED
    BY <1>1, <2>1, <2>6, RecordKeeps
<1> QED
  BY <1>3, <1>4

\* A message is posted by a worker that remembers it.
LEMMA PostKeeps == BridgeInv /\ Post => BridgeInv'
<1> SUFFICES ASSUME BridgeInv, Post PROVE BridgeInv'
  OBVIOUS
<1> DEFINE m == job.of
           e == [kind |-> "own", of |-> m]
<1>1. /\ job.stage = "post" /\ posted' = [posted EXCEPT ![m] = @ + 1] /\ log' = Append(log, e)
      /\ job' = [job EXCEPT !.stage = "accepted"]
      /\ UNCHANGED <<given, recorded, prompt, notices, link, queue, worker, durable, discord, message, inputs, faults>>
  BY DEF Post, given
<1>2. job # NoJob
  BY <1>1 DEF NoJob
<1>3. job.kind = "message" /\ m \in worker.seen /\ m \in Messages /\ message[m] \notin {"unsent", "past"} /\ posted[m] = 0
  BY <1>1, <1>2, WorkParts DEF JobSound
<1>4. e \in EntryRecord /\ e.kind = "own"
  BY <1>3 DEF EntryRecord, EventKinds, Subjects
<1> HIDE DEF e, m
<1>5. /\ job' \in JobRecord /\ job'.kind = job.kind /\ job'.of = job.of /\ job'.seq = job.seq /\ job'.listed = job.listed
      /\ job'.todo = job.todo /\ job'.stage = "accepted"
  BY <1>1, <1>2, WorkParts DEF JobRecord, JobStages
<1>6. posted' \in [Messages -> Nat] /\ \A o \in Messages : posted'[o] = IF o = m THEN 1 ELSE posted[o]
  BY <1>1, <1>2, <1>3, WorkParts
<1>7. PostsSound'
  BY <1>1, <1>2, <1>3, <1>6, WorkParts DEF PostsSound
<1>8. LogSound'
  BY <1>1, <1>4, LogSoundGrows
<1> QED
  BY <1>1, <1>4, <1>5, <1>6, <1>7, <1>8, LogKeeps

-----------------------------------------------------------------------------
(* The bridge as a whole                                                   *)

LEMMA BridgeBegins == BridgeInit => BridgeInv
<1> SUFFICES ASSUME BridgeInit PROVE BridgeInv
  OBVIOUS
<1>1. /\ board \in BOOLEAN /\ recorded \subseteq Prompts
      /\ log = <<>> /\ prompt = [p \in Prompts |-> "unasked"] /\ notices = {}
      /\ link = [phase |-> "down", next |-> 0] /\ queue = <<>> /\ worker = Fresh /\ job = NoJob
      /\ store = [p \in Prompts |-> NoCard] /\ cursor = 0 /\ cards = <<>> /\ said = <<>>
      /\ message = [m \in Messages |-> "unsent"] /\ posted = [m \in Messages |-> 0] /\ inputs = 0 /\ faults = 0
  BY DEF BridgeInit
<1>2. Len(log) = 0 /\ Len(queue) = 0 /\ Len(cards) = 0 /\ Len(said) = 0
      /\ DOMAIN log = 1 .. 0 /\ DOMAIN queue = 1 .. 0 /\ DOMAIN cards = 1 .. 0 /\ DOMAIN said = 1 .. 0
  BY <1>1
<1>3. \A i \in 1 .. 0 : FALSE
  OBVIOUS
<1>4. /\ link.phase = "down" /\ link.next = 0 /\ ~worker.live /\ worker.seq = 0
      /\ job.kind = "none" /\ job.stage = "none" /\ job.listed = {} /\ job.todo = {}
  BY <1>1 DEF Fresh, NoJob
<1>5. BridgeTypeOK
  <2>1. 0 \in 0 .. MaxInputs /\ 0 \in 0 .. MaxFaults /\ 0 <= QueueSize
    BY BridgeAssumption
  <2>2. worker \in [live : BOOLEAN, seq : Nat, shown : [Prompts -> Shown], seen : SUBSET Messages]
    BY <1>1, FreshTyped
  <2>3. link \in [phase : Phases, next : Nat]
    BY <1>1 DEF Phases
  <2>4. NoCard \in [card : Nat, seq : Nat]
    BY DEF NoCard
  <2> QED
    BY <1>1, <1>2, <1>3, <2>1, <2>2, <2>3, <2>4 DEF BridgeTypeOK
<1>6. BridgeTyped
  <2>1. Bounded
    BY <1>1, <1>2, <1>4 DEF Bounded
  <2>2. job \in JobRecord
    BY <1>1, NoJobTyped
  <2> QED
    BY <1>1, <1>2, <1>3, <1>5, <2>1, <2>2 DEF BridgeTyped
<1>7. LogSound
  BY <1>2, <1>3 DEF LogSound
<1>8. LinkSound
  BY <1>1, <1>4 DEF LinkSound
<1>9. QueueSound /\ InLine
  BY <1>2, <1>3, <1>4 DEF QueueSound, InLine
<1>10. JobSound
  BY <1>1, <1>4 DEF JobSound
<1>11. StoreSound /\ CardSound
  BY <1>1, <1>2, <1>3 DEF StoreSound, CardSound, FinalIsTrue
<1>12. ResultSound
  BY <1>2, <1>3 DEF ResultSound
<1>13. MirrorSound
  BY <1>1, <1>2, <1>3, <1>4 DEF MirrorSound, Ordered, CursorIsBehind
<1>14. PostsSound
  BY <1>1 DEF PostsSound
<1> QED
  BY <1>6, <1>7, <1>8, <1>9, <1>10, <1>11, <1>12, <1>13, <1>14 DEF BridgeInv

LEMMA BridgeStands == BridgeInv /\ UNCHANGED bridgeVars => BridgeInv'
<1> SUFFICES ASSUME BridgeInv, UNCHANGED bridgeVars PROVE BridgeInv'
  OBVIOUS
<1>1. UNCHANGED <<given, log, prompt, notices, link, queue, worker, job, durable, discord, human, faults>>
  BY DEF bridgeVars, daemon
<1>2. prompt' \in [Prompts -> {"unasked", "pending", "answered", "withdrawn", "lost"}] /\ notices' \subseteq Prompts
  BY <1>1, BridgeParts DEF BridgeInv
<1>3. PromptsMove /\ \A p \in Prompts : (Over(p) => Over(p)') /\ (OverOrAsked(p) => OverOrAsked(p)')
  BY <1>1 DEF PromptsMove, Asked, Past, Over, OverOrAsked
<1> QED
  BY <1>1, <1>2, <1>3, PromptKeeps

\* Every step of the bridge and of those around it keeps the invariant.
LEMMA BridgeGoesOn == BridgeInv /\ [BridgeNext]_bridgeVars => BridgeInv'
<1> SUFFICES ASSUME BridgeInv, BridgeNext PROVE BridgeInv'
  BY BridgeStands
<1>1. CASE Connection
  BY <1>1, AttachKeeps, ReconcileKeeps, ReconcileOverloadedKeeps, SubscribeKeeps, DeliverKeeps DEF Connection
<1>2. CASE Taking
  BY <1>2, TakeIdleKeeps, TakeSnapshotKeeps, TakeSkippedKeeps, TakeChatKeeps, TakeOwnKeeps, TakeRequestedKeeps,
     TakeResolvedKeeps, TakeInputKeeps DEF Taking
<1>3. CASE Tick
  BY <1>3, TickKeeps
<1>4. CASE Syncing
  BY <1>4, ListKeeps, SettleKeeps, ShowNewKeeps DEF Syncing
<1>5. CASE Say \/ Finish
  BY <1>5, SayKeeps, FinishKeeps
<1>6. CASE Carrying
  BY <1>6, PostKeeps, AcceptedKeeps, ReplyKeeps, ReplyRefusedKeeps DEF Carrying
<1>7. CASE LinkLost
  BY <1>7, LinkLostKeeps
<1>8. CASE \E p \in Prompts : Disable(p) \/ Ask(p) \/ AnswerElsewhere(p) \/ Withdraw(p) \/ Notify(p)
  BY <1>8, EditsKeep, AskKeeps, NotifyKeeps
<1>9. CASE Recording \/ Chat
  BY <1>9, RecordingKeeps, ChatKeeps DEF Recording
<1>10. CASE \E m \in Messages : Arrive(m) \/ ArriveAgain(m)
  BY <1>10, ArriveKeeps, ArriveAgainKeeps
<1>11. CASE \E c \in DOMAIN cards : Click(c) \/ Delete(c)
  BY <1>11, ClickKeeps, EditsKeep
<1>12. CASE BridgeRestart \/ DaemonRestart
  BY <1>12, BridgeRestartKeeps, DaemonRestartKeeps
<1> QED
  BY <1>1, <1>2, <1>3, <1>4, <1>5, <1>6, <1>7, <1>8, <1>9, <1>10, <1>11, <1>12 DEF BridgeNext

LEMMA BridgeStaysSound == BridgeSpec => []BridgeInv
<1>1. BridgeInit => BridgeInv
  BY BridgeBegins
<1>2. BridgeInv /\ [BridgeNext]_bridgeVars => BridgeInv'
  BY BridgeGoesOn
<1> QED
  BY <1>1, <1>2, PTL DEF BridgeSpec

LEMMA SoundMirror == BridgeInv => MirrorIsTrue
<1> SUFFICES ASSUME BridgeInv PROVE MirrorIsTrue
  OBVIOUS
<1>1. MirrorSound /\ PostsSound /\ said \in Seq(Nat)
  BY BridgeParts DEF BridgeInv
<1>2. DOMAIN said = 1 .. Len(said)
  BY <1>1
<1>3. ChatInOrder
  BY <1>1, <1>2 DEF MirrorSound, Ordered, ChatInOrder
<1>4. CursorIsBehind
  BY <1>1 DEF MirrorSound
<1>5. PostedOnce
  BY <1>1 DEF PostsSound, PostedOnce
<1> QED
  BY <1>3, <1>4, <1>5 DEF MirrorIsTrue, BoardInOrder

LEMMA SoundCards == BridgeInv => CardsAreTrue
<1> SUFFICES ASSUME BridgeInv PROVE CardsAreTrue
  OBVIOUS
<1>1. ResultSound /\ CardSound /\ log \in Seq(EntryRecord) /\ queue \in Seq(Work)
  BY BridgeParts DEF BridgeInv
<1>2. DOMAIN log = 1 .. Len(log) /\ DOMAIN queue = 1 .. Len(queue)
  BY <1>1
<1>3. ASSUME NEW p \in recorded, NEW n \in DOMAIN log, store[p] # NoCard, log[n] = [kind |-> "resolved", of |-> p]
      PROVE  /\ store[p].seq < n
             /\ link.phase \in {"binding", "bound", "ready"} =>
                  \/ link.next <= n
                  \/ \E i \in DOMAIN queue : queue[i].live /\ queue[i].kind = "event" /\ queue[i].seq = n
                  \/ job.stage = "finish" /\ job.of = p
  <2>1. n \in 1 .. Len(log) /\ IsResult(n, p)
    BY <1>2, <1>3 DEF IsResult
  <2>2. store[p].seq < n /\ (Subscribing => Coming(n) \/ Finishing(p))
    BY <1>1, <1>3, <2>1 DEF ResultSound
  <2>3. Delivered(n) => \E i \in DOMAIN queue : queue[i].live /\ queue[i].kind = "event" /\ queue[i].seq = n
    BY <1>2 DEF Delivered, Up
  <2> QED
    BY <2>2, <2>3 DEF Subscribing, Coming, Finishing
<1>4. ResultWillCome
  BY <1>3 DEF ResultWillCome
<1> QED
  BY <1>1, <1>4 DEF CardSound, CardsAreTrue

\* The state of the bridge keeps its types: in particular the worker's queue
\* never passes its size (enqueue), and stored cards, shown prompts and the
\* outcomes of messages are what Worker and PromptStore know.
THEOREM BridgeTyping == BridgeSpec => []BridgeTypeOK
<1>1. BridgeInv => BridgeTypeOK
  BY DEF BridgeInv, BridgeTyped
<1> QED
  BY <1>1, BridgeStaysSound, PTL

\* What goes through the bridge gets there once and in order, whatever link,
\* call, process or daemon fails in between: the chat that Worker::mirror posts
\* follows the log, a board's saved cursor passes nothing that was not posted,
\* and no message of the approver is posted twice.
THEOREM MirrorCorrect == BridgeSpec => []MirrorIsTrue
<1> QED
  BY SoundMirror, BridgeStaysSound, PTL

\* A prompt card tells the truth: "final" only when the daemon no longer waits,
\* and as long as a card is stored, the recorded result of its prompt is ahead
\* of the link's replay (replay_from), on its way, or being shown.
THEOREM CardsCorrect == BridgeSpec => []CardsAreTrue
<1> QED
  BY SoundCards, BridgeStaysSound, PTL
=============================================================================

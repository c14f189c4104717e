----------------------------- MODULE Escalation -----------------------------
(***************************************************************************)
(* Prompts to the owner: src/escalation.rs.  A request publishes a prompt  *)
(* under an id and waits; clients claim and answer it, a mode change or a  *)
(* trust decision answers for them, timers default it, and cancelling or   *)
(* dropping the request withdraws it.                                      *)
(*                                                                         *)
(* A request is named by its generation.  Whoever removes a prompt from    *)
(* the manager's map sends the answer after the lock is released; `sending`*)
(* holds what is removed and not sent yet.  The notifications that follow  *)
(* change nothing here.                                                    *)
(***************************************************************************)
EXTENDS Naturals, FiniteSets

CONSTANTS Ids,          \* prompt ids
          Clients,
          NoClient,     \* claimed_by is empty
          MaxRequests   \* bound of the model: generations

ASSUME EscalationAssumption ==
  /\ NoClient \notin Clients
  /\ MaxRequests \in Nat

VARIABLES
  generation,  \* State.generation
  pending,     \* State.pending: id -> prompt, or NoPrompt
  waiter,      \* waiter[g]: the future of the g-th request
  sending,     \* resolutions between removal and Sender::send
  slot,        \* slot[g]: what the oneshot channel of the request holds
  connection   \* connection[cl]: "live"; "leaving", when a request that it
               \* dispatched may still run; "gone"

vars == <<generation, pending, waiter, sending, slot, connection>>

Generations == 1 .. MaxRequests
Kinds == {"permission", "question", "trust"}
\* "decided": by the owner's mode change or trust decision, whoever claims.
Causes == {"answered", "decided", "defaulted", "withdrawn"}
NoPrompt == [gen |-> 0, kind |-> "none", claimed |-> NoClient, aged |-> FALSE]
Prompt == [gen : Generations, kind : Kinds, claimed : Clients \cup {NoClient}, aged : BOOLEAN]
Nothing == [cause |-> "none", by |-> NoClient]
Resolution == [cause : Causes, by : Clients \cup {NoClient}]

\* stage: "none" before the request, "waiting" in the select loop, "draining"
\* after its cancellation, "done" with its result, "dropped".
Stages == {"none", "waiting", "draining", "done", "dropped"}
Waiter == [stage : Stages, id : Ids, kind : Kinds, timer : BOOLEAN,
           cancelled : BOOLEAN, result : Resolution \cup {Nothing}]

Init ==
  /\ generation = 0
  /\ pending = [i \in Ids |-> NoPrompt]
  /\ waiter = [g \in {} |-> Nothing]
  /\ sending = {}
  /\ slot = [g \in Generations |-> Nothing]
  /\ connection = [cl \in Clients |-> "live"]

Live(g) == g \in DOMAIN waiter /\ waiter[g].stage \in {"waiting", "draining"}

-----------------------------------------------------------------------------
(* Requests                                                                *)

\* A repeated id never displaces a live prompt: its caller gets a withdrawn
\* answer and nothing changes.
DisplaceLive(i) == TRUE
Unused(i) == pending[i] = NoPrompt

\* begin(): the prompt is published before the future first runs.
Begin(i, kind) ==
  LET g == generation + 1
  IN /\ g \in Generations
     /\ Unused(i)
     /\ generation' = g
     /\ pending' = [pending EXCEPT ![i] =
          [gen |-> g, kind |-> kind, claimed |-> NoClient, aged |-> FALSE]]
     /\ waiter' = [h \in 1 .. g |->
          IF h < g THEN waiter[h]
          ELSE [stage |-> "waiting", id |-> i, kind |-> kind,
                timer |-> kind = "permission", cancelled |-> FALSE, result |-> Nothing]]
     /\ UNCHANGED <<sending, slot, connection>>

\* The prompt leaves the map under the lock; the answer is sent after it.
Remove(i, resolution) ==
  /\ pending' = [pending EXCEPT ![i] = NoPrompt]
  /\ sending' = sending \cup {[gen |-> pending[i].gen, answer |-> resolution]}

\* finish() with a generation looks for the prompt of that request only.
FoundById(i, g) == pending[i] # NoPrompt
Unchecked(i, g) == TRUE
Found(i, g) == pending[i].gen = g

\* finish(id, generation, ...)
Finish(g, cause) ==
  LET i == waiter[g].id
  IN IF Found(i, g)
     THEN Remove(i, [cause |-> cause, by |-> NoClient])
     ELSE UNCHANGED <<pending, sending>>

\* Sender::send; a receiver that is gone ignores it.
Send(s) ==
  /\ s \in sending
  /\ sending' = sending \ {s}
  /\ slot' = [slot EXCEPT ![s.gen] = s.answer]
  /\ UNCHANGED <<generation, pending, waiter, connection>>

\* The answer timer runs for permission prompts only.
TimerRuns(g) == waiter[g].timer

AnswerTimeout(g) ==
  /\ g \in DOMAIN waiter /\ waiter[g].stage = "waiting" /\ TimerRuns(g)
  /\ waiter' = [waiter EXCEPT ![g].timer = FALSE]
  /\ Finish(g, "defaulted")
  /\ UNCHANGED <<generation, slot, connection>>

\* The caller cancels; the future notices when it runs.
Cancel(g) ==
  /\ g \in DOMAIN waiter /\ waiter[g].stage = "waiting"
  /\ waiter' = [waiter EXCEPT ![g].cancelled = TRUE]
  /\ UNCHANGED <<generation, pending, sending, slot, connection>>

\* A reply already accepted wins simultaneous cancellation: the request waits
\* for whoever removed its prompt.
ReturnWithdrawn(g) ==
  waiter' = [waiter EXCEPT ![g].stage = "done",
                           ![g].result = [cause |-> "withdrawn", by |-> NoClient]]
AwaitResolution(g) == waiter' = [waiter EXCEPT ![g].stage = "draining"]

CancelledKeepingPrompt(g) ==
  /\ g \in DOMAIN waiter /\ waiter[g].stage = "waiting" /\ waiter[g].cancelled
  /\ AwaitResolution(g)
  /\ UNCHANGED <<generation, pending, sending, slot, connection>>

Cancelled(g) ==
  /\ g \in DOMAIN waiter /\ waiter[g].stage = "waiting" /\ waiter[g].cancelled
  /\ AwaitResolution(g)
  /\ Finish(g, "withdrawn")
  /\ UNCHANGED <<generation, slot, connection>>

\* The answer arrives, in the select loop or after a cancellation.
Receive(g) ==
  /\ Live(g) /\ slot[g] # Nothing
  /\ waiter' = [waiter EXCEPT ![g].stage = "done", ![g].result = slot[g]]
  /\ UNCHANGED <<generation, pending, sending, slot, connection>>

\* RequestGuard withdraws when the future is dropped before it is done.
NoGuard(g) == UNCHANGED <<pending, sending>>
GuardDropped(g) == Finish(g, "withdrawn")

Drop(g) ==
  /\ Live(g)
  /\ waiter' = [waiter EXCEPT ![g].stage = "dropped"]
  /\ GuardDropped(g)
  /\ UNCHANGED <<generation, slot, connection>>

-----------------------------------------------------------------------------
(* Clients                                                                 *)

\* A request of a client runs.  One that it dispatched before it left may run
\* afterwards; the bound of the model is one.
Dispatched(cl) ==
  /\ connection[cl] # "gone"
  /\ connection' = IF connection[cl] = "leaving"
                   THEN [connection EXCEPT ![cl] = "gone"] ELSE connection

\* claim(): taken over by nobody else; claiming again renews the claim.
Claim(i, cl) ==
  /\ Dispatched(cl)
  /\ pending[i] # NoPrompt /\ pending[i].claimed \in {NoClient, cl}
  /\ pending' = [pending EXCEPT ![i].claimed = cl, ![i].aged = FALSE]
  /\ UNCHANGED <<generation, waiter, sending, slot>>

\* reply() is refused while another client holds the claim.
AnyoneMayAnswer(i, cl) == TRUE
MayAnswer(i, cl) == pending[i].claimed \in {NoClient, cl}

Reply(i, cl) ==
  /\ Dispatched(cl)
  /\ pending[i] # NoPrompt /\ MayAnswer(i, cl)
  /\ Remove(i, [cause |-> "answered", by |-> cl])
  /\ UNCHANGED <<generation, waiter, slot>>

\* resolve(): the owner decides a trust prompt whoever claims it.
Resolve(i, cl) ==
  /\ Dispatched(cl)
  /\ pending[i] # NoPrompt /\ pending[i].kind = "trust"
  /\ Remove(i, [cause |-> "decided", by |-> cl])
  /\ UNCHANGED <<generation, waiter, slot>>

\* answer_where(): a mode change answers the permission prompts it decides.
AnswerWhere(S, cl) ==
  /\ Dispatched(cl)
  /\ S # {} /\ \A i \in S : pending[i].kind = "permission"
  /\ pending' = [i \in Ids |-> IF i \in S THEN NoPrompt ELSE pending[i]]
  /\ sending' = sending \cup
       {[gen |-> pending[i].gen, answer |-> [cause |-> "decided", by |-> cl]] : i \in S}
  /\ UNCHANGED <<generation, waiter, slot>>

\* The claims on the prompts of I end.
Freed(I) ==
  pending' = [i \in Ids |->
    IF i \in I THEN [pending[i] EXCEPT !.claimed = NoClient, !.aged = FALSE] ELSE pending[i]]

\* The connection ends and release_client() clears its claims.
Disconnect(cl) ==
  /\ connection[cl] = "live"
  /\ connection' = [connection EXCEPT ![cl] = "leaving"]
  /\ Freed({i \in Ids : pending[i].claimed = cl})
  /\ UNCHANGED <<generation, waiter, sending, slot>>

\* The claim of a prompt gets older than the claim expiry.
Age(i) ==
  /\ pending[i].claimed # NoClient /\ ~pending[i].aged
  /\ pending' = [pending EXCEPT ![i].aged = TRUE]
  /\ UNCHANGED <<generation, waiter, sending, slot, connection>>

\* expire_claims() looks at the whole map.
ExpiredIfLive(i) == pending[i].aged /\ \E cl \in Clients :
  pending[i].claimed = cl /\ connection[cl] = "live"
Expired(i) == pending[i].claimed # NoClient /\ pending[i].aged

\* The ten-second tick of any waiting request.
Tick(g) ==
  /\ g \in DOMAIN waiter /\ waiter[g].stage = "waiting"
  /\ Freed({i \in Ids : Expired(i)})
  /\ UNCHANGED <<generation, waiter, sending, slot, connection>>

Next ==
  \/ \E i \in Ids, kind \in Kinds : Begin(i, kind)
  \/ \E s \in sending : Send(s)
  \/ \E g \in Generations :
       AnswerTimeout(g) \/ Cancel(g) \/ Cancelled(g) \/ Receive(g) \/ Drop(g) \/ Tick(g)
  \/ \E i \in Ids, cl \in Clients : Claim(i, cl) \/ Reply(i, cl) \/ Resolve(i, cl)
  \/ \E S \in SUBSET Ids, cl \in Clients : AnswerWhere(S, cl)
  \/ \E cl \in Clients : Disconnect(cl)
  \/ \E i \in Ids : Age(i)

Spec == Init /\ [][Next]_vars

\* Timers fire, futures are polled, whoever removed a prompt goes on to send.
\* Nothing obliges a client to answer or a caller to cancel.
FairSpec ==
  /\ Spec
  /\ WF_vars(\E s \in sending : Send(s))
  /\ \A g \in Generations :
       /\ WF_vars(AnswerTimeout(g)) /\ WF_vars(Cancelled(g))
       /\ WF_vars(Receive(g)) /\ WF_vars(Tick(g))
  /\ \A i \in Ids : WF_vars(Age(i))

-----------------------------------------------------------------------------
(* Properties                                                              *)

TypeOK ==
  /\ generation \in 0 .. MaxRequests
  /\ pending \in [Ids -> Prompt \cup {NoPrompt}]
  /\ waiter \in [1 .. generation -> Waiter]
  /\ sending \subseteq [gen : Generations, answer : Resolution]
  /\ slot \in [Generations -> Resolution \cup {Nothing}]
  /\ connection \in [Clients -> {"live", "leaving", "gone"}]

Shown(g) == {i \in Ids : pending[i].gen = g}
InTransit(g) == {s \in sending : s.gen = g}

\* Exactly one of: the prompt is shown, its one resolution is on its way, or
\* it was sent.  No answer is lost or sent twice, whoever races whom.
ResolvedOnce ==
  \A g \in 1 .. generation :
    Cardinality(Shown(g)) + Cardinality(InTransit(g)) + (IF slot[g] = Nothing THEN 0 ELSE 1) = 1

\* Nobody is asked on behalf of a request that is over.
NoStalePrompt == \A i \in Ids : pending[i] # NoPrompt => waiter[pending[i].gen].stage = "waiting"

\* A caller gets the resolution that removed its prompt: an accepted reply is
\* not lost to a simultaneous cancellation.
ReplyWins ==
  \A g \in 1 .. generation : waiter[g].stage = "done" => waiter[g].result = slot[g]

\* Only the request's own timer defaults it and only its own cancellation or
\* drop withdraws it: never those of an earlier request under the same id.
OwnCause ==
  \A g \in 1 .. generation : \A answer \in {slot[g]} \cup {s.answer : s \in InTransit(g)} :
    /\ answer.cause = "defaulted" => waiter[g].kind = "permission" /\ ~waiter[g].timer
    /\ answer.cause = "withdrawn" => waiter[g].cancelled \/ waiter[g].stage = "dropped"

\* Every prompt has one resolution, belongs to a request that waits for it, and
\* its caller is told what really happened to it: Manager::finish and the
\* RequestGuard against replies, mode changes, timers and cancellation.
PromptsAreSound == ResolvedOnce /\ NoStalePrompt /\ ReplyWins /\ OwnCause

\* A claim protects: while it stands nobody else's reply is accepted.
ClaimProtects ==
  [][\A i \in Ids : \A s \in sending' \ sending :
       pending[i].gen = s.gen /\ pending[i].claimed # NoClient /\ s.answer.cause = "answered"
         => s.answer.by = pending[i].claimed]_vars

\* A cancelled request returns, and a permission request always does: nobody
\* waits for an answer that was lost between removal and send.
RequestReturns ==
  \A g \in Generations :
    (g \in DOMAIN waiter /\ (waiter[g].cancelled \/ waiter[g].kind = "permission"))
      ~> (g \in DOMAIN waiter /\ ~Live(g))

\* A prompt is not left to a client that is gone: its claim ends, even one
\* that ran after the disconnect, so that others can answer.
DeadClaimEnds ==
  \A i \in Ids, cl \in Clients :
    (pending[i].claimed = cl /\ connection[cl] # "live") ~> (pending[i].claimed # cl)

\* A claim keeps others out exactly as long as it should: nobody else answers
\* while it stands, and it does not outlive its client for long.
ClaimsWork == ClaimProtects /\ DeadClaimEnds
=============================================================================

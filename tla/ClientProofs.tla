---------------------------- MODULE ClientProofs ----------------------------
(***************************************************************************)
(* Theorems about the two ends of what a person is asked and shown.        *)
(*                                                                         *)
(* The prompts of src/escalation.rs, for any number of ids, clients and    *)
(* requests: the state is well-typed, every prompt has exactly one         *)
(* resolution, and its caller is told what really happened to it.          *)
(*                                                                         *)
(* The terminal of src/tui/controller, for any number of channels, prompts *)
(* and events: the view is one of the channel in view, and it has no gap.  *)
(***************************************************************************)
EXTENDS Escalation, Terminal, FiniteSetTheorems, TLAPS

Asked == 1 .. generation

\* The request's own prompt is in the map.
Prompted(g) == pending[waiter[g].id].gen = g

\* A prompt in the map belongs to the request that waits under its id.
PromptsOwned ==
  \A i \in Ids : pending[i].gen # 0 =>
    /\ pending[i].gen \in Asked
    /\ waiter[pending[i].gen].id = i
    /\ waiter[pending[i].gen].kind = pending[i].kind
    /\ waiter[pending[i].gen].stage = "waiting"

\* A resolution on its way is the only trace of its prompt.
SendingAlone ==
  /\ \A s \in sending : s.gen \in Asked /\ ~Prompted(s.gen) /\ slot[s.gen] = Nothing
  /\ \A s, t \in sending : s.gen = t.gen => s = t

\* So is one that was sent.
SentAlone == \A g \in Generations : slot[g] # Nothing => g \in Asked /\ ~Prompted(g)

\* No prompt is lost.
NothingLost ==
  \A g \in Asked : Prompted(g) \/ slot[g] # Nothing \/ \E s \in sending : s.gen = g

\* Only permission prompts are defaulted.
TimersOfPermissions == \A g \in Asked : waiter[g].timer => waiter[g].kind = "permission"

DoneIsTold == \A g \in Asked : waiter[g].stage = "done" => slot[g] # Nothing

\* Why the invariants are inductive.
IInv ==
  /\ TypeOK /\ PromptsOwned /\ SendingAlone /\ SentAlone /\ NothingLost /\ DoneIsTold
  /\ TimersOfPermissions /\ ReplyWins /\ OwnCause

-----------------------------------------------------------------------------
(* The invariants                                                          *)

LEMMA NothingIsNoResolution == Nothing \notin Resolution
BY DEF Nothing, Resolution, Causes

LEMMA Numbers == TypeOK => Asked \subseteq Generations /\ generation \in Nat /\ Asked \subseteq Nat \ {0}
BY EscalationAssumption DEF TypeOK, Asked, Generations

LEMMA InitIInv == Init => IInv
<1> SUFFICES ASSUME Init PROVE IInv
  OBVIOUS
<1>1. Asked = {} /\ 1 .. generation = {}
  BY DEF Init, Asked
<1>2. TypeOK
  BY <1>1, EscalationAssumption DEF Init, TypeOK
<1> QED
  BY <1>1, <1>2 DEF Init, IInv, PromptsOwned, SendingAlone, SentAlone, NothingLost, DoneIsTold,
     TimersOfPermissions, ReplyWins, OwnCause, NoPrompt

\* ResolvedOnce counts what SendingAlone, SentAlone and NothingLost separate.
LEMMA SoundFromIInv == IInv => PromptsAreSound
<1> SUFFICES ASSUME IInv PROVE PromptsAreSound
  OBVIOUS
<1> USE DEF IInv
<1>1. NoStalePrompt
  <2>1. \A i \in Ids : pending[i] # NoPrompt => pending[i].gen # 0
    BY EscalationAssumption DEF TypeOK, Prompt, Generations
  <2> QED
    BY <2>1 DEF NoStalePrompt, PromptsOwned
<1>2. ASSUME NEW g \in 1 .. generation
      PROVE  Cardinality(Shown(g)) + Cardinality(InTransit(g)) + (IF slot[g] = Nothing THEN 0 ELSE 1) = 1
  <2>1. g \in Asked /\ g \in Generations /\ g # 0 /\ waiter[g].id \in Ids
    BY Numbers DEF Asked, TypeOK, Waiter
  <2>2. Shown(g) = IF Prompted(g) THEN {waiter[g].id} ELSE {}
    BY <2>1 DEF Shown, Prompted, PromptsOwned
  <2>3. CASE Prompted(g)
    <3>1. Shown(g) = {waiter[g].id} /\ InTransit(g) = {} /\ slot[g] = Nothing
      BY <2>1, <2>2, <2>3 DEF InTransit, SendingAlone, SentAlone
    <3> HIDE DEF IInv
    <3>2. Cardinality(Shown(g)) = 1 /\ Cardinality(InTransit(g)) = 0
      BY <3>1, FS_Singleton, FS_EmptySet, Zenon
    <3> QED
      BY <3>1, <3>2
  <2>4. CASE slot[g] # Nothing
    <3>1. Shown(g) = {} /\ InTransit(g) = {}
      BY <2>1, <2>2, <2>4 DEF InTransit, SendingAlone, SentAlone
    <3> HIDE DEF IInv
    <3>2. Cardinality(Shown(g)) = 0 /\ Cardinality(InTransit(g)) = 0
      BY <3>1, FS_EmptySet, Zenon
    <3> QED
      BY <2>4, <3>2
  <2>5. CASE \E s \in sending : s.gen = g
    <3>1. PICK s \in sending : s.gen = g
      BY <2>5
    <3>2. Shown(g) = {} /\ InTransit(g) = {s} /\ slot[g] = Nothing
      BY <2>1, <2>2, <3>1 DEF InTransit, SendingAlone
    <3> HIDE DEF IInv
    <3>3. Cardinality(Shown(g)) = 0 /\ Cardinality(InTransit(g)) = 1
      BY <3>2, FS_Singleton, FS_EmptySet, Zenon
    <3> QED
      BY <3>2, <3>3
  <2> QED
    BY <2>1, <2>3, <2>4, <2>5 DEF NothingLost
<1> QED
  BY <1>1, <1>2 DEF PromptsAreSound, ResolvedOnce

-----------------------------------------------------------------------------
(* What the steps have in common                                           *)

\* Fields of a prompt and of a request that is asked.
LEMMA Fields ==
  ASSUME TypeOK
  PROVE  /\ \A i \in Ids : /\ pending[i].gen \in Nat
                           /\ pending[i] \in Prompt \/ pending[i] = NoPrompt
                           /\ pending[i].gen # 0 => pending[i] \in Prompt
                           /\ pending[i] # NoPrompt <=> pending[i].gen # 0
         /\ \A g \in Asked : waiter[g] \in Waiter /\ waiter[g].id \in Ids
BY Numbers DEF TypeOK, Prompt, NoPrompt, Waiter, Asked, Generations

\* Claims come and go, and nothing else changes.
LEMMA ClaimsKeep ==
  ASSUME IInv, UNCHANGED <<generation, waiter, sending, slot>>,
         pending' \in [Ids -> Prompt \cup {NoPrompt}],
         \A i \in Ids : pending'[i].gen = pending[i].gen /\ pending'[i].kind = pending[i].kind,
         connection' \in [Clients -> {"live", "leaving", "gone"}]
  PROVE  IInv'
<1>1. TypeOK'
  BY DEF IInv, TypeOK
<1>2. Asked' = Asked /\ \A g \in Asked : Prompted(g)' = Prompted(g)
  BY Fields DEF Asked, Prompted, IInv
<1>3. PromptsOwned'
  BY <1>2, Fields DEF IInv, PromptsOwned
<1>4. SendingAlone' /\ SentAlone' /\ NothingLost' /\ DoneIsTold'
  BY <1>2 DEF IInv, SendingAlone, SentAlone, NothingLost, DoneIsTold
<1>5. TimersOfPermissions' /\ ReplyWins' /\ OwnCause'
  BY <1>2 DEF IInv, TimersOfPermissions, ReplyWins, OwnCause, InTransit
<1> QED
  BY <1>1, <1>3, <1>4, <1>5 DEF IInv

\* The prompts of S leave the map with the resolution r, and requests whose
\* prompt is not shown any more stop waiting.
Progressed(S) ==
  /\ waiter' \in [Asked -> Waiter]
  /\ \A h \in Asked :
       /\ waiter'[h].id = waiter[h].id /\ waiter'[h].kind = waiter[h].kind
       /\ waiter'[h].result = waiter[h].result
       /\ ~waiter[h].timer => ~waiter'[h].timer
       /\ waiter[h].cancelled => waiter'[h].cancelled
       /\ waiter[h].stage = "dropped" => waiter'[h].stage = "dropped"
       /\ waiter'[h].stage = "done" => waiter[h].stage = "done"
       /\ (waiter[h].stage = "waiting" /\ Prompted(h) /\ waiter[h].id \notin S)
            => waiter'[h].stage = "waiting"

JustCause(S, r) ==
  \A i \in S : LET w == waiter'[pending[i].gen]
               IN /\ r.cause = "defaulted" => w.kind = "permission" /\ ~w.timer
                  /\ r.cause = "withdrawn" => w.cancelled \/ w.stage = "dropped"

Removal(S, r) ==
  /\ S \subseteq Ids /\ \A i \in S : pending[i].gen # 0
  /\ r \in Resolution
  /\ generation' = generation /\ slot' = slot
  /\ connection' \in [Clients -> {"live", "leaving", "gone"}]
  /\ pending' = [i \in Ids |-> IF i \in S THEN NoPrompt ELSE pending[i]]
  /\ sending' = sending \cup {[gen |-> pending[i].gen, answer |-> r] : i \in S}
  /\ Progressed(S) /\ JustCause(S, r)

LEMMA RemovalKeeps ==
  ASSUME IInv, NEW S, NEW r, Removal(S, r)
  PROVE  IInv'
<1> USE DEF Removal, Progressed, JustCause
<1> DEFINE Added == {[gen |-> pending[i].gen, answer |-> r] : i \in S}
<1>1. \A i \in S : /\ pending[i].gen \in Asked /\ waiter[pending[i].gen].id = i
                   /\ Prompted(pending[i].gen)
  BY DEF IInv, PromptsOwned, Prompted
<1>2. Asked' = Asked /\ Asked \subseteq Generations
  BY Numbers DEF Asked, IInv
<1>3. \A g \in Asked : Prompted(g)' <=> Prompted(g) /\ waiter[g].id \notin S
  <2> SUFFICES ASSUME NEW g \in Asked
               PROVE  Prompted(g)' <=> Prompted(g) /\ waiter[g].id \notin S
    OBVIOUS
  <2>1. g # 0 /\ waiter[g].id \in Ids /\ waiter'[g].id = waiter[g].id
    BY Numbers, Fields DEF IInv
  <2> QED
    BY <2>1 DEF Prompted, NoPrompt
<1>4. TypeOK'
  <2>1. Added \subseteq [gen : Generations, answer : Resolution]
    BY <1>1, <1>2
  <2>2. pending' \in [Ids -> Prompt \cup {NoPrompt}]
    BY DEF IInv, TypeOK
  <2> QED
    BY <2>1, <2>2 DEF IInv, TypeOK, Asked
<1>5. PromptsOwned'
  <2> SUFFICES ASSUME NEW i \in Ids, pending'[i].gen # 0
               PROVE  /\ pending'[i].gen \in Asked
                      /\ waiter'[pending'[i].gen].id = i
                      /\ waiter'[pending'[i].gen].kind = pending'[i].kind
                      /\ waiter'[pending'[i].gen].stage = "waiting"
    BY <1>2 DEF PromptsOwned
  <2>1. i \notin S /\ pending'[i] = pending[i]
    BY DEF NoPrompt
  <2>2. /\ pending[i].gen \in Asked /\ waiter[pending[i].gen].id = i
        /\ waiter[pending[i].gen].kind = pending[i].kind
        /\ waiter[pending[i].gen].stage = "waiting"
    BY <2>1 DEF IInv, PromptsOwned
  <2>3. Prompted(pending[i].gen)
    BY <2>2 DEF Prompted
  <2> QED
    BY <2>1, <2>2, <2>3
<1>6. SendingAlone'
  <2>1. \A s \in sending' : s.gen \in Asked /\ ~Prompted(s.gen)' /\ slot[s.gen] = Nothing
    <3> SUFFICES ASSUME NEW s \in sending'
                 PROVE  s.gen \in Asked /\ ~Prompted(s.gen)' /\ slot[s.gen] = Nothing
      OBVIOUS
    <3>1. CASE s \in sending
      BY <3>1, <1>3 DEF IInv, SendingAlone
    <3>2. CASE s \in Added
      BY <3>2, <1>1, <1>2, <1>3 DEF IInv, SentAlone
    <3> QED
      BY <3>1, <3>2
  <2>2. ASSUME NEW s \in sending', NEW t \in sending', s.gen = t.gen PROVE s = t
    <3>1. CASE s \in sending /\ t \in sending
      BY <2>2, <3>1 DEF IInv, SendingAlone
    <3>2. CASE s \in Added /\ t \in Added
      <4>1. PICK i \in S : s = [gen |-> pending[i].gen, answer |-> r]
        BY <3>2
      <4>2. PICK j \in S : t = [gen |-> pending[j].gen, answer |-> r]
        BY <3>2
      <4> QED
        BY <2>2, <4>1, <4>2
    <3>3. \A u \in sending, v \in Added : u.gen # v.gen
      BY <1>1 DEF IInv, SendingAlone
    <3> QED
      BY <2>2, <3>1, <3>2, <3>3
  <2> QED
    BY <2>1, <2>2, <1>2 DEF SendingAlone
<1>7. SentAlone'
  BY <1>2, <1>3 DEF IInv, SentAlone
<1>8. NothingLost'
  <2> SUFFICES ASSUME NEW g \in Asked
               PROVE  Prompted(g)' \/ slot[g] # Nothing \/ \E s \in sending' : s.gen = g
    BY <1>2 DEF NothingLost
  <2>1. CASE Prompted(g) /\ waiter[g].id \in S
    <3>1. [gen |-> g, answer |-> r] \in Added
      BY <2>1 DEF Prompted
    <3>2. [gen |-> g, answer |-> r] \in sending' /\ [gen |-> g, answer |-> r].gen = g
      BY <3>1
    <3> QED
      BY <3>2
  <2>2. CASE \E s \in sending : s.gen = g
    BY <2>2
  <2> QED
    BY <2>1, <2>2, <1>3 DEF IInv, NothingLost
<1>9. DoneIsTold' /\ ReplyWins' /\ TimersOfPermissions'
  BY <1>2 DEF IInv, DoneIsTold, ReplyWins, TimersOfPermissions, Asked
<1>10. OwnCause'
  <2> SUFFICES ASSUME NEW g \in Asked, NEW a \in {slot[g]} \cup {s.answer : s \in InTransit(g)'}
               PROVE  /\ a.cause = "defaulted" => waiter'[g].kind = "permission" /\ ~waiter'[g].timer
                      /\ a.cause = "withdrawn" => waiter'[g].cancelled \/ waiter'[g].stage = "dropped"
    BY <1>2 DEF OwnCause, Asked
  <2>1. CASE a \in {slot[g]} \cup {s.answer : s \in InTransit(g)}
    BY <2>1 DEF IInv, OwnCause, Asked
  <2>2. CASE \E s \in Added : s.gen = g /\ a = s.answer
    BY <2>2
  <2> QED
    BY <2>1, <2>2 DEF InTransit
<1> QED
  BY <1>4, <1>5, <1>6, <1>7, <1>8, <1>9, <1>10 DEF IInv

\* A request finishes, or its timer does, and takes its own prompt with it.
LEMMA FinishKeeps ==
  ASSUME IInv, NEW g \in Asked, NEW cause \in Causes, NEW w \in Waiter,
         waiter[g].stage \in {"waiting", "draining"},
         Finish(g, cause), UNCHANGED <<generation, slot, connection>>,
         waiter' = [waiter EXCEPT ![g] = w],
         w.id = waiter[g].id, w.kind = waiter[g].kind, w.result = waiter[g].result,
         ~waiter[g].timer => ~w.timer, waiter[g].cancelled => w.cancelled,
         w.stage \in {"waiting", "draining", "dropped"},
         cause = "defaulted" => w.kind = "permission" /\ ~w.timer,
         cause = "withdrawn" => w.cancelled \/ w.stage = "dropped"
  PROVE  IInv'
<1> DEFINE i == waiter[g].id
           S == IF Prompted(g) THEN {i} ELSE {}
           r == [cause |-> cause, by |-> NoClient]
<1>1. i \in Ids /\ g # 0 /\ g \in Generations
  BY Fields, Numbers DEF IInv
<1>2. S \in SUBSET Ids /\ r \in Resolution /\ \A j \in S : pending[j].gen = g
  BY <1>1 DEF Prompted, Resolution
<1>3. pending' = [j \in Ids |-> IF j \in S THEN NoPrompt ELSE pending[j]]
  BY <1>1 DEF Finish, Found, Remove, Prompted, IInv, TypeOK
<1>4. sending' = sending \cup {[gen |-> pending[j].gen, answer |-> r] : j \in S}
  <2>1. CASE Prompted(g)
    <3>1. sending' = sending \cup {[gen |-> pending[i].gen, answer |-> r]}
      BY <2>1 DEF Finish, Found, Remove, Prompted
    <3> QED
      BY <2>1, <3>1
  <2>2. CASE ~Prompted(g)
    <3>1. sending' = sending
      BY <2>2 DEF Finish, Found, Prompted
    <3> QED
      BY <2>2, <3>1
  <2> QED
    BY <2>1, <2>2
<1>5. waiter \in [Asked -> Waiter] /\ waiter' \in [Asked -> Waiter]
  BY DEF IInv, TypeOK, Asked
<1>6. waiter'[g] = w /\ \A h \in Asked : h # g => waiter'[h] = waiter[h]
  BY <1>5
<1>7. Progressed(S)
  BY <1>5, <1>6 DEF Progressed
<1>8. JustCause(S, r)
  BY <1>2, <1>6 DEF JustCause
<1>9. connection' \in [Clients -> {"live", "leaving", "gone"}] /\ \A j \in S : pending[j].gen # 0
  BY <1>1, <1>2 DEF IInv, TypeOK
<1>10. Removal(S, r)
  BY <1>2, <1>3, <1>4, <1>7, <1>8, <1>9 DEF Removal
<1> QED
  BY <1>10, RemovalKeeps

-----------------------------------------------------------------------------
(* The steps                                                               *)

LEMMA BeginKeeps ==
  ASSUME IInv, NEW i \in Ids, NEW kind \in Kinds, Begin(i, kind)
  PROVE  IInv'
<1> PICK g : g = generation + 1
  OBVIOUS
<1> DEFINE shown == [gen |-> g, kind |-> kind, claimed |-> NoClient, aged |-> FALSE]
           new == [stage |-> "waiting", id |-> i, kind |-> kind, timer |-> kind = "permission",
                   cancelled |-> FALSE, result |-> Nothing]
<1>1. /\ generation \in Nat /\ generation' = g /\ g \in Generations
      /\ pending[i] = NoPrompt
      /\ pending' = [pending EXCEPT ![i] = shown]
      /\ waiter' = [h \in 1 .. g |-> IF h < g THEN waiter[h] ELSE new]
      /\ UNCHANGED <<sending, slot, connection>>
  BY DEF Begin, Unused, IInv, TypeOK
<1>2. Asked' = Asked \cup {g} /\ g \notin Asked /\ Asked \subseteq Generations /\ 0 \notin Asked'
  BY <1>1, Numbers DEF Asked, IInv
<1>3. shown \in Prompt /\ new \in Waiter
  <2>1. (kind = "permission") \in BOOLEAN
    OBVIOUS
  <2> QED
    BY <1>1, <2>1 DEF Prompt, Waiter, Stages
<1>4. waiter'[g] = new /\ \A h \in Asked : waiter'[h] = waiter[h]
  BY <1>1, <1>2 DEF Asked
<1>5. pending'[i] = shown /\ \A j \in Ids \ {i} : pending'[j] = pending[j]
  BY <1>1 DEF IInv, TypeOK
<1>6. TypeOK'
  <2>1. pending' \in [Ids -> Prompt \cup {NoPrompt}]
    BY <1>1, <1>3 DEF IInv, TypeOK
  <2>2. waiter' \in [1 .. generation' -> Waiter]
    <3>1. \A h \in 1 .. g : (IF h < g THEN waiter[h] ELSE new) \in Waiter
      BY <1>1, <1>3 DEF IInv, TypeOK
    <3> HIDE DEF new
    <3> QED
      BY <1>1, <3>1
  <2>3. generation' \in 0 .. MaxRequests
    BY <1>1 DEF Generations
  <2> QED
    BY <1>1, <2>1, <2>2, <2>3 DEF IInv, TypeOK
<1>7. Prompted(g)' /\ \A h \in Asked : Prompted(h)' = Prompted(h)
  <2>1. ASSUME NEW h \in Asked PROVE Prompted(h)' = Prompted(h)
    <3>1. waiter[h].id \in Ids /\ h # 0 /\ h # g
      BY <1>2, Fields, Numbers DEF IInv
    <3>2. CASE waiter[h].id = i
      <4>1. pending[i].gen = 0 /\ pending'[i].gen = g /\ waiter'[h].id = i
        BY <1>1, <1>4, <1>5, <3>2 DEF NoPrompt
      <4> QED
        BY <3>1, <3>2, <4>1 DEF Prompted
    <3>3. CASE waiter[h].id # i
      BY <1>4, <1>5, <3>1, <3>3 DEF Prompted
    <3> QED
      BY <3>2, <3>3
  <2> QED
    BY <1>4, <1>5, <2>1 DEF Prompted
<1>8. PromptsOwned'
  BY <1>2, <1>4, <1>5 DEF IInv, PromptsOwned
<1>9. SendingAlone' /\ SentAlone'
  BY <1>1, <1>2, <1>7 DEF IInv, SendingAlone, SentAlone
<1>10. NothingLost'
  BY <1>1, <1>2, <1>7 DEF IInv, NothingLost
<1>11. DoneIsTold' /\ TimersOfPermissions'
  <2>1. new.timer = (kind = "permission") /\ new.kind = kind /\ new.stage = "waiting"
    BY Zenon
  <2>2. waiter'[g].timer => waiter'[g].kind = "permission"
    BY <1>4, <2>1, Zenon
  <2>3. waiter'[g].stage = "waiting"
    BY <1>4, <2>1
  <2> HIDE DEF new
  <2> QED
    BY <1>1, <1>2, <1>4, <2>2, <2>3 DEF IInv, DoneIsTold, TimersOfPermissions
<1>12. ReplyWins'
  BY <1>1, <1>2, <1>4 DEF IInv, ReplyWins, Asked
<1>13. OwnCause'
  <2>1. slot[g] = Nothing /\ InTransit(g) = {}
    BY <1>1, <1>2 DEF IInv, SentAlone, SendingAlone, InTransit
  <2>2. OwnCause /\ \A h \in Asked' : InTransit(h)' = InTransit(h)
    BY <1>1 DEF IInv, InTransit
  <2>3. Nothing.cause = "none"
    BY DEF Nothing
  <2> QED
    BY <1>1, <1>2, <1>4, <2>1, <2>2, <2>3 DEF OwnCause, Asked
<1> QED
  BY <1>6, <1>8, <1>9, <1>10, <1>11, <1>12, <1>13 DEF IInv

LEMMA SendKeeps ==
  ASSUME IInv, NEW s \in sending, Send(s)
  PROVE  IInv'
<1>1. /\ s.gen \in Asked /\ s.gen \in Generations /\ ~Prompted(s.gen) /\ slot[s.gen] = Nothing
      /\ s.answer \in Resolution /\ s.answer # Nothing
  BY NothingIsNoResolution, Numbers DEF IInv, TypeOK, SendingAlone
<1>2. /\ UNCHANGED <<generation, pending, waiter, connection>> /\ sending' = sending \ {s}
      /\ Asked' = Asked /\ \A g \in Asked : Prompted(g)' = Prompted(g)
  BY DEF Send, Asked, Prompted
<1>3. slot'[s.gen] = s.answer /\ \A g \in Generations : g # s.gen => slot'[g] = slot[g]
  BY <1>1 DEF Send, IInv, TypeOK
<1>4. TypeOK'
  BY <1>1, <1>2 DEF Send, IInv, TypeOK
<1>5. PromptsOwned' /\ TimersOfPermissions'
  BY <1>2 DEF IInv, PromptsOwned, TimersOfPermissions
<1>6. SendingAlone'
  <2>1. \A t \in sending' : t \in sending /\ t.gen \in Generations /\ t.gen # s.gen
    BY <1>2, Numbers DEF IInv, SendingAlone
  <2> QED
    BY <1>2, <1>3, <2>1 DEF IInv, SendingAlone
<1>7. SentAlone'
  BY <1>1, <1>2, <1>3 DEF IInv, SentAlone
<1>8. NothingLost' /\ DoneIsTold'
  <2>1. \A g \in Asked : g \in Generations
    BY Numbers DEF IInv
  <2> QED
    BY <1>1, <1>2, <1>3, <2>1 DEF IInv, NothingLost, DoneIsTold
<1>9. ReplyWins'
  <2> SUFFICES ASSUME NEW g \in Asked, waiter[g].stage = "done" PROVE waiter[g].result = slot'[g]
    BY <1>2 DEF ReplyWins, Asked
  <2>1. slot[g] # Nothing /\ g \in Generations /\ waiter[g].result = slot[g]
    BY Numbers DEF IInv, DoneIsTold, ReplyWins, Asked
  <2> QED
    BY <1>1, <1>3, <2>1
<1>10. OwnCause'
  <2> SUFFICES ASSUME NEW g \in Asked, NEW a \in {slot'[g]} \cup {t.answer : t \in InTransit(g)'}
               PROVE  /\ a.cause = "defaulted" => waiter[g].kind = "permission" /\ ~waiter[g].timer
                      /\ a.cause = "withdrawn" => waiter[g].cancelled \/ waiter[g].stage = "dropped"
    BY <1>2 DEF OwnCause, Asked
  <2>1. a \in {slot[g]} \cup {t.answer : t \in InTransit(g)}
    <3>1. g \in Generations /\ InTransit(g)' \subseteq InTransit(g)
      BY <1>2, Numbers DEF IInv, InTransit
    <3>2. CASE a = slot'[g] /\ g = s.gen
      BY <1>3, <3>2 DEF InTransit
    <3> QED
      BY <1>3, <3>1, <3>2
  <2> QED
    BY <2>1 DEF IInv, OwnCause, Asked
<1> QED
  BY <1>4, <1>5, <1>6, <1>7, <1>8, <1>9, <1>10 DEF IInv

LEMMA ReceiveKeeps ==
  ASSUME IInv, NEW g, Receive(g)
  PROVE  IInv'
<1> DEFINE w == [waiter[g] EXCEPT !.stage = "done", !.result = slot[g]]
<1>1. /\ g \in Asked /\ g \in Generations /\ slot[g] # Nothing /\ slot[g] \in Resolution
      /\ waiter[g].stage \in {"waiting", "draining"} /\ waiter[g] \in Waiter /\ ~Prompted(g)
  BY Numbers DEF Receive, Live, IInv, TypeOK, Asked, SentAlone
<1>2. w \in Waiter /\ waiter' = [waiter EXCEPT ![g] = w]
  BY <1>1 DEF Receive, Waiter, Stages
<1>3. w.id = waiter[g].id /\ w.kind = waiter[g].kind /\ w.timer = waiter[g].timer
      /\ w.cancelled = waiter[g].cancelled /\ w.stage = "done" /\ w.result = slot[g]
  BY <1>1 DEF Waiter
<1> HIDE DEF w
<1>4. waiter'[g] = w /\ \A h \in Asked : h # g => waiter'[h] = waiter[h]
  BY <1>1, <1>2 DEF IInv, TypeOK, Asked
<1>5. UNCHANGED <<generation, pending, sending, slot, connection>> /\ Asked' = Asked
  BY DEF Receive, Asked
<1>6. \A h \in Asked : Prompted(h)' = Prompted(h)
  BY <1>3, <1>4, <1>5 DEF Prompted
<1>7. TypeOK'
  BY <1>1, <1>2, <1>5 DEF IInv, TypeOK, Asked
<1>8. PromptsOwned'
  <2>1. \A i \in Ids : pending[i].gen # g
    BY <1>1, Numbers DEF IInv, PromptsOwned, Prompted
  <2> QED
    BY <1>4, <1>5, <2>1 DEF IInv, PromptsOwned
<1>9. SendingAlone' /\ SentAlone' /\ NothingLost'
  BY <1>5, <1>6 DEF IInv, SendingAlone, SentAlone, NothingLost
<1>10. DoneIsTold' /\ TimersOfPermissions' /\ ReplyWins'
  BY <1>1, <1>3, <1>4, <1>5 DEF IInv, DoneIsTold, TimersOfPermissions, ReplyWins, Asked
<1>11. OwnCause'
  <2>1. \A h \in Asked : InTransit(h)' = InTransit(h)
    BY <1>5 DEF InTransit
  <2>2. \A h \in Asked : /\ waiter'[h].kind = waiter[h].kind /\ waiter'[h].timer = waiter[h].timer
                         /\ waiter'[h].cancelled = waiter[h].cancelled
                         /\ waiter[h].stage = "dropped" => waiter'[h].stage = "dropped"
    BY <1>1, <1>3, <1>4
  <2> QED
    BY <1>5, <2>1, <2>2 DEF IInv, OwnCause, Asked
<1> QED
  BY <1>7, <1>8, <1>9, <1>10, <1>11 DEF IInv

\* The client's side: whether it is still connected matters to nothing here.
LEMMA DispatchedTyped ==
  ASSUME IInv, NEW cl \in Clients, Dispatched(cl)
  PROVE  connection' \in [Clients -> {"live", "leaving", "gone"}]
BY DEF Dispatched, IInv, TypeOK

LEMMA ClaimStepKeeps ==
  ASSUME IInv, NEW i \in Ids, NEW cl \in Clients, Claim(i, cl)
  PROVE  IInv'
<1>1. pending[i] \in Prompt /\ pending \in [Ids -> Prompt \cup {NoPrompt}]
  BY DEF Claim, IInv, TypeOK
<1> DEFINE p == [pending[i] EXCEPT !.claimed = cl, !.aged = FALSE]
<1>2. p \in Prompt /\ p.gen = pending[i].gen /\ p.kind = pending[i].kind
  BY <1>1 DEF Prompt
<1>3. pending' = [pending EXCEPT ![i] = p] /\ UNCHANGED <<generation, waiter, sending, slot>>
  BY <1>1 DEF Claim
<1> HIDE DEF p
<1>4. /\ pending' \in [Ids -> Prompt \cup {NoPrompt}]
      /\ \A j \in Ids : pending'[j].gen = pending[j].gen /\ pending'[j].kind = pending[j].kind
  BY <1>1, <1>2, <1>3
<1>5. connection' \in [Clients -> {"live", "leaving", "gone"}]
  BY DispatchedTyped DEF Claim
<1> QED
  BY <1>3, <1>4, <1>5, ClaimsKeep

LEMMA FreedKeeps ==
  ASSUME IInv, NEW I, Freed(I), UNCHANGED <<generation, waiter, sending, slot>>,
         connection' \in [Clients -> {"live", "leaving", "gone"}]
  PROVE  IInv'
<1> DEFINE f(i) == [pending[i] EXCEPT !.claimed = NoClient, !.aged = FALSE]
<1>1. \A i \in Ids : /\ f(i) \in Prompt \cup {NoPrompt}
                     /\ f(i).gen = pending[i].gen /\ f(i).kind = pending[i].kind
  <2> SUFFICES ASSUME NEW i \in Ids
               PROVE  /\ f(i) \in Prompt \cup {NoPrompt}
                      /\ f(i).gen = pending[i].gen /\ f(i).kind = pending[i].kind
    OBVIOUS
  <2>1. CASE pending[i] \in Prompt
    BY <2>1 DEF Prompt
  <2>2. CASE pending[i] = NoPrompt
    <3> DEFINE Unclaimed == [gen : {0}, kind : {"none"}, claimed : {NoClient}, aged : {FALSE}]
    <3>1. f(i) \in Unclaimed
      <4>1. NoPrompt \in Unclaimed
        BY DEF NoPrompt
      <4> QED
        BY <2>2, <4>1
    <3>2. \A x \in Unclaimed : x = NoPrompt
      <4> TAKE x \in Unclaimed
      <4> QED
        BY Zenon DEF NoPrompt
    <3> QED
      BY <2>2, <3>1, <3>2
  <2> QED
    BY <2>1, <2>2, Fields DEF IInv
<1>2. pending' = [i \in Ids |-> IF i \in I THEN f(i) ELSE pending[i]]
  BY DEF Freed
<1> HIDE DEF f
<1>3. /\ pending' \in [Ids -> Prompt \cup {NoPrompt}]
      /\ \A i \in Ids : pending'[i].gen = pending[i].gen /\ pending'[i].kind = pending[i].kind
  BY <1>1, <1>2 DEF IInv, TypeOK
<1> QED
  BY <1>3, ClaimsKeep

LEMMA AgeKeeps ==
  ASSUME IInv, NEW i \in Ids, Age(i)
  PROVE  IInv'
<1> DEFINE p == [pending[i] EXCEPT !.aged = TRUE]
<1>1. pending[i] \in Prompt /\ pending \in [Ids -> Prompt \cup {NoPrompt}]
  BY DEF Age, IInv, TypeOK, NoPrompt
<1>2. p \in Prompt /\ p.gen = pending[i].gen /\ p.kind = pending[i].kind
  BY <1>1 DEF Prompt
<1>3. pending' = [pending EXCEPT ![i] = p] /\ UNCHANGED <<generation, waiter, sending, slot, connection>>
  BY <1>1 DEF Age
<1> HIDE DEF p
<1>4. /\ pending' \in [Ids -> Prompt \cup {NoPrompt}]
      /\ \A j \in Ids : pending'[j].gen = pending[j].gen /\ pending'[j].kind = pending[j].kind
  BY <1>1, <1>2, <1>3
<1>5. connection' \in [Clients -> {"live", "leaving", "gone"}]
  BY <1>3 DEF IInv, TypeOK
<1> QED
  BY <1>3, <1>4, <1>5, ClaimsKeep

\* Prompts that a client's request answers, whoever asked for them.
LEMMA AnsweredKeeps ==
  ASSUME IInv, NEW S \in SUBSET Ids, NEW cl \in Clients, NEW cause \in {"answered", "decided"},
         \A i \in S : pending[i] # NoPrompt,
         Dispatched(cl), UNCHANGED <<generation, waiter, slot>>,
         pending' = [i \in Ids |-> IF i \in S THEN NoPrompt ELSE pending[i]],
         sending' = sending \cup
           {[gen |-> pending[i].gen, answer |-> [cause |-> cause, by |-> cl]] : i \in S}
  PROVE  IInv'
<1> DEFINE r == [cause |-> cause, by |-> cl]
<1>1. r \in Resolution /\ r.cause \notin {"defaulted", "withdrawn"}
  BY DEF Resolution, Causes
<1>2. \A i \in S : pending[i].gen # 0
  BY Fields DEF IInv
<1>3. Progressed(S)
  BY DEF Progressed, IInv, TypeOK, Asked
<1>4. JustCause(S, r)
  BY <1>1 DEF JustCause
<1>5. sending' = sending \cup {[gen |-> pending[i].gen, answer |-> r] : i \in S}
  OBVIOUS
<1>6. connection' \in [Clients -> {"live", "leaving", "gone"}]
  BY DispatchedTyped
<1> HIDE DEF r
<1>7. Removal(S, r)
  BY <1>1, <1>2, <1>3, <1>4, <1>5, <1>6 DEF Removal
<1> QED
  BY <1>7, RemovalKeeps

LEMMA ReplyKeeps ==
  ASSUME IInv, NEW i \in Ids, NEW cl \in Clients, Reply(i, cl) \/ Resolve(i, cl)
  PROVE  IInv'
<1>1. PICK cause \in {"answered", "decided"} : Remove(i, [cause |-> cause, by |-> cl])
  BY DEF Reply, Resolve
<1>2. /\ pending[i] # NoPrompt /\ Dispatched(cl) /\ UNCHANGED <<generation, waiter, slot>>
      /\ \A j \in {i} : pending[j] # NoPrompt
  BY DEF Reply, Resolve
<1>3. pending' = [j \in Ids |-> IF j \in {i} THEN NoPrompt ELSE pending[j]]
  BY <1>1 DEF Remove, IInv, TypeOK
<1>4. sending' = sending \cup
        {[gen |-> pending[j].gen, answer |-> [cause |-> cause, by |-> cl]] : j \in {i}}
  BY <1>1 DEF Remove
<1>5. {i} \in SUBSET Ids
  OBVIOUS
<1> QED
  BY <1>2, <1>3, <1>4, <1>5, AnsweredKeeps

LEMMA AnswerWhereKeeps ==
  ASSUME IInv, NEW S \in SUBSET Ids, NEW cl \in Clients, AnswerWhere(S, cl)
  PROVE  IInv'
<1>1. \A i \in S : pending[i] # NoPrompt
  BY DEF AnswerWhere, NoPrompt
<1> QED
  BY <1>1, AnsweredKeeps DEF AnswerWhere

LEMMA TimeoutKeeps ==
  ASSUME IInv, NEW g, AnswerTimeout(g)
  PROVE  IInv'
<1> DEFINE w == [waiter[g] EXCEPT !.timer = FALSE]
<1>1. g \in Asked /\ waiter[g].stage = "waiting" /\ waiter[g].timer /\ waiter[g] \in Waiter
  BY DEF AnswerTimeout, TimerRuns, IInv, TypeOK, Asked
<1>2. waiter[g].kind = "permission"
  BY <1>1 DEF IInv, TimersOfPermissions
<1>3. /\ w \in Waiter /\ w.id = waiter[g].id /\ w.kind = waiter[g].kind
      /\ w.result = waiter[g].result /\ w.cancelled = waiter[g].cancelled
      /\ w.stage = waiter[g].stage /\ ~w.timer
  BY <1>1 DEF Waiter
<1>4. waiter' = [waiter EXCEPT ![g] = w] /\ Finish(g, "defaulted")
      /\ UNCHANGED <<generation, slot, connection>>
  BY DEF AnswerTimeout
<1> HIDE DEF w
<1> QED
  BY <1>1, <1>2, <1>3, <1>4, FinishKeeps DEF Causes

LEMMA CancelledKeeps ==
  ASSUME IInv, NEW g, Cancelled(g)
  PROVE  IInv'
<1> DEFINE w == [waiter[g] EXCEPT !.stage = "draining"]
<1>1. g \in Asked /\ waiter[g].stage = "waiting" /\ waiter[g].cancelled /\ waiter[g] \in Waiter
  BY DEF Cancelled, IInv, TypeOK, Asked
<1>2. /\ w \in Waiter /\ w.id = waiter[g].id /\ w.kind = waiter[g].kind
      /\ w.result = waiter[g].result /\ w.cancelled /\ w.timer = waiter[g].timer
      /\ w.stage = "draining"
  BY <1>1 DEF Waiter, Stages
<1>3. waiter' = [waiter EXCEPT ![g] = w] /\ Finish(g, "withdrawn")
      /\ UNCHANGED <<generation, slot, connection>>
  BY DEF Cancelled, AwaitResolution
<1> HIDE DEF w
<1> QED
  BY <1>1, <1>2, <1>3, FinishKeeps DEF Causes

LEMMA DropKeeps ==
  ASSUME IInv, NEW g, Drop(g)
  PROVE  IInv'
<1> DEFINE w == [waiter[g] EXCEPT !.stage = "dropped"]
<1>1. g \in Asked /\ waiter[g].stage \in {"waiting", "draining"} /\ waiter[g] \in Waiter
  BY DEF Drop, Live, IInv, TypeOK, Asked
<1>2. /\ w \in Waiter /\ w.id = waiter[g].id /\ w.kind = waiter[g].kind
      /\ w.result = waiter[g].result /\ w.cancelled = waiter[g].cancelled
      /\ w.timer = waiter[g].timer /\ w.stage = "dropped"
  BY <1>1 DEF Waiter, Stages
<1>3. waiter' = [waiter EXCEPT ![g] = w] /\ Finish(g, "withdrawn")
      /\ UNCHANGED <<generation, slot, connection>>
  BY DEF Drop, GuardDropped
<1> HIDE DEF w
<1> QED
  BY <1>1, <1>2, <1>3, FinishKeeps DEF Causes

\* The caller's cancellation is only noted; nothing is removed yet.
LEMMA CancelKeeps ==
  ASSUME IInv, NEW g, Cancel(g)
  PROVE  IInv'
<1> DEFINE w == [waiter[g] EXCEPT !.cancelled = TRUE]
           r == [cause |-> "withdrawn", by |-> NoClient]
<1>1. g \in Asked /\ waiter[g] \in Waiter /\ waiter \in [Asked -> Waiter]
  BY DEF Cancel, IInv, TypeOK, Asked
<1>2. /\ w \in Waiter /\ w.id = waiter[g].id /\ w.kind = waiter[g].kind
      /\ w.result = waiter[g].result /\ w.cancelled /\ w.timer = waiter[g].timer
      /\ w.stage = waiter[g].stage
  BY <1>1 DEF Waiter
<1>3. waiter' = [waiter EXCEPT ![g] = w] /\ UNCHANGED <<generation, pending, sending, slot, connection>>
  BY DEF Cancel
<1> HIDE DEF w
<1>4. Progressed({})
  BY <1>1, <1>2, <1>3 DEF Progressed
<1>5. r \in Resolution /\ JustCause({}, r)
  BY DEF Resolution, Causes, JustCause
<1>6. /\ pending' = [i \in Ids |-> IF i \in {} THEN NoPrompt ELSE pending[i]]
      /\ sending' = sending \cup {[gen |-> pending[i].gen, answer |-> r] : i \in {}}
      /\ connection' \in [Clients -> {"live", "leaving", "gone"}]
  BY <1>3 DEF IInv, TypeOK
<1> HIDE DEF r
<1>7. Removal({}, r)
  BY <1>3, <1>4, <1>5, <1>6 DEF Removal
<1> QED
  BY <1>7, RemovalKeeps

LEMMA NextIInv == IInv /\ [Next]_vars => IInv'
<1> SUFFICES ASSUME IInv, [Next]_vars PROVE IInv'
  OBVIOUS
<1>1. ASSUME NEW i \in Ids, NEW kind \in Kinds, Begin(i, kind) PROVE IInv'
  BY <1>1, BeginKeeps
<1>2. ASSUME NEW s \in sending, Send(s) PROVE IInv'
  BY <1>2, SendKeeps
<1>3. ASSUME NEW g \in Generations, AnswerTimeout(g) PROVE IInv'
  BY <1>3, TimeoutKeeps
<1>4. ASSUME NEW g \in Generations, Cancel(g) PROVE IInv'
  BY <1>4, CancelKeeps
<1>5. ASSUME NEW g \in Generations, Cancelled(g) PROVE IInv'
  BY <1>5, CancelledKeeps
<1>6. ASSUME NEW g \in Generations, Receive(g) PROVE IInv'
  BY <1>6, ReceiveKeeps
<1>7. ASSUME NEW g \in Generations, Drop(g) PROVE IInv'
  BY <1>7, DropKeeps
<1>8. ASSUME NEW g \in Generations, Tick(g) PROVE IInv'
  <2>1. connection' \in [Clients -> {"live", "leaving", "gone"}]
    BY <1>8 DEF Tick, IInv, TypeOK
  <2> QED
    BY <1>8, <2>1, FreedKeeps DEF Tick
<1>9. ASSUME NEW i \in Ids, NEW cl \in Clients, Claim(i, cl) PROVE IInv'
  BY <1>9, ClaimStepKeeps
<1>10. ASSUME NEW i \in Ids, NEW cl \in Clients, Reply(i, cl) \/ Resolve(i, cl) PROVE IInv'
  BY <1>10, ReplyKeeps
<1>11. ASSUME NEW S \in SUBSET Ids, NEW cl \in Clients, AnswerWhere(S, cl) PROVE IInv'
  BY <1>11, AnswerWhereKeeps
<1>12. ASSUME NEW cl \in Clients, Disconnect(cl) PROVE IInv'
  <2>1. connection' \in [Clients -> {"live", "leaving", "gone"}]
    BY <1>12 DEF Disconnect, IInv, TypeOK
  <2> QED
    BY <1>12, <2>1, FreedKeeps DEF Disconnect
<1>13. ASSUME NEW i \in Ids, Age(i) PROVE IInv'
  BY <1>13, AgeKeeps
<1>14. CASE UNCHANGED vars
  <2>1. connection' \in [Clients -> {"live", "leaving", "gone"}] /\ pending' \in [Ids -> Prompt \cup {NoPrompt}]
    BY <1>14 DEF vars, IInv, TypeOK
  <2> QED
    BY <1>14, <2>1, ClaimsKeep DEF vars
<1> QED
  BY <1>1, <1>2, <1>3, <1>4, <1>5, <1>6, <1>7, <1>8, <1>9, <1>10, <1>11, <1>12, <1>13, <1>14 DEF Next

-----------------------------------------------------------------------------
(* The theorems                                                            *)

\* The prompts of the manager, its requests and the answers on their way keep
\* their types, whatever clients, timers and cancellations do.
THEOREM TypeCorrect == Spec => []TypeOK
<1>1. IInv => TypeOK
  BY DEF IInv
<1> QED
  BY <1>1, InitIInv, NextIInv, PTL DEF Spec

\* Manager::finish and the RequestGuard: for any number of requests under any
\* ids, each prompt has exactly one resolution, belongs to a request that
\* waits for it, and its caller gets the resolution that removed it, with a
\* cause that is its own.
THEOREM SoundCorrect == Spec => []PromptsAreSound
BY InitIInv, NextIInv, SoundFromIInv, PTL DEF Spec

\* Manager::reply refuses everybody but the claimant: an answer that enters the
\* world while a claim stands comes from the client that holds it.
THEOREM ClaimCorrect == Spec => ClaimProtects
<1> DEFINE Protected ==
      \A i \in Ids : \A s \in sending' \ sending :
        pending[i].gen = s.gen /\ pending[i].claimed # NoClient /\ s.answer.cause = "answered"
          => s.answer.by = pending[i].claimed
<1>1. ASSUME IInv, Next PROVE Protected
  <2> SUFFICES ASSUME NEW i \in Ids, NEW s \in sending' \ sending, pending[i].gen = s.gen,
                      pending[i].claimed # NoClient, s.answer.cause = "answered"
               PROVE  s.answer.by = pending[i].claimed
    OBVIOUS
  <2>1. ASSUME NEW j \in Ids, NEW cl \in Clients, Reply(j, cl)
        PROVE  s.answer.by = pending[i].claimed
    <3>1. s = [gen |-> pending[j].gen, answer |-> [cause |-> "answered", by |-> cl]]
      BY <2>1 DEF Reply, Remove
    <3>2. s.gen = pending[j].gen /\ s.answer.by = cl
      BY <3>1
    <3>3. pending[j].gen # 0
      BY <2>1, <1>1, Fields DEF Reply, IInv
    <3>4. i = j
      BY <1>1, <3>2, <3>3 DEF IInv, PromptsOwned
    <3> QED
      BY <2>1, <3>2, <3>4 DEF Reply, MayAnswer
  <2>2. ASSUME NEW g, NEW cause \in {"defaulted", "withdrawn"}, Finish(g, cause) PROVE FALSE
    <3>1. s = [gen |-> pending[waiter[g].id].gen, answer |-> [cause |-> cause, by |-> NoClient]]
      BY <2>2 DEF Finish, Remove
    <3> QED
      BY <3>1
  <2>3. ASSUME NEW g \in Generations, AnswerTimeout(g) \/ Cancelled(g) \/ Drop(g) PROVE FALSE
    BY <2>2, <2>3 DEF AnswerTimeout, Cancelled, Drop, GuardDropped
  <2>4. ASSUME NEW j \in Ids, NEW cl \in Clients, Resolve(j, cl) PROVE FALSE
    <3>1. s = [gen |-> pending[j].gen, answer |-> [cause |-> "decided", by |-> cl]]
      BY <2>4 DEF Resolve, Remove
    <3> QED
      BY <3>1
  <2>5. ASSUME NEW S \in SUBSET Ids, NEW cl \in Clients, AnswerWhere(S, cl) PROVE FALSE
    <3>1. PICK j \in S : s = [gen |-> pending[j].gen, answer |-> [cause |-> "decided", by |-> cl]]
      BY <2>5 DEF AnswerWhere
    <3> QED
      BY <3>1
  <2> QED
    BY <1>1, <2>1, <2>3, <2>4, <2>5
    DEF Next, Begin, Send, Cancel, Receive, Tick, Claim, Disconnect, Age
<1>2. UNCHANGED vars => Protected
  BY DEF vars
<1>3. IInv /\ [Next]_vars => [Protected]_vars
  BY <1>1
<1> QED
  BY <1>3, InitIInv, NextIInv, PTL DEF Spec, ClaimProtects

-----------------------------------------------------------------------------
(* The invariant of the terminal                                           *)

\* The types of the terminal and of what is on its way to it.
Cards == [Prompts -> {"none", "open", "resolved"}]
ViewRecord == [seq : Nat, replayTo : Nat, from : Nat, whole : BOOLEAN, awaitFirst : BOOLEAN,
               reconciled : BOOLEAN, loading : BOOLEAN, shown : Seq(Nat), card : Cards]
Asks == {"reconcile", "pending", "subscribe"}
Methods == Asks \cup {"idle", "list", "answer", "unsubscribe"}
RequestRecord == [method : Methods, channel : Channels, gen : Nat, from : Nat, tail : Nat, of : SUBSET Prompts]
EventRecord == [kind : {"chat", "dir", "asked", "resolved"}, of : SUBSET Prompts]
NoteRecord == [is : {"event", "requested", "resolved"}, channel : Channels, seq : Nat, of : SUBSET Prompts]
ReplyRecord == [is : {"reconcile", "list", "answered", "refused", "subscribed"}, channel : Channels,
                gen : Nat, seq : Nat, of : SUBSET Prompts]

\* Note i of s is an event of channel c.
At(s, c, i) == i \in 1 .. Len(s) /\ s[i].is = "event" /\ s[i].channel = c
OnCall(ch) == call # Idle /\ call.channel = ch
\* Up to here the log of a channel that is replayed or live was sent.
Upto(ch) == IF OnCall(ch) THEN call.from - 1 ELSE Len(log[ch])

Types ==
  /\ log \in [Channels -> Seq(EventRecord)]
  /\ live \subseteq Channels /\ open \subseteq Prompts /\ news \subseteq NoteRecord
  /\ \A n \in news : n.is # "event"
  /\ call \in RequestRecord /\ requests \subseteq RequestRecord
  /\ notes \in Seq(NoteRecord) /\ replies \subseteq ReplyRecord
  /\ scope \in [channel : Channels, gen : Nat] /\ view \in ViewRecord
  /\ prompts \subseteq Prompts /\ busy \subseteq Prompts
  /\ been \subseteq Channels /\ scope.channel \in been /\ returns \in Nat
  /\ DOMAIN visited \subseteq been \ {scope.channel}
  /\ \A ch \in DOMAIN visited : visited[ch] \in ViewRecord

\* Nobody knows of an event that its log has not got; what is replayed is not live.
Known ==
  /\ view.seq <= Len(log[scope.channel])
  /\ \A ch \in DOMAIN visited : visited[ch].seq <= Len(log[ch])
  /\ \A i \in 1 .. Len(notes) : notes[i].is = "event" => notes[i].seq \in 1 .. Len(log[notes[i].channel])
  /\ \A r \in requests : r.method = "subscribe" => r.from \in 1 .. Len(log[r.channel]) + 1
  /\ call # Idle => /\ call.method = "subscribe" /\ call.channel \notin live
                    /\ call.from \in 1 .. Len(log[call.channel]) + 1

\* Between two events in the queue, and between one of them and b, none is missing:
\* the numbers may go back, and never ahead by more than one.
Steady(s, c, b) ==
  /\ \A i, j \in 1 .. Len(s) : At(s, c, i) /\ At(s, c, j) /\ i <= j =>
       \A m \in s[i].seq .. s[j].seq : \E k \in i .. j : At(s, c, k) /\ s[k].seq = m
  /\ \A i \in 1 .. Len(s) : At(s, c, i) =>
       \A m \in s[i].seq .. b : \E k \in i .. Len(s) : At(s, c, k) /\ s[k].seq = m

\* The queue goes on from n: nothing between n and one of its events is missing,
\* nor between n and b.
Joined(s, c, n, b) ==
  /\ \A m \in n + 1 .. b : \E k \in 1 .. Len(s) : At(s, c, k) /\ s[k].seq = m
  /\ \A j \in 1 .. Len(s) : At(s, c, j) =>
       \A m \in n + 1 .. s[j].seq : \E k \in 1 .. j : At(s, c, k) /\ s[k].seq = m

Ascending(s, c) ==
  \A i, j \in 1 .. Len(s) : At(s, c, i) /\ At(s, c, j) /\ i <= j => s[i].seq <= s[j].seq

\* Nothing of the channel is sent, on its way or asked for.
Quiet(ch) == ch \notin live /\ ~OnCall(ch) /\ \A i \in 1 .. Len(notes) : ~At(notes, ch, i)
Asking(ch) == {r \in requests : r.method \in Asks /\ r.channel = ch}
Answering(ch) == {r \in replies : r.is = "reconcile" /\ r.channel = ch}

\* Nobody has asked for a channel that was not in view yet, and nobody takes leave
\* of the one that is.
NewIsQuiet == \A ch \in Channels \ been : Quiet(ch) /\ Asking(ch) = {} /\ Answering(ch) = {}
LeftForGood == \A r \in requests : r.method = "unsubscribe" => r.channel \in been \ {scope.channel}
\* A log that was shown in part, or is on its way, goes on.
Followed == (view.shown # <<>> \/ \E i \in 1 .. Len(notes) : At(notes, scope.channel, i))
              => scope.channel \in live \/ OnCall(scope.channel)
\* A view of nothing has seen nothing; /history waits with an empty view.
ShownIsSeen == /\ view.shown # <<>> <=> view.seq > 0
               /\ view.awaitFirst => view.shown = <<>>
\* What is shown covers the log from the first event to the last one seen; what
\* comes goes on from there and does not go back before the first.
Covers(v) ==
  /\ \A i \in 1 .. Len(v.shown) : v.shown[i] \in v.shown[1] .. v.seq
  /\ \A m \in v.shown[1] .. v.seq : \E i \in 1 .. Len(v.shown) : v.shown[i] = m
NotBefore(n) ==
  /\ \A i \in 1 .. Len(notes) : At(notes, scope.channel, i) => n <= notes[i].seq
  /\ OnCall(scope.channel) => n <= call.from
  /\ \A r \in Asking(scope.channel) : r.method = "subscribe" => n <= r.from
Going ==
  /\ Covers(view) /\ Joined(notes, scope.channel, view.seq, Upto(scope.channel))
  /\ NotBefore(view.shown[1])
GoesOn == view.shown # <<>> => Going

\* Until the first event is shown, the log was asked for once: by a request, its
\* answer, or the replay that it began, whose events ascend.
First ==
  /\ \A q, r \in Asking(scope.channel) : q = r
  /\ \A q, r \in Answering(scope.channel) : q = r
  /\ Asking(scope.channel) = {} \/ Answering(scope.channel) = {}
  /\ ~Quiet(scope.channel) => Asking(scope.channel) = {} /\ Answering(scope.channel) = {}
  /\ Ascending(notes, scope.channel)
  /\ OnCall(scope.channel) =>
       \A i \in 1 .. Len(notes) : At(notes, scope.channel, i) => notes[i].seq < call.from
AskedOnce == view.shown = <<>> /\ ~view.awaitFirst => First

SteadyHere == Steady(notes, scope.channel, Upto(scope.channel))

\* While the person has not come back to a channel, all of this holds of the one in
\* view; of the others only what they were asked.
OneStay == NewIsQuiet /\ LeftForGood /\ Followed /\ ShownIsSeen /\ SteadyHere /\ GoesOn /\ AskedOnce
Stay == returns = 0 => OneStay
ViewInv == Types /\ Known /\ Stay

-----------------------------------------------------------------------------
(* Queues of notes                                                         *)

\* The next event of the log is appended.
LEMMA SteadyGrows ==
  ASSUME NEW s \in Seq(NoteRecord), NEW c \in Channels, NEW b \in Nat, Steady(s, c, b)
  PROVE Steady(Append(s, Event(c, b + 1)), c, b + 1)
<1> DEFINE t == Append(s, Event(c, b + 1))
<1>1. /\ Len(t) = Len(s) + 1 /\ Len(s) \in Nat
      /\ \A i \in 1 .. Len(s) : t[i] = s[i]
      /\ t[Len(s) + 1] = Event(c, b + 1) /\ At(t, c, Len(t)) /\ t[Len(t)].seq = b + 1
  BY DEF Event, At
<1>2. \A i \in 1 .. Len(s) : s[i].seq \in Nat /\ (At(t, c, i) <=> At(s, c, i))
  <2> TAKE i \in 1 .. Len(s)
  <2>1. s[i] \in NoteRecord /\ i \in 1 .. Len(t) /\ t[i] = s[i]
    BY <1>1
  <2> HIDE DEF t
  <2> QED
    BY <2>1 DEF At, NoteRecord
<1> HIDE DEF t
<1>3. ASSUME NEW i \in 1 .. Len(t), At(t, c, i), NEW m \in t[i].seq .. b + 1
      PROVE \E k \in i .. Len(t) : At(t, c, k) /\ t[k].seq = m
  <2>1. CASE m = b + 1
    BY <2>1, <1>1
  <2>2. CASE m # b + 1
    <3>1. i \in 1 .. Len(s) /\ At(s, c, i) /\ m \in s[i].seq .. b
      BY <1>3, <2>2, <1>1, <1>2
    <3>2. PICK k \in i .. Len(s) : At(s, c, k) /\ s[k].seq = m
      BY <3>1 DEF Steady
    <3> QED
      BY <3>1, <3>2, <1>1, <1>2
  <2> QED
    BY <2>1, <2>2
<1>4. ASSUME NEW i \in 1 .. Len(t), NEW j \in 1 .. Len(t), At(t, c, i), At(t, c, j), i <= j,
             NEW m \in t[i].seq .. t[j].seq
      PROVE \E k \in i .. j : At(t, c, k) /\ t[k].seq = m
  <2>1. CASE j = Len(t)
    BY <2>1, <1>1, <1>3, <1>4
  <2>2. CASE j # Len(t)
    <3>1. /\ i \in 1 .. Len(s) /\ j \in 1 .. Len(s) /\ At(s, c, i) /\ At(s, c, j)
          /\ m \in s[i].seq .. s[j].seq
      BY <1>4, <2>2, <1>1, <1>2
    <3>2. PICK k \in i .. j : At(s, c, k) /\ s[k].seq = m
      BY <3>1, <1>4 DEF Steady
    <3> QED
      BY <3>1, <3>2, <1>1, <1>2
  <2> QED
    BY <2>1, <2>2
<1>5. Steady(t, c, b + 1)
  BY <1>3, <1>4 DEF Steady
<1> QED
  BY <1>5 DEF t

\* What was appended elsewhere says nothing of this channel.
LEMMA OthersAppend ==
  ASSUME NEW s \in Seq(NoteRecord), NEW c \in Channels, NEW b \in Nat, NEW x \in NoteRecord,
         ~(x.is = "event" /\ x.channel = c)
  PROVE /\ \A i \in 1 .. Len(Append(s, x)) : At(Append(s, x), c, i) => At(s, c, i) /\ i \in 1 .. Len(s)
        /\ \A i \in 1 .. Len(s) : (At(Append(s, x), c, i) <=> At(s, c, i)) /\ Append(s, x)[i] = s[i]
        /\ Len(Append(s, x)) = Len(s) + 1 /\ Append(s, x) \in Seq(NoteRecord)
        /\ Steady(s, c, b) => Steady(Append(s, x), c, b)
        /\ \A n \in Nat : Joined(s, c, n, b) => Joined(Append(s, x), c, n, b)
<1> DEFINE t == Append(s, x)
<1>1. /\ Len(t) = Len(s) + 1 /\ Len(s) \in Nat /\ t \in Seq(NoteRecord)
      /\ \A i \in 1 .. Len(s) : t[i] = s[i]
      /\ t[Len(s) + 1] = x
  OBVIOUS
<1> HIDE DEF t
<1>2. \A i \in 1 .. Len(s) : At(t, c, i) <=> At(s, c, i)
  BY <1>1 DEF At
<1>3. \A i \in 1 .. Len(t) : At(t, c, i) => i \in 1 .. Len(s) /\ At(s, c, i)
  BY <1>1 DEF At
<1>4. ASSUME Steady(s, c, b) PROVE Steady(t, c, b)
  <2>1. ASSUME NEW i \in 1 .. Len(t), NEW j \in 1 .. Len(t), At(t, c, i), At(t, c, j), i <= j,
               NEW m \in t[i].seq .. t[j].seq
        PROVE \E k \in i .. j : At(t, c, k) /\ t[k].seq = m
    <3>1. PICK k \in i .. j : At(s, c, k) /\ s[k].seq = m
      BY <1>4, <2>1, <1>1, <1>3 DEF Steady
    <3> QED
      BY <3>1, <2>1, <1>1, <1>2, <1>3
  <2>2. ASSUME NEW i \in 1 .. Len(t), At(t, c, i), NEW m \in t[i].seq .. b
        PROVE \E k \in i .. Len(t) : At(t, c, k) /\ t[k].seq = m
    <3>1. PICK k \in i .. Len(s) : At(s, c, k) /\ s[k].seq = m
      BY <1>4, <2>2, <1>1, <1>3 DEF Steady
    <3> QED
      BY <3>1, <2>2, <1>1, <1>2, <1>3
  <2> QED
    BY <2>1, <2>2 DEF Steady
<1>5. ASSUME NEW n \in Nat, Joined(s, c, n, b) PROVE Joined(t, c, n, b)
  <2>1. ASSUME NEW m \in n + 1 .. b PROVE \E k \in 1 .. Len(t) : At(t, c, k) /\ t[k].seq = m
    BY <1>5, <2>1, <1>1, <1>2 DEF Joined
  <2>2. ASSUME NEW j \in 1 .. Len(t), At(t, c, j), NEW m \in n + 1 .. t[j].seq
        PROVE \E k \in 1 .. j : At(t, c, k) /\ t[k].seq = m
    <3>1. PICK k \in 1 .. j : At(s, c, k) /\ s[k].seq = m
      BY <1>5, <2>2, <1>1, <1>3 DEF Joined
    <3> QED
      BY <3>1, <2>2, <1>1, <1>2, <1>3
  <2> QED
    BY <2>1, <2>2 DEF Joined
<1> QED
  BY <1>1, <1>2, <1>3, <1>4, <1>5 DEF t

\* The first note is taken.
LEMMA Shift ==
  ASSUME NEW s \in Seq(NoteRecord), s # <<>>, NEW c \in Channels
  PROVE /\ Tail(s) \in Seq(NoteRecord) /\ Len(Tail(s)) = Len(s) - 1 /\ Len(s) \in Nat \ {0}
        /\ Head(s) = s[1] /\ s[1] \in NoteRecord
        /\ \A i \in 1 .. Len(Tail(s)) : /\ i + 1 \in 1 .. Len(s) /\ Tail(s)[i] = s[i + 1]
                                        /\ At(Tail(s), c, i) <=> At(s, c, i + 1)
        /\ \A i \in 2 .. Len(s) : /\ i - 1 \in 1 .. Len(Tail(s)) /\ Tail(s)[i - 1] = s[i]
                                  /\ At(Tail(s), c, i - 1) <=> At(s, c, i)
<1> DEFINE t == Tail(s)
<1>1. /\ t \in Seq(NoteRecord) /\ Len(t) = Len(s) - 1 /\ Len(s) \in Nat \ {0}
      /\ Head(s) = s[1] /\ s[1] \in NoteRecord
      /\ \A i \in 1 .. Len(t) : i + 1 \in 1 .. Len(s) /\ t[i] = s[i + 1]
  OBVIOUS
<1> HIDE DEF t
<1>2. \A i \in 2 .. Len(s) : i - 1 \in 1 .. Len(t) /\ t[i - 1] = s[i]
  <2> TAKE i \in 2 .. Len(s)
  <2>1. i - 1 \in 1 .. Len(t) /\ (i - 1) + 1 = i
    BY <1>1
  <2> QED
    BY <2>1, <1>1
<1>3. \A i \in 1 .. Len(t) : At(t, c, i) <=> At(s, c, i + 1)
  BY <1>1 DEF At
<1>4. \A i \in 2 .. Len(s) : At(t, c, i - 1) <=> At(s, c, i)
  BY <1>1, <1>2 DEF At
<1> QED
  BY <1>1, <1>2, <1>3, <1>4 DEF t

LEMMA SteadyShifts ==
  ASSUME NEW s \in Seq(NoteRecord), s # <<>>, NEW c \in Channels, NEW b \in Nat, Steady(s, c, b)
  PROVE Steady(Tail(s), c, b)
<1> DEFINE t == Tail(s)
<1>1. /\ Len(t) = Len(s) - 1 /\ Len(s) \in Nat \ {0}
      /\ \A i \in 1 .. Len(t) : i + 1 \in 1 .. Len(s) /\ t[i] = s[i + 1] /\ (At(t, c, i) <=> At(s, c, i + 1))
      /\ \A i \in 2 .. Len(s) : i - 1 \in 1 .. Len(t) /\ t[i - 1] = s[i] /\ (At(t, c, i - 1) <=> At(s, c, i))
  BY Shift
<1> HIDE DEF t
<1>2. ASSUME NEW i \in 1 .. Len(t), NEW j \in 1 .. Len(t), At(t, c, i), At(t, c, j), i <= j,
             NEW m \in t[i].seq .. t[j].seq
      PROVE \E k \in i .. j : At(t, c, k) /\ t[k].seq = m
  <2>1. /\ i + 1 \in 1 .. Len(s) /\ j + 1 \in 1 .. Len(s) /\ At(s, c, i + 1) /\ At(s, c, j + 1)
        /\ i + 1 <= j + 1 /\ m \in s[i + 1].seq .. s[j + 1].seq
    BY <1>2, <1>1
  <2>2. PICK k \in i + 1 .. j + 1 : At(s, c, k) /\ s[k].seq = m
    BY <2>1 DEF Steady
  <2>3. k \in 2 .. Len(s) /\ k - 1 \in i .. j
    BY <2>1, <2>2, <1>1
  <2> QED
    BY <2>2, <2>3, <1>1
<1>3. ASSUME NEW i \in 1 .. Len(t), At(t, c, i), NEW m \in t[i].seq .. b
      PROVE \E k \in i .. Len(t) : At(t, c, k) /\ t[k].seq = m
  <2>1. i + 1 \in 1 .. Len(s) /\ At(s, c, i + 1) /\ m \in s[i + 1].seq .. b
    BY <1>3, <1>1
  <2>2. PICK k \in i + 1 .. Len(s) : At(s, c, k) /\ s[k].seq = m
    BY <2>1 DEF Steady
  <2>3. k \in 2 .. Len(s) /\ k - 1 \in i .. Len(t)
    BY <2>1, <2>2, <1>1
  <2> QED
    BY <2>2, <2>3, <1>1
<1>4. Steady(t, c, b)
  BY <1>2, <1>3 DEF Steady
<1> QED
  BY <1>4 DEF t

\* A view that goes on shows the event that comes, and goes on from it.
LEMMA JoinedShifts ==
  ASSUME NEW s \in Seq(NoteRecord), s # <<>>, NEW c \in Channels, NEW b \in Nat, NEW n \in Nat,
         Joined(s, c, n, b)
  PROVE /\ ~At(s, c, 1) => Joined(Tail(s), c, n, b)
        /\ At(s, c, 1) => s[1].seq <= n + 1 /\ Joined(Tail(s), c, IF s[1].seq > n THEN s[1].seq ELSE n, b)
<1> DEFINE t == Tail(s)
           x == IF At(s, c, 1) /\ s[1].seq > n THEN s[1].seq ELSE n
<1>0. s[1].seq \in Nat
  <2>1. s[1] \in NoteRecord
    BY Shift
  <2> QED
    BY <2>1 DEF NoteRecord
<1>1. /\ Len(t) = Len(s) - 1 /\ Len(s) \in Nat \ {0} /\ s[1].seq \in Nat
      /\ \A i \in 1 .. Len(t) : i + 1 \in 1 .. Len(s) /\ t[i] = s[i + 1] /\ (At(t, c, i) <=> At(s, c, i + 1))
      /\ \A i \in 2 .. Len(s) : i - 1 \in 1 .. Len(t) /\ t[i - 1] = s[i] /\ (At(t, c, i - 1) <=> At(s, c, i))
  BY <1>0, Shift
<1> HIDE DEF t
<1>2. x \in Nat /\ x >= n /\ (At(s, c, 1) => s[1].seq <= x)
  BY <1>1
<1> HIDE DEF x
<1>3. ASSUME NEW m \in x + 1 .. b PROVE \E k \in 1 .. Len(t) : At(t, c, k) /\ t[k].seq = m
  <2>1. PICK k \in 1 .. Len(s) : At(s, c, k) /\ s[k].seq = m
    BY <1>3, <1>2 DEF Joined
  <2>2. k # 1
    BY <2>1, <1>2, <1>3
  <2>3. k \in 2 .. Len(s)
    BY <2>1, <2>2, <1>1
  <2> QED
    BY <2>1, <2>3, <1>1
<1>4. ASSUME NEW j \in 1 .. Len(t), At(t, c, j), NEW m \in x + 1 .. t[j].seq
      PROVE \E k \in 1 .. j : At(t, c, k) /\ t[k].seq = m
  <2>1. j + 1 \in 1 .. Len(s) /\ At(s, c, j + 1) /\ m \in n + 1 .. s[j + 1].seq
    BY <1>4, <1>1, <1>2
  <2>2. PICK k \in 1 .. j + 1 : At(s, c, k) /\ s[k].seq = m
    BY <2>1 DEF Joined
  <2>3. k # 1
    BY <2>2, <1>2, <1>4
  <2>4. k \in 2 .. Len(s) /\ k - 1 \in 1 .. j
    BY <2>1, <2>2, <2>3, <1>1
  <2> QED
    BY <2>2, <2>4, <1>1
<1>5. Joined(t, c, x, b)
  BY <1>3, <1>4 DEF Joined
<1>6. ASSUME At(s, c, 1) PROVE s[1].seq <= n + 1
  <2>1. 1 \in 1 .. Len(s)
    BY <1>1
  <2> SUFFICES ASSUME s[1].seq > n + 1 PROVE FALSE
    BY <1>1
  <2>2. PICK k \in 1 .. 1 : s[k].seq = n + 1
    BY <1>6, <2>1, <1>1 DEF Joined
  <2> QED
    BY <2>2
<1> QED
  BY <1>5, <1>6 DEF t, x

\* The first event that is shown begins a view that goes on.
LEMMA FirstShown ==
  ASSUME NEW s \in Seq(NoteRecord), s # <<>>, NEW c \in Channels, NEW b \in Nat, Steady(s, c, b), At(s, c, 1)
  PROVE Joined(Tail(s), c, s[1].seq, b)
<1> DEFINE t == Tail(s)
           x == s[1].seq
<1>0. x \in Nat /\ 1 \in 1 .. Len(s)
  <2>1. s[1] \in NoteRecord
    BY Shift
  <2> QED
    BY <2>1 DEF NoteRecord, At
<1>1. /\ Len(t) = Len(s) - 1 /\ Len(s) \in Nat \ {0} /\ x \in Nat
      /\ \A i \in 1 .. Len(t) : i + 1 \in 1 .. Len(s) /\ t[i] = s[i + 1] /\ (At(t, c, i) <=> At(s, c, i + 1))
      /\ \A i \in 2 .. Len(s) : i - 1 \in 1 .. Len(t) /\ t[i - 1] = s[i] /\ (At(t, c, i - 1) <=> At(s, c, i))
      /\ 1 \in 1 .. Len(s)
  BY <1>0, Shift
<1> HIDE DEF t
<1>3. ASSUME NEW m \in x + 1 .. b PROVE \E k \in 1 .. Len(t) : At(t, c, k) /\ t[k].seq = m
  <2>1. PICK k \in 1 .. Len(s) : At(s, c, k) /\ s[k].seq = m
    BY SMTT(30), <1>3, <1>1 DEF Steady
  <2>2. k # 1
    BY <2>1, <1>1, <1>3
  <2>3. k \in 2 .. Len(s)
    BY <2>1, <2>2, <1>1
  <2> QED
    BY <2>1, <2>3, <1>1
<1>4. ASSUME NEW j \in 1 .. Len(t), At(t, c, j), NEW m \in x + 1 .. t[j].seq
      PROVE \E k \in 1 .. j : At(t, c, k) /\ t[k].seq = m
  <2>1. j + 1 \in 1 .. Len(s) /\ 1 <= j + 1 /\ At(s, c, j + 1) /\ m \in x .. s[j + 1].seq
    BY <1>4, <1>1
  <2>2. PICK k \in 1 .. j + 1 : At(s, c, k) /\ s[k].seq = m
    BY <2>1, <1>1 DEF Steady
  <2>3. k # 1
    BY <2>2, <1>1, <1>4
  <2>4. k \in 2 .. Len(s) /\ k - 1 \in 1 .. j
    BY <2>1, <2>2, <2>3, <1>1
  <2> QED
    BY <2>2, <2>4, <1>1
<1>5. Joined(t, c, x, b)
  BY <1>3, <1>4 DEF Joined
<1> QED
  BY <1>5 DEF t, x

\* A replay that begins again promises less.
LEMMA Shrinks ==
  ASSUME NEW s, NEW c, NEW b \in Int, NEW a \in Int, a <= b
  PROVE /\ Steady(s, c, b) => Steady(s, c, a)
        /\ \A n : Joined(s, c, n, b) => Joined(s, c, n, a)
BY DEF Steady, Joined

LEMMA JoinedGrows ==
  ASSUME NEW s \in Seq(NoteRecord), NEW c \in Channels, NEW n \in Nat, NEW b \in Nat, Joined(s, c, n, b)
  PROVE Joined(Append(s, Event(c, b + 1)), c, n, b + 1)
<1> DEFINE t == Append(s, Event(c, b + 1))
<1>1. /\ Len(t) = Len(s) + 1 /\ Len(s) \in Nat
      /\ \A i \in 1 .. Len(s) : t[i] = s[i]
      /\ t[Len(s) + 1] = Event(c, b + 1) /\ At(t, c, Len(t)) /\ t[Len(t)].seq = b + 1
  BY DEF Event, At
<1>2. \A i \in 1 .. Len(s) : s[i].seq \in Nat /\ (At(t, c, i) <=> At(s, c, i))
  <2> TAKE i \in 1 .. Len(s)
  <2>1. s[i] \in NoteRecord /\ i \in 1 .. Len(t) /\ t[i] = s[i]
    BY <1>1
  <2> HIDE DEF t
  <2> QED
    BY <2>1 DEF At, NoteRecord
<1> HIDE DEF t
<1>3. ASSUME NEW m \in n + 1 .. b + 1
      PROVE \E k \in 1 .. Len(t) : At(t, c, k) /\ t[k].seq = m
  <2>1. CASE m = b + 1
    BY <2>1, <1>1
  <2>2. CASE m # b + 1
    <3>1. PICK k \in 1 .. Len(s) : At(s, c, k) /\ s[k].seq = m
      BY <1>3, <2>2 DEF Joined
    <3> QED
      BY <3>1, <1>1, <1>2
  <2> QED
    BY <2>1, <2>2
<1>4. ASSUME NEW j \in 1 .. Len(t), At(t, c, j), NEW m \in n + 1 .. t[j].seq
      PROVE \E k \in 1 .. j : At(t, c, k) /\ t[k].seq = m
  <2>1. CASE j = Len(t)
    BY <2>1, <1>1, <1>3, <1>4
  <2>2. CASE j # Len(t)
    <3>1. j \in 1 .. Len(s) /\ At(s, c, j) /\ m \in n + 1 .. s[j].seq
      BY <1>4, <2>2, <1>1, <1>2
    <3>2. PICK k \in 1 .. j : At(s, c, k) /\ s[k].seq = m
      BY <3>1 DEF Joined
    <3> QED
      BY <3>1, <3>2, <1>1, <1>2
  <2> QED
    BY <2>1, <2>2
<1>5. Joined(t, c, n, b + 1)
  BY <1>3, <1>4 DEF Joined
<1> QED
  BY <1>5 DEF t

LEMMA RequestTyped ==
  ASSUME NEW method \in Methods, NEW ch \in Channels, NEW gen \in Nat, NEW from \in Nat, NEW tail \in Nat,
         NEW of \in SUBSET Prompts
  PROVE /\ Request(method, ch, gen, from, tail, of) \in RequestRecord
        /\ Request(method, ch, gen, from, tail, of).method = method
        /\ Request(method, ch, gen, from, tail, of).channel = ch
        /\ Request(method, ch, gen, from, tail, of).from = from
BY DEF Request, RequestRecord

LEMMA IdleTyped == Idle \in RequestRecord /\ Idle.method = "idle"
BY RequestTyped, TerminalAssumption DEF Idle, Methods, Request

LEMMA UnseenTyped ==
  Unseen \in ViewRecord /\ Unseen.seq = 0 /\ Unseen.shown = <<>> /\ Unseen.awaitFirst = FALSE
BY DEF Unseen, ViewRecord, Cards

LEMMA EventTyped ==
  ASSUME NEW ch \in Channels, NEW n \in Nat
  PROVE /\ Event(ch, n) \in NoteRecord /\ Event(ch, n).is = "event"
        /\ Event(ch, n).channel = ch /\ Event(ch, n).seq = n
BY DEF Event, NoteRecord

\* Cards change nothing else of the view.
LEMMA UpsertedIs ==
  ASSUME NEW v \in ViewRecord, NEW ps
  PROVE LET w == Upserted(v, ps)
        IN w \in ViewRecord /\ w.seq = v.seq /\ w.shown = v.shown /\ w.awaitFirst = v.awaitFirst
<1> DEFINE w == Ensured(v, ps)
<1>1. w \in ViewRecord /\ w.seq = v.seq /\ w.shown = v.shown /\ w.awaitFirst = v.awaitFirst
  <2>1. [p \in Prompts |-> IF p \in ps /\ v.card[p] = "none" THEN "open" ELSE v.card[p]] \in Cards
    BY DEF ViewRecord, Cards
  <2> QED
    BY <2>1 DEF Ensured, ViewRecord
<1> QED
  BY <1>1 DEF Upserted

LEMMA AfterIs ==
  ASSUME view \in ViewRecord, NEW n \in Nat
  PROVE LET w == After(n)
        IN /\ w \in ViewRecord /\ w.seq = IF n > view.seq THEN n ELSE view.seq
           /\ w.shown = Append(view.shown, n) /\ w.awaitFirst = FALSE
<1> DEFINE u == [view EXCEPT !.awaitFirst = FALSE, !.seq = IF n > @ THEN n ELSE @,
                             !.shown = Append(@, n), !.loading = @ /\ ~LoadedBy(n)]
           e == log[scope.channel][n]
           v == CardAfter(u, e)
<1>1. /\ u \in ViewRecord /\ u.seq = (IF n > view.seq THEN n ELSE view.seq)
      /\ u.shown = Append(view.shown, n) /\ u.awaitFirst = FALSE
  <2>1. /\ view.seq \in Nat /\ view.shown \in Seq(Nat) /\ Append(view.shown, n) \in Seq(Nat)
        /\ view.loading \in BOOLEAN /\ (view.loading /\ ~LoadedBy(n)) \in BOOLEAN
    BY DEF ViewRecord
  <2> QED
    BY <2>1 DEF ViewRecord
<1> HIDE DEF u, e
<1>2. v \in ViewRecord /\ v.seq = u.seq /\ v.shown = u.shown /\ v.awaitFirst = u.awaitFirst
  <2> DEFINE f == [p \in Prompts |-> CASE p \in e.of /\ e.kind = "asked" /\ u.card[p] = "none" -> "open"
                                     [] p \in e.of /\ e.kind = "resolved" /\ u.card[p] = "open" -> "resolved"
                                     [] OTHER -> u.card[p]]
  <2>1. f \in Cards
    BY <1>1 DEF ViewRecord, Cards
  <2>2. v = [u EXCEPT !.card = f]
    BY DEF CardAfter
  <2> HIDE DEF f, v
  <2> QED
    BY <1>1, <2>1, <2>2 DEF ViewRecord
<1>3. After(n) = IF view.loading THEN Upserted(v, prompts) ELSE v
  BY DEF After, u, e
<1> HIDE DEF v
<1> QED
  BY <1>1, <1>2, <1>3, UpsertedIs

LEMMA CommitIs ==
  ASSUME Types, NEW ch \in Channels, NEW kind \in {"chat", "dir", "asked", "resolved"}, NEW of \in SUBSET Prompts,
         Commit(ch, kind, of)
  PROVE /\ log' \in [Channels -> Seq(EventRecord)] /\ Len(log[ch]) \in Nat
        /\ \A d \in Channels \ {ch} : log'[d] = log[d]
        /\ Len(log'[ch]) = Len(log[ch]) + 1
        /\ notes' = IF ch \in live THEN Append(notes, Event(ch, Len(log[ch]) + 1)) ELSE notes
        /\ Event(ch, Len(log[ch]) + 1) \in NoteRecord
        /\ notes' \in Seq(NoteRecord)
<1>1. [kind |-> kind, of |-> of] \in EventRecord
  BY DEF EventRecord
<1>2. log[ch] \in Seq(EventRecord) /\ Len(log[ch]) \in Nat
  BY DEF Types
<1>3. Append(log[ch], [kind |-> kind, of |-> of]) \in Seq(EventRecord)
  BY <1>1, <1>2
<1>4. Event(ch, Len(log[ch]) + 1) \in NoteRecord
  BY <1>2, EventTyped
<1> QED
  BY <1>2, <1>3, <1>4 DEF Types, Commit

-----------------------------------------------------------------------------
(* The types of the terminal                                               *)

CommitRest == UNCHANGED <<live, call, open, news, requests, replies, terminal, been, returns>>

LEMMA CommitTyped ==
  ASSUME Types, Known, NEW ch \in Channels, NEW kind \in {"chat", "dir", "asked", "resolved"},
         NEW of \in SUBSET Prompts, Commit(ch, kind, of), CommitRest
  PROVE Types' /\ Known'
<1>1. /\ log' \in [Channels -> Seq(EventRecord)] /\ notes' \in Seq(NoteRecord)
      /\ notes' = IF ch \in live THEN Append(notes, Event(ch, Len(log[ch]) + 1)) ELSE notes
      /\ Event(ch, Len(log[ch]) + 1) \in NoteRecord
  BY CommitIs
<1>2. /\ \A d \in Channels : Len(log[d]) \in Nat /\ Len(log'[d]) \in Nat /\ Len(log'[d]) >= Len(log[d])
      /\ Len(log'[ch]) = Len(log[ch]) + 1
  <2>1. Len(log'[ch]) = Len(log[ch]) + 1 /\ \A d \in Channels \ {ch} : log'[d] = log[d]
    BY CommitIs
  <2>2. ASSUME NEW d \in Channels PROVE log[d] \in Seq(EventRecord) /\ log'[d] \in Seq(EventRecord)
    BY <1>1 DEF Types
  <2>3. \A d \in Channels : Len(log[d]) \in Nat /\ Len(log'[d]) \in Nat
    BY <2>2
  <2> QED
    BY <2>1, <2>3
<1>3. Types'
  BY <1>1 DEF Types, CommitRest, terminal
<1>4. \A i \in 1 .. Len(notes') : notes'[i].is = "event" => notes'[i].seq \in 1 .. Len(log'[notes'[i].channel])
  <2>1. \A i \in 1 .. Len(notes) : notes[i].is = "event" => notes[i].seq \in 1 .. Len(log'[notes[i].channel])
    <3> TAKE i \in 1 .. Len(notes)
    <3>1. notes[i] \in NoteRecord
      BY DEF Types
    <3>2. notes[i].channel \in Channels /\ notes[i].seq \in Nat
      BY <3>1 DEF NoteRecord
    <3> QED
      BY <3>2, <1>2 DEF Known
  <2>2. CASE ch \notin live
    BY <2>1, <2>2, <1>1
  <2>3. CASE ch \in live
    <3>1. /\ Event(ch, Len(log[ch]) + 1).seq \in 1 .. Len(log'[ch])
          /\ Event(ch, Len(log[ch]) + 1).channel = ch
      BY <1>2, EventTyped
    <3>2. notes \in Seq(NoteRecord)
      BY DEF Types
    <3> QED
      BY <2>1, <2>3, <1>1, <3>1, <3>2
  <2> QED
    BY <2>2, <2>3
<1>5. /\ view.seq <= Len(log'[scope.channel])
      /\ \A d \in DOMAIN visited : visited[d].seq <= Len(log'[d])
  <2>1. /\ view.seq \in Nat /\ scope.channel \in Channels
        /\ \A d \in DOMAIN visited : d \in Channels /\ visited[d].seq \in Nat
    BY DEF Types, ViewRecord
  <2> QED
    BY <2>1, <1>2 DEF Known
<1>6. \A r \in requests : r.method = "subscribe" => r.from \in 1 .. Len(log'[r.channel]) + 1
  <2>1. \A r \in requests : r.channel \in Channels /\ r.from \in Nat
    BY DEF Types, RequestRecord
  <2> QED
    BY <2>1, <1>2 DEF Known
<1>7. call # Idle => /\ call.method = "subscribe" /\ call.channel \notin live
                     /\ call.from \in 1 .. Len(log'[call.channel]) + 1
  <2>1. call.channel \in Channels /\ call.from \in Nat
    BY DEF Types, RequestRecord
  <2> QED
    BY <2>1, <1>2 DEF Known
<1>8. Known'
  BY <1>4, <1>5, <1>6, <1>7 DEF Known, CommitRest, terminal
<1> QED
  BY <1>3, <1>8

\* What the types say of the view and of the queue.
LEMMA InView == Types => /\ scope.channel \in Channels /\ scope.gen \in Nat /\ view \in ViewRecord
                         /\ scope \in [channel : Channels, gen : Nat]
                         /\ view.seq \in Nat /\ view.shown \in Seq(Nat)
                         /\ \A d \in Channels : log[d] \in Seq(EventRecord) /\ Len(log[d]) \in Nat
                         /\ \A i \in 1 .. Len(notes) : /\ notes[i] \in NoteRecord /\ notes[i].channel \in Channels
                                                       /\ notes[i].seq \in Nat
<1> SUFFICES ASSUME Types PROVE InView!2
  OBVIOUS
<1>1. /\ scope \in [channel : Channels, gen : Nat] /\ view \in ViewRecord
      /\ log \in [Channels -> Seq(EventRecord)] /\ notes \in Seq(NoteRecord)
  BY DEF Types
<1>2. \A i \in 1 .. Len(notes) : notes[i] \in NoteRecord
  BY <1>1
<1>3. \A d \in Channels : log[d] \in Seq(EventRecord)
  BY <1>1
<1> QED
  BY SMTT(30), <1>1, <1>2, <1>3 DEF ViewRecord, NoteRecord

LEMMA FreshTyped == Types => Fresh \in [channel : Channels, gen : Nat] /\ Fresh.channel = scope.channel
BY InView DEF Fresh

LEMMA HappensTyped == Types /\ Known => \A ch \in Channels : Happens(ch) => Types' /\ Known'
<1> SUFFICES ASSUME Types, Known, NEW ch \in Channels, Happens(ch) PROVE Types' /\ Known'
  OBVIOUS
<1>1. CommitRest
  BY DEF Happens, CommitRest, terminal
<1>2. Commit(ch, "chat", {}) \/ Commit(ch, "dir", {})
  BY DEF Happens
<1> QED
  BY <1>1, <1>2, CommitTyped

LEMMA RecordTyped == Types /\ Known => \A p \in Prompts : Record(p) => Types' /\ Known'
<1> SUFFICES ASSUME Types, Known, NEW p \in Prompts, Record(p) PROVE Types' /\ Known'
  OBVIOUS
<1>1. CommitRest
  BY DEF Record, CommitRest, bounds, terminal
<1>2. Commit(Home, "asked", {p}) \/ Commit(Home, "resolved", {p})
  BY DEF Record
<1> QED
  BY <1>1, <1>2, CommitTyped, TerminalAssumption

LEMMA NoteTyped ==
  ASSUME NEW is \in {"requested", "resolved"}, NEW p \in Prompts
  PROVE Note(is, p) \in NoteRecord /\ Note(is, p).is # "event"
BY TerminalAssumption DEF Note, NoteRecord

\* What a prompt does, and what is said of it, touches no log.
LEMMA AskTyped == Types /\ Known => \A p \in Prompts : Ask(p) \/ Withdraw(p) => Types' /\ Known'
<1> SUFFICES ASSUME Types, Known, NEW p \in Prompts, Ask(p) \/ Withdraw(p) PROVE Types' /\ Known'
  OBVIOUS
<1>1. /\ open' \subseteq Prompts /\ news' \subseteq NoteRecord /\ \A n \in news' : n.is # "event"
      /\ UNCHANGED <<log, live, call, wire, terminal, bounds>>
  BY NoteTyped DEF Ask, Withdraw, Close, Types
<1> QED
  BY <1>1 DEF Types, Known, wire, terminal, bounds

LEMMA AnnounceTyped == Types /\ Known => \A note \in news : Announce(note) => Types' /\ Known'
<1> SUFFICES ASSUME Types, Known, NEW note \in news, Announce(note) PROVE Types' /\ Known'
  OBVIOUS
<1>1. note \in NoteRecord /\ note.is # "event" /\ notes \in Seq(NoteRecord) /\ notes' = Append(notes, note)
  BY DEF Types, Announce
<1>2. \A i \in 1 .. Len(notes') : notes'[i].is = "event" => notes'[i].seq \in 1 .. Len(log[notes'[i].channel])
  BY <1>1 DEF Known
<1>3. Types'
  BY <1>1 DEF Types, Announce, terminal, bounds
<1> QED
  BY <1>2, <1>3 DEF Known, Announce, terminal, bounds

LEMMA AnswerTyped == Types /\ Known => \A p \in Prompts : Answer(p) => Types' /\ Known'
<1> SUFFICES ASSUME Types, Known, NEW p \in Prompts, Answer(p) PROVE Types' /\ Known'
  OBVIOUS
<1> DEFINE r == Request("answer", scope.channel, scope.gen, 0, 0, {p})
<1>1. r \in RequestRecord /\ r.method = "answer"
  <2>1. scope.channel \in Channels /\ scope.gen \in Nat /\ {p} \in SUBSET Prompts /\ "answer" \in Methods
    BY InView DEF Methods
  <2> QED
    BY <2>1, RequestTyped
<1>2. requests' = requests \cup {r} /\ busy' \subseteq Prompts
  BY DEF Answer, Types
<1> HIDE DEF r
<1>3. UNCHANGED <<log, live, call, open, news, notes, replies, scope, view, visited, prompts, been, returns>>
  BY DEF Answer, daemon
<1> QED
  BY <1>1, <1>2, <1>3 DEF Types, Known

LEMMA HistoryTyped == Types /\ Known => (History => Types' /\ Known')
<1> SUFFICES ASSUME Types, Known, History PROVE Types' /\ Known'
  OBVIOUS
<1> DEFINE r == Reconcile(Fresh)
<1>1. Fresh \in [channel : Channels, gen : Nat] /\ Fresh.channel = scope.channel
  BY FreshTyped
<1>2. r \in RequestRecord /\ r.method = "reconcile"
  BY <1>1, RequestTyped DEF Methods, Asks, Reconcile
<1>3. view' \in ViewRecord /\ view'.seq = 0
  BY UnseenTyped DEF History, Types, ViewRecord
<1>4. requests' = requests \cup {r} /\ scope' = Fresh
  BY DEF History
<1>5. UNCHANGED <<log, live, call, open, news, notes, replies, visited, prompts, busy, been, returns>>
  BY DEF History, daemon
<1> HIDE DEF r
<1>6. Types'
  BY <1>1, <1>2, <1>3, <1>4, <1>5 DEF Types
<1>7. view'.seq <= Len(log'[scope'.channel])
  BY <1>1, <1>3, <1>4, <1>5 DEF Types
<1> QED
  BY <1>1, <1>2, <1>4, <1>5, <1>6, <1>7 DEF Known

LEMMA BindTyped == Types /\ Known => \A ch \in Channels : Bind(ch) => Types' /\ Known'
<1> SUFFICES ASSUME Types, Known, NEW ch \in Channels, Bind(ch) PROVE Types' /\ Known'
  OBVIOUS
<1> DEFINE taken == IF ch = scope.channel THEN view
                    ELSE IF ch \in DOMAIN visited THEN visited[ch] ELSE Unseen
           q == Reconcile(scope')
           u == Unsubscribe(scope.channel)
<1>1. taken \in ViewRecord /\ taken.seq <= Len(log[ch])
  BY UnseenTyped DEF Types, Known
<1>2. view' = [taken EXCEPT !.loading = TRUE, !.reconciled = FALSE]
  BY DEF Bind
<1> HIDE DEF taken
<1>3. view' \in ViewRecord /\ view'.seq <= Len(log[ch])
  BY <1>1, <1>2 DEF ViewRecord
<1>4. scope' = [channel |-> ch, gen |-> scope.gen + 1] /\ scope' \in [channel : Channels, gen : Nat]
  BY DEF Bind, Types
<1>5. q \in RequestRecord /\ q.method = "reconcile" /\ u \in RequestRecord /\ u.method = "unsubscribe"
  BY <1>4, RequestTyped DEF Types, Methods, Asks, Reconcile, Unsubscribe
<1>6. requests' \subseteq requests \cup {q, u}
  BY DEF Bind
<1> HIDE DEF q, u
<1>7. /\ DOMAIN Kept \subseteq been
      /\ \A d \in DOMAIN Kept : Kept[d] \in ViewRecord /\ Kept[d].seq <= Len(log[d])
  <2>1. CASE view.reconciled
    <3>2. Kept = [d \in DOMAIN visited \cup {scope.channel} |-> IF d = scope.channel THEN view ELSE visited[d]]
      BY <2>1 DEF Kept
    <3>3. DOMAIN visited \subseteq been /\ scope.channel \in been
      BY DEF Types
    <3>4. /\ view \in ViewRecord /\ view.seq <= Len(log[scope.channel])
          /\ \A d \in DOMAIN visited : visited[d] \in ViewRecord /\ visited[d].seq <= Len(log[d])
      BY DEF Types, Known
    <3> QED
      BY <3>2, <3>3, <3>4
  <2>2. CASE ~view.reconciled
    BY <2>2 DEF Kept, Types, Known
  <2> QED
    BY <2>1, <2>2
<1>8. /\ DOMAIN visited' \subseteq (been \cup {ch}) \ {ch}
      /\ \A d \in DOMAIN visited' : visited'[d] \in ViewRecord /\ visited'[d].seq <= Len(log[d])
  BY <1>7 DEF Bind, Types, Known
<1>9. /\ UNCHANGED <<log, live, call, open, news, notes, replies, prompts, busy>>
      /\ been' = been \cup {ch} /\ returns' \in Nat
  BY DEF Bind, daemon, Types
<1>10. Types'
  BY <1>3, <1>4, <1>5, <1>6, <1>8, <1>9 DEF Types
<1> QED
  BY <1>3, <1>4, <1>5, <1>6, <1>8, <1>9, <1>10 DEF Known

LEMMA RepliedTyped ==
  ASSUME Types, NEW r \in RequestRecord, NEW is \in {"reconcile", "list", "answered", "refused", "subscribed"},
         NEW seq \in Nat, NEW of \in SUBSET Prompts, Replied(is, r, seq, of)
  PROVE /\ replies' \subseteq ReplyRecord
        /\ \A q \in replies' \ replies : q.is = is /\ q.channel = r.channel
<1> DEFINE q == [is |-> is, channel |-> r.channel, gen |-> r.gen, seq |-> seq, of |-> of]
<1>1. r.channel \in Channels /\ r.gen \in Nat
  BY DEF RequestRecord
<1>2. q \in ReplyRecord /\ q.is = is /\ q.channel = r.channel
  BY <1>1 DEF ReplyRecord
<1>3. replies' = replies \cup {q} /\ replies \subseteq ReplyRecord
  BY DEF Replied, Types
<1> QED
  BY <1>2, <1>3

\* The subscribe that holds the replay lock.
LEMMA CallTyped ==
  Types /\ Known /\ call # Idle =>
    /\ call.channel \in Channels /\ call.from \in Nat /\ call.tail \in Nat
    /\ log[call.channel] \in Seq(EventRecord) /\ Len(log[call.channel]) \in Nat
    /\ call.from >= 1 /\ call.from <= Len(log[call.channel]) + 1
    /\ call.channel \notin live /\ call.method = "subscribe"
<1> SUFFICES ASSUME Types, Known, call # Idle
    PROVE  /\ call.channel \in Channels /\ call.from \in Nat /\ call.tail \in Nat
           /\ log[call.channel] \in Seq(EventRecord) /\ Len(log[call.channel]) \in Nat
           /\ call.from >= 1 /\ call.from <= Len(log[call.channel]) + 1
           /\ call.channel \notin live /\ call.method = "subscribe"
  OBVIOUS
<1>1. call \in RequestRecord
  BY DEF Types
<1>2. call.channel \in Channels /\ call.from \in Nat /\ call.tail \in Nat
  BY <1>1 DEF RequestRecord
<1> QED
  BY <1>2, InView DEF Known

LEMMA ReplayTyped == Types /\ Known => (Replay => Types' /\ Known')
<1> SUFFICES ASSUME Types, Known, Replay PROVE Types' /\ Known'
  OBVIOUS
<1> DEFINE e == Event(call.channel, call.from)
<1>1. /\ call # Idle /\ call.from <= Len(log[call.channel]) /\ notes' = Append(notes, e)
      /\ call' = [call EXCEPT !.from = call.from + 1]
      /\ UNCHANGED <<log, live, open, stage, news, requests, replies, terminal, bounds>>
  BY DEF Replay
<1>2. /\ call.channel \in Channels /\ call.from \in Nat /\ Len(log[call.channel]) \in Nat
      /\ call.from >= 1 /\ call.method = "subscribe" /\ call.channel \notin live
  BY <1>1, CallTyped
<1>3. e \in NoteRecord /\ e.channel = call.channel /\ e.seq = call.from /\ notes \in Seq(NoteRecord)
  BY <1>2, EventTyped DEF Types
<1> HIDE DEF e
<1>4. call \in RequestRecord
  BY DEF Types
<1>5. /\ call' \in RequestRecord /\ call'.method = "subscribe" /\ call'.channel = call.channel
      /\ call'.from = call.from + 1
  BY <1>1, <1>2, <1>4 DEF RequestRecord
<1>6. notes' \in Seq(NoteRecord)
  BY <1>1, <1>3
<1>7. Types'
  BY <1>1, <1>5, <1>6 DEF Types, terminal, bounds
<1>8. \A i \in 1 .. Len(notes') : notes'[i].is = "event" => notes'[i].seq \in 1 .. Len(log[notes'[i].channel])
  BY <1>1, <1>2, <1>3 DEF Known
<1>9. call'.from \in 1 .. Len(log[call'.channel]) + 1
  BY <1>1, <1>2, <1>5
<1> QED
  BY <1>1, <1>2, <1>5, <1>7, <1>8, <1>9 DEF Known, terminal, bounds

LEMMA GoLiveTyped == Types /\ Known => (GoLive => Types' /\ Known')
<1> SUFFICES ASSUME Types, Known, GoLive PROVE Types' /\ Known'
  OBVIOUS
<1>1. /\ call # Idle /\ live' = live \cup {call.channel} /\ call' = Idle
      /\ Replied("subscribed", call, call.tail, {})
      /\ UNCHANGED <<log, open, stage, news, requests, notes, terminal, bounds>>
  BY DEF GoLive
<1>2. call.channel \in Channels /\ call.tail \in Nat /\ call \in RequestRecord
  BY <1>1, CallTyped DEF Types
<1>3. replies' \subseteq ReplyRecord
  BY <1>1, <1>2, RepliedTyped
<1>4. Types'
  BY <1>1, <1>2, <1>3, IdleTyped DEF Types, terminal, bounds
<1> QED
  BY <1>1, <1>4, IdleTyped DEF Known, Idle, Request, terminal, bounds

LEMMA StartTyped == Types /\ Known => \A r \in requests : Start(r) => Types' /\ Known'
<1> SUFFICES ASSUME Types, Known, NEW r \in requests, Start(r) PROVE Types' /\ Known'
  OBVIOUS
<1> DEFINE start == Len(log[r.channel]) + 1 - r.tail
           cut == r.tail > 0 /\ r.from <= 1 /\ start > 1
<1>1. r \in RequestRecord /\ r.method = "subscribe"
  BY DEF Types, Start
<1>2. r.channel \in Channels /\ r.from \in Nat /\ r.tail \in Nat
  BY <1>1 DEF RequestRecord
<1>3. Len(log[r.channel]) \in Nat /\ r.from \in 1 .. Len(log[r.channel]) + 1
  BY <1>1, <1>2, InView DEF Known
<1>4. call' = [r EXCEPT !.from = IF cut THEN start ELSE @, !.tail = IF cut THEN start ELSE 0]
  BY DEF Start
<1>5. /\ (IF cut THEN start ELSE r.from) \in 1 .. Len(log[r.channel]) + 1
      /\ (IF cut THEN start ELSE 0) \in Nat
  BY SMTT(30), <1>2, <1>3
<1> HIDE DEF start, cut
<1>6. /\ call' \in RequestRecord /\ call'.method = "subscribe" /\ call'.channel = r.channel
      /\ call'.from \in 1 .. Len(log[r.channel]) + 1
  BY <1>1, <1>3, <1>4, <1>5 DEF RequestRecord
<1>7. /\ live' = live \ {r.channel} /\ requests' = requests \ {r}
      /\ UNCHANGED <<log, open, stage, news, notes, replies, terminal, bounds>>
  BY DEF Start, Served
<1>8. Types'
  BY <1>6, <1>7 DEF Types, terminal, bounds
<1> QED
  BY <1>6, <1>7, <1>8 DEF Known, terminal, bounds

\* The other requests.
LEMMA ServeTyped ==
  Types /\ Known => \A r \in requests :
    ServeReconcile(r) \/ ServePending(r) \/ ServeList(r) \/ ServeAnswer(r) \/ ServeUnsubscribe(r)
      => Types' /\ Known'
<1> SUFFICES ASSUME Types, Known, NEW r \in requests,
                    ServeReconcile(r) \/ ServePending(r) \/ ServeList(r) \/ ServeAnswer(r) \/ ServeUnsubscribe(r)
             PROVE Types' /\ Known'
  OBVIOUS
<1>0. r \in RequestRecord /\ r.channel \in Channels /\ r.gen \in Nat /\ r.from \in Nat /\ r.of \subseteq Prompts
  BY DEF Types, RequestRecord
<1>1. CASE ServeReconcile(r)
  <2> DEFINE q == Request("pending", r.channel, r.gen, Len(log[r.channel]), 0, {})
  <2>1. q \in RequestRecord /\ q.method = "pending"
    <3>1. /\ Len(log[r.channel]) \in Nat /\ r.channel \in Channels /\ r.gen \in Nat
          /\ {} \in SUBSET Prompts /\ "pending" \in Methods
      BY <1>0, InView DEF Methods, Asks
    <3>2. \A m \in Methods, ch \in Channels, g, f, n \in Nat, of \in SUBSET Prompts :
            /\ Request(m, ch, g, f, n, of) \in RequestRecord
            /\ Request(m, ch, g, f, n, of).method = m
      BY RequestTyped
    <3>3. 0 \in Nat
      OBVIOUS
    <3> QED
      BY <3>1, <3>2, <3>3
  <2>2. requests' = (requests \ {r}) \cup {q} /\ UNCHANGED <<daemon, notes, replies, terminal, bounds>>
    BY <1>1 DEF ServeReconcile
  <2> HIDE DEF q
  <2> QED
    BY <2>1, <2>2 DEF Types, Known, daemon, terminal, bounds
<1>2. CASE ServePending(r) \/ ServeList(r)
  <2>1. replies' \subseteq ReplyRecord
    BY <1>0, <1>2, RepliedTyped DEF ServePending, ServeList, Types
  <2>2. requests' \subseteq requests /\ UNCHANGED <<daemon, notes, terminal, bounds>>
    BY <1>2 DEF ServePending, ServeList, Served
  <2> QED
    BY <2>1, <2>2 DEF Types, Known, daemon, terminal, bounds
<1>3. CASE ServeAnswer(r)
  <2>1. PICK p \in r.of : IF p \in open THEN Close(p) /\ Replied("answered", r, 0, r.of)
                          ELSE Replied("refused", r, 0, r.of) /\ UNCHANGED <<open, news>>
    BY <1>3 DEF ServeAnswer
  <2>2. replies' \subseteq ReplyRecord
    BY <1>0, <2>1, RepliedTyped
  <2>3. open' \subseteq Prompts /\ news' \subseteq NoteRecord /\ \A n \in news' : n.is # "event"
    BY <1>0, <2>1, NoteTyped DEF Close, Types
  <2>4. requests' \subseteq requests /\ UNCHANGED <<log, live, call, notes, terminal, bounds>>
    BY <1>3 DEF ServeAnswer, Served
  <2> QED
    BY <2>2, <2>3, <2>4 DEF Types, Known, terminal, bounds
<1>4. CASE ServeUnsubscribe(r)
  <2>1. /\ requests' \subseteq requests /\ live' \subseteq live
        /\ UNCHANGED <<log, call, open, stage, news, notes, replies, terminal, bounds>>
    BY <1>4 DEF ServeUnsubscribe, Served
  <2> QED
    BY <2>1 DEF Types, Known, terminal, bounds
<1> QED
  BY <1>1, <1>2, <1>3, <1>4

LEMMA NotificationTyped == Types /\ Known => (Notification => Types' /\ Known')
<1> SUFFICES ASSUME Types, Known, Notification PROVE Types' /\ Known'
  OBVIOUS
<1> DEFINE note == Head(notes)
<1>1. /\ notes # <<>> /\ notes' = Tail(notes) /\ (ApplyEvent(note) \/ ApplyPrompt(note))
      /\ UNCHANGED <<daemon, replies, bounds>>
  BY DEF Notification
<1>2. notes \in Seq(NoteRecord) /\ scope.channel \in Channels
  BY InView DEF Types
<1>3. /\ notes' \in Seq(NoteRecord) /\ note = notes[1] /\ note \in NoteRecord /\ 1 \in 1 .. Len(notes)
      /\ \A i \in 1 .. Len(notes') : i + 1 \in 1 .. Len(notes) /\ notes'[i] = notes[i + 1]
  BY <1>1, <1>2
<1> HIDE DEF note
<1>4. \A i \in 1 .. Len(notes') : notes'[i].is = "event" => notes'[i].seq \in 1 .. Len(log[notes'[i].channel])
  BY <1>3 DEF Known
<1>5. note.seq \in Nat /\ note.of \subseteq Prompts
  BY <1>3 DEF NoteRecord
<1>6. CASE ApplyEvent(note) /\ (Foreign(note) \/ Early(note))
  <2>1. UNCHANGED <<scope, view, requests, visited, prompts, busy>>
    BY <1>6 DEF ApplyEvent
  <2> QED
    BY <2>1, <1>1, <1>3, <1>4 DEF Types, Known, daemon, bounds
<1>7. CASE ApplyEvent(note) /\ ~(Foreign(note) \/ Early(note))
  <2>1. /\ view' = After(note.seq) /\ note.is = "event" /\ note.channel = scope.channel
        /\ UNCHANGED <<visited, prompts, busy>>
    BY <1>7 DEF ApplyEvent, Foreign
  <2>2. note.seq \in 1 .. Len(log[scope.channel])
    BY <2>1, <1>3 DEF Known
  <2>3. view' \in ViewRecord /\ view'.seq <= Len(log[scope.channel])
    <3>1. view' \in ViewRecord /\ view'.seq = IF note.seq > view.seq THEN note.seq ELSE view.seq
      BY <2>1, <1>5, AfterIs, InView
    <3>2. view.seq <= Len(log[scope.channel])
      BY DEF Known
    <3> QED
      BY <2>2, <3>1, <3>2
  <2>4. /\ scope' \in [channel : Channels, gen : Nat] /\ scope'.channel = scope.channel
        /\ requests' \subseteq requests \cup {Reconcile(Fresh)}
    BY <1>7, FreshTyped, InView DEF ApplyEvent
  <2>5. Reconcile(Fresh) \in RequestRecord /\ Reconcile(Fresh).method = "reconcile"
    BY FreshTyped, RequestTyped DEF Reconcile, Methods, Asks
  <2>6. Types'
    BY <2>1, <2>3, <2>4, <2>5, <1>1, <1>3 DEF Types, daemon, bounds
  <2> QED
    BY <2>1, <2>3, <2>4, <2>5, <2>6, <1>1, <1>4 DEF Known, daemon, bounds
<1>8. CASE ApplyPrompt(note)
  <2>1. /\ prompts' \subseteq Prompts /\ busy' \subseteq Prompts /\ UNCHANGED <<scope, visited, requests>>
    BY <1>8, <1>5 DEF ApplyPrompt, Types
  <2>2. view' \in ViewRecord /\ view'.seq = view.seq
    BY <1>8, UpsertedIs, InView DEF ApplyPrompt
  <2>3. Types'
    BY <2>1, <2>2, <1>1, <1>3 DEF Types, daemon, bounds
  <2> QED
    BY <2>1, <2>2, <2>3, <1>1, <1>4 DEF Known, daemon, bounds
<1> QED
  BY <1>1, <1>6, <1>7, <1>8

\* on_reconcile keeps what is shown and asks for the rest.
LEMMA ReconcileIs ==
  ASSUME Types, NEW r \in replies, ApplyReconcile(r)
  PROVE /\ view' \in ViewRecord /\ view'.seq = view.seq /\ view'.shown = view.shown
        /\ view'.awaitFirst = view.awaitFirst /\ prompts' \subseteq Prompts
        /\ \/ requests' = requests /\ ~Current(r)
           \/ requests' = requests \cup {Reconcile(scope)} /\ Current(r)
           \/ \E tail \in Nat : /\ Current(r)
                                /\ requests' = requests \cup {Request("subscribe", scope.channel, scope.gen,
                                                                  view.seq + 1, tail, {})}
        /\ UNCHANGED <<scope, visited, busy>>
<1>1. r \in ReplyRecord /\ r.seq \in Nat /\ r.of \subseteq Prompts
  BY DEF Types, ReplyRecord
<1>2. view \in ViewRecord /\ prompts \subseteq Prompts /\ UNCHANGED <<scope, visited, busy>>
  BY DEF Types, ApplyReconcile
<1>3. CASE ~Current(r)
  BY <1>2, <1>3 DEF ApplyReconcile
<1>4. CASE Current(r) /\ Behind(r)
  BY <1>2, <1>4 DEF ApplyReconcile
<1>5. CASE Current(r) /\ ~Behind(r)
  <2> DEFINE w == Upserted(view, r.of)
             v == [w EXCEPT !.reconciled = TRUE, !.replayTo = r.seq, !.loading = r.seq > view.seq]
             tail == IF view.whole \/ view.seq > 0 THEN 0 ELSE FirstLook
  <2>1. /\ view' = Upserted(v, prompts') /\ prompts' = prompts \cup r.of
        /\ requests' = requests \cup {Request("subscribe", scope.channel, scope.gen, view.seq + 1, tail, {})}
    BY <1>5 DEF ApplyReconcile
  <2>2. w \in ViewRecord /\ w.seq = view.seq /\ w.shown = view.shown /\ w.awaitFirst = view.awaitFirst
    BY <1>2, UpsertedIs
  <2> HIDE DEF w
  <2>3. v \in ViewRecord /\ v.seq = w.seq /\ v.shown = w.shown /\ v.awaitFirst = w.awaitFirst
    <3>1. (r.seq > view.seq) \in BOOLEAN
      OBVIOUS
    <3> QED
      BY <3>1, <1>1, <2>2 DEF ViewRecord
  <2> HIDE DEF v
  <2>4. /\ view' \in ViewRecord /\ view'.seq = v.seq /\ view'.shown = v.shown
        /\ view'.awaitFirst = v.awaitFirst
    BY <2>1, <2>3, UpsertedIs
  <2>5. tail \in Nat
    BY TerminalAssumption
  <2> HIDE DEF tail
  <2> QED
    BY <1>1, <1>2, <1>5, <2>1, <2>2, <2>3, <2>4, <2>5
<1> QED
  BY <1>3, <1>4, <1>5

\* The replies that say nothing of the log.
LEMMA OtherReplies ==
  ASSUME Types, NEW r \in replies, ApplySubscribed(r) \/ ApplyList(r) \/ ApplyAnswer(r)
  PROVE /\ view' \in ViewRecord /\ view'.seq = view.seq /\ view'.shown = view.shown
        /\ view'.awaitFirst = view.awaitFirst /\ prompts' \subseteq Prompts /\ busy' \subseteq Prompts
        /\ UNCHANGED <<scope, visited, requests>>
<1>1. r \in ReplyRecord /\ r.seq \in Nat /\ r.of \subseteq Prompts
  BY DEF Types, ReplyRecord
<1>2. view \in ViewRecord /\ prompts \subseteq Prompts /\ busy \subseteq Prompts
  BY DEF Types
<1>3. CASE ApplySubscribed(r)
  BY <1>1, <1>2, <1>3 DEF ApplySubscribed, ViewRecord
<1>4. CASE ApplyList(r)
  BY <1>1, <1>2, <1>4, UpsertedIs DEF ApplyList
<1>5. CASE ApplyAnswer(r)
  BY <1>1, <1>2, <1>5 DEF ApplyAnswer
<1> QED
  BY <1>3, <1>4, <1>5

LEMMA ReplyTyped == Types /\ Known => \A r \in replies : HandleReply(r) => Types' /\ Known'
<1> SUFFICES ASSUME Types, Known, NEW r \in replies, HandleReply(r) PROVE Types' /\ Known'
  OBVIOUS
<1>1. /\ replies' \subseteq replies /\ UNCHANGED <<daemon, notes, bounds>>
      /\ ApplyReconcile(r) \/ ApplySubscribed(r) \/ ApplyList(r) \/ ApplyAnswer(r)
  BY DEF HandleReply
<1>2. CASE ApplyReconcile(r)
  <2>1. /\ view' \in ViewRecord /\ view'.seq = view.seq /\ prompts' \subseteq Prompts
        /\ UNCHANGED <<scope, visited, busy>>
    BY <1>2, ReconcileIs
  <2>2. PICK q : /\ requests' \subseteq requests \cup {q} /\ q \in RequestRecord
                 /\ q.method = "subscribe" => q.from = view.seq + 1 /\ q.channel = scope.channel
    <3>1. /\ Reconcile(scope) \in RequestRecord /\ Reconcile(scope).method = "reconcile"
          /\ \A tail \in Nat : LET q == Request("subscribe", scope.channel, scope.gen, view.seq + 1, tail, {})
                              IN q \in RequestRecord /\ q.from = view.seq + 1 /\ q.channel = scope.channel
      <4>1. /\ scope.channel \in Channels /\ scope.gen \in Nat /\ view.seq + 1 \in Nat
            /\ {} \in SUBSET Prompts /\ "reconcile" \in Methods /\ "subscribe" \in Methods
        BY InView DEF Methods, Asks
      <4> QED
        BY <4>1, RequestTyped DEF Reconcile
    <3> QED
      BY <1>2, <3>1, ReconcileIs
  <2>3. view.seq + 1 \in 1 .. Len(log[scope.channel]) + 1
    BY InView DEF Known
  <2>4. Types'
    BY <2>1, <2>2, <1>1 DEF Types, daemon, bounds
  <2> QED
    BY <2>1, <2>2, <2>3, <2>4, <1>1 DEF Known, daemon, bounds
<1>3. CASE ApplySubscribed(r) \/ ApplyList(r) \/ ApplyAnswer(r)
  <2>1. /\ view' \in ViewRecord /\ view'.seq = view.seq /\ prompts' \subseteq Prompts /\ busy' \subseteq Prompts
        /\ UNCHANGED <<scope, visited, requests>>
    BY <1>3, OtherReplies
  <2> QED
    BY <2>1, <1>1 DEF Types, Known, daemon, bounds
<1> QED
  BY <1>1, <1>2, <1>3

-----------------------------------------------------------------------------
(* One stay in a channel                                                   *)

\* What happens elsewhere: the events on their way to the view may lose their
\* first, and nothing else changes for it.
Fewer(s, t, c) ==
  /\ \A i \in 1 .. Len(t) : At(t, c, i) => \E k \in 1 .. Len(s) : At(s, c, k) /\ s[k].seq = t[i].seq
  /\ Ascending(s, c) => Ascending(t, c)

Elsewhere ==
  /\ scope'.channel = scope.channel
  /\ view'.seq = view.seq /\ view'.shown = view.shown /\ view'.awaitFirst = view.awaitFirst
  /\ Upto(scope.channel)' = Upto(scope.channel)
  /\ (scope.channel \in live \/ OnCall(scope.channel))' <=> scope.channel \in live \/ OnCall(scope.channel)
  /\ OnCall(scope.channel)' => OnCall(scope.channel) /\ call'.from = call.from
  /\ Fewer(notes, notes', scope.channel)
  /\ Steady(notes', scope.channel, Upto(scope.channel))
  /\ view.shown # <<>> => Joined(notes', scope.channel, view.seq, Upto(scope.channel))
  /\ \A r \in requests' \ requests : ~(r.method \in Asks /\ r.channel = scope.channel)
  /\ \A q \in replies' \ replies : ~(q.is = "reconcile" /\ q.channel = scope.channel)

LEMMA StaysElsewhere ==
  ASSUME Types, OneStay, Elsewhere
  PROVE Followed' /\ ShownIsSeen' /\ SteadyHere' /\ GoesOn' /\ AskedOnce'
<1> DEFINE c == scope.channel
<1>1. /\ scope'.channel = c /\ Upto(c)' = Upto(c)
      /\ view'.seq = view.seq /\ view'.shown = view.shown /\ view'.awaitFirst = view.awaitFirst
      /\ (c \in live \/ OnCall(c))' <=> c \in live \/ OnCall(c)
      /\ OnCall(c)' => OnCall(c) /\ call'.from = call.from
  BY DEF Elsewhere
<1>2. \A i \in 1 .. Len(notes') : At(notes', c, i) => \E k \in 1 .. Len(notes) : At(notes, c, k) /\ notes[k].seq = notes'[i].seq
  BY DEF Elsewhere, Fewer
<1>3. Asking(c)' \subseteq Asking(c) /\ Answering(c)' \subseteq Answering(c)
  BY DEF Elsewhere, Asking, Answering
<1>4. Followed'
  BY <1>1, <1>2 DEF Followed, OneStay, Elsewhere
<1>5. ShownIsSeen'
  BY <1>1 DEF ShownIsSeen, OneStay
<1>6. SteadyHere'
  BY <1>1 DEF SteadyHere, Elsewhere
<1>7. ASSUME view'.shown # <<>> PROVE Going'
  <2>1. Covers(view)' /\ NotBefore(view.shown[1])
    BY <1>1, <1>7 DEF OneStay, GoesOn, Going, Covers
  <2>2. NotBefore(view.shown[1])'
    BY <2>1, <1>1, <1>2, <1>3 DEF NotBefore, Elsewhere
  <2>3. Joined(notes', c, view.seq, Upto(c))
    BY <1>1, <1>7 DEF Elsewhere
  <2> QED
    BY <2>1, <2>2, <2>3, <1>1 DEF Going
<1>8. Quiet(c) => Quiet(c)'
  BY <1>1, <1>2 DEF Quiet, Elsewhere
<1>9. ASSUME view'.shown = <<>>, ~view'.awaitFirst PROVE First'
  <2>1. First
    BY <1>1, <1>9 DEF OneStay, AskedOnce
  <2>2. Ascending(notes', c)
    BY <2>1 DEF Elsewhere, Fewer, First
  <2>3. OnCall(c)' => \A i \in 1 .. Len(notes') : At(notes', c, i) => notes'[i].seq < call'.from
    BY <2>1, <1>1, <1>2 DEF Elsewhere, First
  <2> QED
    BY <2>1, <2>2, <2>3, <1>1, <1>3, <1>8 DEF First
<1> QED
  BY <1>4, <1>5, <1>6, <1>7, <1>9 DEF GoesOn, AskedOnce

LEMMA FewerSame == ASSUME NEW s, NEW c PROVE Fewer(s, s, c)
BY DEF Fewer

LEMMA FewerAppended ==
  ASSUME NEW s \in Seq(NoteRecord), NEW c \in Channels, NEW x \in NoteRecord, ~(x.is = "event" /\ x.channel = c)
  PROVE Fewer(s, Append(s, x), c)
<1>1. /\ \A i \in 1 .. Len(Append(s, x)) : At(Append(s, x), c, i) => At(s, c, i) /\ i \in 1 .. Len(s)
      /\ \A i \in 1 .. Len(s) : (At(Append(s, x), c, i) <=> At(s, c, i)) /\ Append(s, x)[i] = s[i]
  BY OthersAppend, 0 \in Nat
<1> DEFINE t == Append(s, x)
<1> HIDE DEF t
<1>2. /\ \A i \in 1 .. Len(t) : At(t, c, i) => At(s, c, i) /\ i \in 1 .. Len(s) /\ t[i] = s[i]
  BY <1>1 DEF t
<1>3. Fewer(s, t, c)
  BY <1>2 DEF Fewer, Ascending
<1> QED
  BY <1>3 DEF t

LEMMA FewerTaken ==
  ASSUME NEW s \in Seq(NoteRecord), s # <<>>, NEW c \in Channels
  PROVE Fewer(s, Tail(s), c)
<1> DEFINE t == Tail(s)
<1>1. /\ Len(t) = Len(s) - 1 /\ Len(s) \in Nat \ {0}
      /\ \A i \in 1 .. Len(t) : i + 1 \in 1 .. Len(s) /\ t[i] = s[i + 1] /\ (At(t, c, i) <=> At(s, c, i + 1))
  BY Shift
<1> HIDE DEF t
<1>2. Ascending(s, c) => Ascending(t, c)
  <2> SUFFICES ASSUME Ascending(s, c), NEW i \in 1 .. Len(t), NEW j \in 1 .. Len(t), At(t, c, i), At(t, c, j), i <= j
               PROVE t[i].seq <= t[j].seq
    BY DEF Ascending
  <2>1. i + 1 \in 1 .. Len(s) /\ j + 1 \in 1 .. Len(s) /\ i + 1 <= j + 1
    BY <1>1
  <2> QED
    BY <2>1, <1>1 DEF Ascending
<1>3. Fewer(s, t, c)
  BY <1>1, <1>2 DEF Fewer
<1> QED
  BY <1>3 DEF t

\* Neither the log nor what is asked of it changes.
LEMMA Unmoved ==
  ASSUME Types, OneStay, UNCHANGED <<log, live, call, notes, been>>, scope'.channel = scope.channel,
         view'.seq = view.seq, view'.shown = view.shown, view'.awaitFirst = view.awaitFirst,
         \A r \in requests' \ requests : r.method \in {"list", "answer"},
         \A q \in replies' \ replies : q.is # "reconcile"
  PROVE OneStay'
<1>1. Elsewhere
  <2>1. Fewer(notes, notes', scope.channel)
    BY FewerSame
  <2>2. \A r \in requests' \ requests : r.method \notin Asks
    BY DEF Asks
  <2>3. (OnCall(scope.channel)' <=> OnCall(scope.channel)) /\ Upto(scope.channel)' = Upto(scope.channel)
    BY DEF OnCall, Upto
  <2> QED
    BY <2>1, <2>2, <2>3 DEF Elsewhere, OneStay, SteadyHere, GoesOn, Going
<1>2. NewIsQuiet'
  <2>1. \A d \in Channels : Asking(d)' \subseteq Asking(d) /\ Answering(d)' \subseteq Answering(d)
    BY DEF Asking, Answering, Asks
  <2> QED
    BY <2>1 DEF OneStay, NewIsQuiet, Quiet, OnCall
<1>3. LeftForGood'
  BY DEF OneStay, LeftForGood
<1> QED
  BY <1>1, <1>2, <1>3, StaysElsewhere DEF OneStay

LEMMA AskStays == Types /\ OneStay => \A p \in Prompts : Ask(p) \/ Withdraw(p) \/ Answer(p) => OneStay'
<1> SUFFICES ASSUME Types, OneStay, NEW p \in Prompts, Ask(p) \/ Withdraw(p) \/ Answer(p) PROVE OneStay'
  OBVIOUS
<1>1. /\ UNCHANGED <<log, live, call, notes, been, scope, view, replies>>
      /\ \A r \in requests' \ requests : r.method = "answer"
  BY DEF Ask, Withdraw, Answer, Request, wire, terminal, bounds, daemon
<1> QED
  BY <1>1, Unmoved

LEMMA ServeListStays == Types /\ OneStay => \A r \in requests : ServeList(r) \/ ServeAnswer(r) => OneStay'
<1> SUFFICES ASSUME Types, OneStay, NEW r \in requests, ServeList(r) \/ ServeAnswer(r) PROVE OneStay'
  OBVIOUS
<1>1. UNCHANGED <<log, live, call, notes, been, scope, view>> /\ requests' = requests \ {r}
  BY DEF ServeList, ServeAnswer, Served, terminal, bounds, daemon
<1>2. \A q \in replies' \ replies : q.is # "reconcile"
  BY DEF ServeList, ServeAnswer, Replied
<1> QED
  BY <1>1, <1>2, Unmoved

LEMMA OtherReplyStays ==
  ASSUME Types, OneStay, NEW r \in replies, HandleReply(r),
         ApplySubscribed(r) \/ ApplyList(r) \/ ApplyAnswer(r) \/ (ApplyReconcile(r) /\ ~Current(r))
  PROVE OneStay'
<1>1. UNCHANGED <<log, live, call, notes, been>> /\ replies' \subseteq replies
  BY DEF HandleReply, daemon, bounds
<1>2. /\ view'.seq = view.seq /\ view'.shown = view.shown /\ view'.awaitFirst = view.awaitFirst
      /\ UNCHANGED <<scope, requests>>
  BY OtherReplies DEF ApplyReconcile
<1> QED
  BY <1>1, <1>2, Unmoved

LEMMA AnnounceStays == Types /\ Known /\ OneStay => \A note \in news : Announce(note) => OneStay'
<1> SUFFICES ASSUME Types, Known, OneStay, NEW note \in news, Announce(note) PROVE OneStay'
  OBVIOUS
<1>1. /\ note \in NoteRecord /\ note.is # "event" /\ notes \in Seq(NoteRecord) /\ notes' = Append(notes, note)
      /\ UNCHANGED <<log, live, call, requests, replies, scope, view, been>>
  BY DEF Types, Announce, terminal, bounds
<1>2. scope.channel \in Channels /\ view.seq \in Nat
  BY InView
<1>3. Upto(scope.channel) \in Nat
  BY <1>2, InView, CallTyped DEF Upto, OnCall
<1>4. /\ Steady(notes', scope.channel, Upto(scope.channel))
      /\ view.shown # <<>> => Joined(notes', scope.channel, view.seq, Upto(scope.channel))
      /\ Fewer(notes, notes', scope.channel)
  BY <1>1, <1>2, <1>3, OthersAppend, FewerAppended DEF OneStay, SteadyHere, GoesOn, Going
<1>5. Elsewhere
  BY <1>1, <1>4 DEF Elsewhere, OnCall, Upto
<1>6. NewIsQuiet'
  <2>1. \A d \in Channels : \A i \in 1 .. Len(notes') : At(notes', d, i) => At(notes, d, i) /\ i \in 1 .. Len(notes)
    BY <1>1, OthersAppend, 0 \in Nat
  <2>2. \A d \in Channels : Quiet(d) => Quiet(d)'
    BY <1>1, <2>1 DEF Quiet, OnCall
  <2> QED
    BY <1>1, <2>2 DEF OneStay, NewIsQuiet, Asking, Answering
<1>7. LeftForGood'
  BY <1>1 DEF OneStay, LeftForGood
<1> QED
  BY <1>5, <1>6, <1>7, StaysElsewhere DEF OneStay

LEMMA UptoIs ==
  ASSUME Types, Known
  PROVE /\ Upto(scope.channel) \in Nat /\ Upto(scope.channel) <= Len(log[scope.channel])
        /\ OnCall(scope.channel) => Upto(scope.channel) = call.from - 1 /\ call.from \in Nat
        /\ ~OnCall(scope.channel) => Upto(scope.channel) = Len(log[scope.channel])
BY InView, CallTyped DEF Upto, OnCall

\* An event that was appended to the queue for the view.
LEMMA GoingOn ==
  ASSUME Types, Known, OneStay, scope' = scope, view' = view, requests' = requests, replies' = replies,
         scope.channel \in live \/ OnCall(scope.channel),
         notes' = Append(notes, Event(scope.channel, Upto(scope.channel) + 1)),
         Upto(scope.channel)' = Upto(scope.channel) + 1,
         OnCall(scope.channel)' <=> OnCall(scope.channel), scope.channel \in live' <=> scope.channel \in live,
         OnCall(scope.channel) => call'.from = Upto(scope.channel) + 2
  PROVE Followed' /\ ShownIsSeen' /\ SteadyHere' /\ GoesOn' /\ AskedOnce'
<1> DEFINE c == scope.channel
           b == Upto(scope.channel)
           e == Event(c, b + 1)
<1>1. /\ c \in Channels /\ view.seq \in Nat /\ notes \in Seq(NoteRecord) /\ Len(log[c]) \in Nat
      /\ view.shown \in Seq(Nat)
  BY InView DEF Types
<1>2. b \in Nat /\ b <= Len(log[c]) /\ (OnCall(c) => b = call.from - 1 /\ call.from \in Nat)
      /\ (~OnCall(c) => b = Len(log[c]))
  BY UptoIs
<1>3. e \in NoteRecord /\ e.is = "event" /\ e.channel = c /\ e.seq = b + 1
  BY <1>1, <1>2, EventTyped
<1>4. /\ Steady(notes', c, b + 1)
      /\ view.shown # <<>> => Joined(notes', c, view.seq, b + 1)
  BY <1>1, <1>2, SteadyGrows, JoinedGrows DEF OneStay, SteadyHere, GoesOn, Going
<1> HIDE DEF e, b
<1>5. /\ Len(notes') = Len(notes) + 1 /\ Len(notes) \in Nat
      /\ \A i \in 1 .. Len(notes) : notes'[i] = notes[i]
      /\ notes'[Len(notes) + 1] = e
  BY <1>1, <1>3 DEF e, b
<1>6. /\ \A i \in 1 .. Len(notes) : At(notes', c, i) <=> At(notes, c, i)
      /\ \A i \in 1 .. Len(notes') : i \in 1 .. Len(notes) \/ (i = Len(notes) + 1 /\ notes'[i].seq = b + 1)
  BY <1>3, <1>5 DEF At
<1>7. Followed'
  BY DEF Followed, OneStay
<1>8. ShownIsSeen'
  BY DEF ShownIsSeen, OneStay
<1>9. SteadyHere'
  BY <1>4 DEF SteadyHere, b
<1>10. ASSUME view.shown # <<>> PROVE Going'
  <2>1. Covers(view) /\ NotBefore(view.shown[1]) /\ ShownIsSeen
    BY <1>10 DEF OneStay, GoesOn, Going
  <2>2. 1 \in 1 .. Len(view.shown) /\ view.shown[1] \in Nat
    BY <1>1, <1>10
  <2>3. view.shown[1] <= view.seq /\ view.seq <= Len(log[c])
    BY <2>1, <2>2, <1>1 DEF Covers, Known
  <2>4. view.shown[1] <= b + 1
    BY SMTT(30), <2>1, <2>2, <2>3, <1>1, <1>2 DEF NotBefore
  <2>5. NotBefore(view.shown[1])'
    <3>1. \A i \in 1 .. Len(notes') : At(notes', c, i) => view.shown[1] <= notes'[i].seq
      BY <2>1, <2>4, <1>5, <1>6 DEF NotBefore
    <3>2. OnCall(c) => view.shown[1] <= call'.from
      BY <2>2, <2>4, <1>2 DEF b
    <3> QED
      BY <2>1, <3>1, <3>2 DEF NotBefore, Asking
  <2> QED
    BY <2>1, <2>5, <1>4, <1>10 DEF Going, Covers, b
<1>11. ASSUME view.shown = <<>>, ~view.awaitFirst PROVE First'
  <2>1. First
    BY <1>11 DEF OneStay, AskedOnce
  <2>2. Asking(c) = {} /\ Answering(c) = {} /\ Asking(c)' = Asking(c) /\ Answering(c)' = Answering(c)
    BY <2>1 DEF First, Quiet, Asking, Answering
  <2>3. \A i \in 1 .. Len(notes) : At(notes, c, i) => notes[i].seq \in Nat /\ notes[i].seq <= b
    <3> SUFFICES ASSUME NEW i \in 1 .. Len(notes), At(notes, c, i) PROVE notes[i].seq \in Nat /\ notes[i].seq <= b
      OBVIOUS
    <3>1. notes[i].seq \in Nat /\ notes[i].seq <= Len(log[c])
      BY InView DEF Known, At
    <3> QED
      BY <3>1, <2>1, <1>2 DEF First
  <2>4. Ascending(notes, c)
    BY <2>1 DEF First
  <2>5. Ascending(notes', c)
    BY <2>3, <2>4, <1>2, <1>5, <1>6 DEF Ascending
  <2>6. OnCall(c) => \A i \in 1 .. Len(notes') : At(notes', c, i) => notes'[i].seq < call'.from
    BY <2>3, <1>2, <1>5, <1>6 DEF b
  <2> QED
    BY <2>2, <2>5, <2>6 DEF First
<1> QED
  BY <1>7, <1>8, <1>9, <1>10, <1>11 DEF GoesOn, AskedOnce

LEMMA CommitStays ==
  ASSUME Types, Known, OneStay, NEW ch \in Channels, NEW kind \in {"chat", "dir", "asked", "resolved"},
         NEW of \in SUBSET Prompts, Commit(ch, kind, of), CommitRest
  PROVE OneStay'
<1> DEFINE c == scope.channel
           e == Event(ch, Len(log[ch]) + 1)
<1>1. /\ c \in Channels /\ view.seq \in Nat /\ notes \in Seq(NoteRecord)
      /\ \A d \in Channels : Len(log[d]) \in Nat
  BY InView DEF Types
<1>2. /\ UNCHANGED <<live, call, requests, replies, scope, view, been>>
      /\ \A d \in Channels \ {ch} : log'[d] = log[d]
      /\ Len(log'[ch]) = Len(log[ch]) + 1
      /\ notes' = IF ch \in live THEN Append(notes, e) ELSE notes
  BY CommitIs DEF CommitRest, terminal
<1>3. e \in NoteRecord /\ e.is = "event" /\ e.channel = ch
  BY <1>1, EventTyped
<1>4. /\ Upto(c) \in Nat /\ (OnCall(c) => Upto(c) = call.from - 1 /\ call.from \in Nat)
      /\ (~OnCall(c) => Upto(c) = Len(log[c]))
  BY UptoIs
<1> HIDE DEF e
<1>5. NewIsQuiet'
  <2> SUFFICES ASSUME NEW d \in Channels \ been PROVE (Quiet(d) /\ Asking(d) = {} /\ Answering(d) = {})'
    BY <1>2 DEF NewIsQuiet
  <2>1. Quiet(d) /\ Asking(d) = {} /\ Answering(d) = {}
    BY DEF OneStay, NewIsQuiet
  <2>2. CASE ch \notin live
    BY <2>1, <2>2, <1>2 DEF Quiet, OnCall, Asking, Answering
  <2>3. CASE ch \in live
    <3>1. ch # d
      BY <2>1, <2>3 DEF Quiet
    <3>2. \A i \in 1 .. Len(notes') : At(notes', d, i) => At(notes, d, i) /\ i \in 1 .. Len(notes)
      BY <2>3, <3>1, <1>1, <1>2, <1>3, OthersAppend, 0 \in Nat
    <3> QED
      BY <2>1, <3>2, <1>2 DEF Quiet, OnCall, Asking, Answering
  <2> QED
    BY <2>2, <2>3
<1>6. LeftForGood'
  BY <1>2 DEF OneStay, LeftForGood
<1>7. (OnCall(c)' <=> OnCall(c)) /\ Upto(c)' = IF OnCall(c) THEN Upto(c) ELSE Len(log'[c])
  BY <1>2 DEF OnCall, Upto
<1>8. ASSUME ch # c PROVE Elsewhere
  <2>1. Upto(c)' = Upto(c)
    BY <1>8, <1>1, <1>2, <1>4, <1>7
  <2>2. /\ Steady(notes', c, Upto(c)) /\ Fewer(notes, notes', c)
        /\ view.shown # <<>> => Joined(notes', c, view.seq, Upto(c))
    BY <1>8, <1>1, <1>2, <1>3, <1>4, OthersAppend, FewerAppended, FewerSame
       DEF OneStay, SteadyHere, GoesOn, Going
  <2> QED
    BY <2>1, <2>2, <1>2, <1>7 DEF Elsewhere
<1>9. ASSUME ch = c, OnCall(c) PROVE Elsewhere
  <2>1. notes' = notes
    BY <1>9, <1>2, CallTyped DEF OnCall
  <2> QED
    BY <2>1, <1>2, <1>7, <1>9, FewerSame DEF Elsewhere, OneStay, SteadyHere, GoesOn, Going
<1>10. ASSUME ch = c, c \in live, ~OnCall(c)
       PROVE Followed' /\ ShownIsSeen' /\ SteadyHere' /\ GoesOn' /\ AskedOnce'
  <2>1. notes' = Append(notes, Event(c, Upto(c) + 1)) /\ Upto(c)' = Upto(c) + 1
    BY <1>10, <1>2, <1>4, <1>7 DEF e
  <2> QED
    BY <2>1, <1>2, <1>7, <1>10, GoingOn
<1>11. ASSUME ch = c, c \notin live, ~OnCall(c)
       PROVE Followed' /\ ShownIsSeen' /\ SteadyHere' /\ GoesOn' /\ AskedOnce'
  <2>1. notes' = notes /\ view.shown = <<>> /\ \A i \in 1 .. Len(notes) : ~At(notes, c, i)
    BY <1>11, <1>2 DEF OneStay, Followed
  <2>2. SteadyHere'
    BY <2>1, <1>2 DEF SteadyHere, Steady
  <2>3. First => First'
    BY <2>1, <1>2, <1>7 DEF First, Quiet, Asking, Answering, OnCall
  <2> QED
    BY <2>1, <2>2, <2>3, <1>2, <1>7 DEF OneStay, Followed, ShownIsSeen, GoesOn, AskedOnce
<1> QED
  BY <1>5, <1>6, <1>8, <1>9, <1>10, <1>11, StaysElsewhere DEF OneStay

LEMMA HappensStays == Types /\ Known /\ OneStay => \A ch \in Channels : Happens(ch) => OneStay'
<1> SUFFICES ASSUME Types, Known, OneStay, NEW ch \in Channels, Happens(ch) PROVE OneStay'
  OBVIOUS
<1>1. CommitRest
  BY DEF Happens, CommitRest, terminal
<1>2. Commit(ch, "chat", {}) \/ Commit(ch, "dir", {})
  BY DEF Happens
<1> QED
  BY <1>1, <1>2, CommitStays

LEMMA RecordStays == Types /\ Known /\ OneStay => \A p \in Prompts : Record(p) => OneStay'
<1> SUFFICES ASSUME Types, Known, OneStay, NEW p \in Prompts, Record(p) PROVE OneStay'
  OBVIOUS
<1>1. CommitRest
  BY DEF Record, CommitRest, bounds, terminal
<1>2. Commit(Home, "asked", {p}) \/ Commit(Home, "resolved", {p})
  BY DEF Record
<1> QED
  BY <1>1, <1>2, CommitStays, TerminalAssumption

LEMMA ReplayStays == Types /\ Known /\ OneStay => (Replay => OneStay')
<1> SUFFICES ASSUME Types, Known, OneStay, Replay PROVE OneStay'
  OBVIOUS
<1> DEFINE c == scope.channel
           e == Event(call.channel, call.from)
<1>1. /\ call # Idle /\ notes' = Append(notes, e) /\ call' = [call EXCEPT !.from = call.from + 1]
      /\ UNCHANGED <<log, live, requests, replies, scope, view, been>>
  BY DEF Replay, terminal, bounds
<1>2. /\ call.channel \in Channels /\ call.from \in Nat /\ call.method = "subscribe"
      /\ notes \in Seq(NoteRecord) /\ c \in Channels /\ view.seq \in Nat /\ call \in RequestRecord
  BY <1>1, CallTyped, InView DEF Types
<1>3. e \in NoteRecord /\ e.is = "event" /\ e.channel = call.channel
  BY <1>2, EventTyped
<1>4. /\ call'.channel = call.channel /\ call'.method = "subscribe" /\ call'.from = call.from + 1
  BY <1>1, <1>2 DEF RequestRecord
<1>5. call' # Idle /\ \A d : OnCall(d)' <=> OnCall(d)
  BY <1>1, <1>4, IdleTyped DEF OnCall
<1> HIDE DEF e
<1>6. NewIsQuiet'
  <2> SUFFICES ASSUME NEW d \in Channels \ been PROVE (Quiet(d) /\ Asking(d) = {} /\ Answering(d) = {})'
    BY <1>1 DEF NewIsQuiet
  <2>1. Quiet(d) /\ Asking(d) = {} /\ Answering(d) = {} /\ d # call.channel
    BY <1>1 DEF OneStay, NewIsQuiet, Quiet, OnCall
  <2>2. \A i \in 1 .. Len(notes') : At(notes', d, i) => At(notes, d, i) /\ i \in 1 .. Len(notes)
    BY <2>1, <1>1, <1>2, <1>3, OthersAppend, 0 \in Nat
  <2> QED
    BY <2>1, <2>2, <1>1, <1>5 DEF Quiet, Asking, Answering
<1>7. LeftForGood'
  BY <1>1 DEF OneStay, LeftForGood
<1>8. Upto(c) \in Nat
  BY UptoIs
<1>9. CASE call.channel = c
  <2>1. OnCall(c) /\ Upto(c) = call.from - 1 /\ Upto(c)' = call.from
    BY <1>1, <1>2, <1>4, <1>5, <1>9 DEF OnCall, Upto
  <2>2. Upto(c) + 1 = call.from /\ Upto(c) + 2 = call.from + 1
    BY <2>1, <1>2
  <2>3. notes' = Append(notes, Event(c, Upto(c) + 1))
    BY <2>2, <1>1, <1>9 DEF e
  <2>4. Followed' /\ ShownIsSeen' /\ SteadyHere' /\ GoesOn' /\ AskedOnce'
    BY <2>1, <2>2, <2>3, <1>1, <1>4, <1>5, GoingOn
  <2> QED
    BY <2>4, <1>6, <1>7 DEF OneStay
<1>10. CASE call.channel # c
  <2>1. ~OnCall(c) /\ Upto(c)' = Upto(c)
    BY <1>1, <1>5, <1>10 DEF OnCall, Upto
  <2>2. /\ Steady(notes', c, Upto(c)) /\ Fewer(notes, notes', c)
        /\ view.shown # <<>> => Joined(notes', c, view.seq, Upto(c))
    BY <1>1, <1>2, <1>3, <1>8, <1>10, OthersAppend, FewerAppended DEF OneStay, SteadyHere, GoesOn, Going
  <2>3. Elsewhere
    BY <2>1, <2>2, <1>1, <1>5 DEF Elsewhere
  <2> QED
    BY <2>3, <1>6, <1>7, StaysElsewhere DEF OneStay
<1> QED
  BY <1>9, <1>10

LEMMA GoLiveStays == Types /\ Known /\ OneStay => (GoLive => OneStay')
<1> SUFFICES ASSUME Types, Known, OneStay, GoLive PROVE OneStay'
  OBVIOUS
<1> DEFINE c == scope.channel
<1>1. /\ call # Idle /\ call.from > Len(log[call.channel]) /\ live' = live \cup {call.channel} /\ call' = Idle
      /\ UNCHANGED <<log, requests, notes, scope, view, been>>
      /\ \A q \in replies' \ replies : q.is # "reconcile"
  BY DEF GoLive, Replied, terminal, bounds
<1>2. \A d : ~OnCall(d)'
  BY <1>1 DEF OnCall
<1>3. Upto(c)' = Upto(c)
  <2>1. Upto(c)' = Len(log[c])
    BY <1>1, <1>2 DEF Upto
  <2>2. CASE call.channel = c
    BY <2>1, <2>2, <1>1, CallTyped DEF Upto, OnCall
  <2>3. CASE call.channel # c
    BY <2>1, <2>3 DEF Upto, OnCall
  <2> QED
    BY <2>2, <2>3
<1>4. Elsewhere
  BY <1>1, <1>2, <1>3, FewerSame DEF Elsewhere, OnCall, OneStay, SteadyHere, GoesOn, Going
<1>5. NewIsQuiet'
  <2> SUFFICES ASSUME NEW d \in Channels \ been PROVE (Quiet(d) /\ Asking(d) = {} /\ Answering(d) = {})'
    BY <1>1 DEF NewIsQuiet
  <2>1. Quiet(d) /\ Asking(d) = {} /\ Answering(d) = {} /\ d # call.channel
    BY <1>1 DEF OneStay, NewIsQuiet, Quiet, OnCall
  <2> QED
    BY <2>1, <1>1, <1>2 DEF Quiet, Asking, Answering
<1>6. LeftForGood'
  BY <1>1 DEF OneStay, LeftForGood
<1> QED
  BY <1>4, <1>5, <1>6, StaysElsewhere DEF OneStay

LEMMA UnsubscribeStays == Types /\ Known /\ OneStay => \A r \in requests : ServeUnsubscribe(r) => OneStay'
<1> SUFFICES ASSUME Types, Known, OneStay, NEW r \in requests, ServeUnsubscribe(r) PROVE OneStay'
  OBVIOUS
<1>1. /\ live' = live \ {r.channel} /\ requests' = requests \ {r} /\ r.method = "unsubscribe"
      /\ UNCHANGED <<log, call, notes, replies, scope, view, been>>
  BY DEF ServeUnsubscribe, Served, terminal, bounds
<1>2. r.channel # scope.channel
  BY <1>1 DEF OneStay, LeftForGood
<1>3. Elsewhere
  BY <1>1, <1>2, FewerSame DEF Elsewhere, OnCall, Upto, OneStay, SteadyHere, GoesOn, Going
<1>4. NewIsQuiet'
  BY <1>1 DEF OneStay, NewIsQuiet, Quiet, OnCall, Asking, Answering
<1>5. LeftForGood'
  BY <1>1 DEF OneStay, LeftForGood
<1> QED
  BY <1>3, <1>4, <1>5, StaysElsewhere DEF OneStay

LEMMA StartIs ==
  ASSUME Types, Known, NEW r \in requests, Start(r)
  PROVE /\ r.method = "subscribe" /\ call = Idle /\ r.channel \in Channels /\ r.from \in Nat
        /\ call' # Idle /\ call'.channel = r.channel /\ call'.from \in Nat /\ r.from <= call'.from
        /\ call'.from <= Len(log[r.channel]) + 1
        /\ live' = live \ {r.channel} /\ requests' = requests \ {r}
        /\ UNCHANGED <<log, notes, replies, scope, view, been>>
<1> DEFINE start == Len(log[r.channel]) + 1 - r.tail
           cut == r.tail > 0 /\ r.from <= 1 /\ start > 1
           from == IF cut THEN start ELSE r.from
<1>1. r \in RequestRecord /\ r.method = "subscribe" /\ call = Idle
  BY DEF Types, Start
<1>2. r.channel \in Channels /\ r.from \in Nat /\ r.tail \in Nat
  BY <1>1 DEF RequestRecord
<1>3. Len(log[r.channel]) \in Nat /\ r.from \in 1 .. Len(log[r.channel]) + 1
  BY <1>1, <1>2, InView DEF Known
<1>4. call' = [r EXCEPT !.from = from, !.tail = IF cut THEN start ELSE 0]
  BY DEF Start
<1>5. from \in Nat /\ r.from <= from /\ from <= Len(log[r.channel]) + 1
  BY <1>2, <1>3
<1> HIDE DEF start, cut, from
<1>6. call'.method = "subscribe" /\ call'.channel = r.channel /\ call'.from = from
  BY <1>1, <1>4 DEF RequestRecord
<1>7. call' # Idle
  BY <1>6, IdleTyped
<1> QED
  BY <1>1, <1>2, <1>5, <1>6, <1>7 DEF Start, Served, terminal, bounds

LEMMA StartStays == Types /\ Known /\ OneStay => \A r \in requests : Start(r) => OneStay'
<1> SUFFICES ASSUME Types, Known, OneStay, NEW r \in requests, Start(r) PROVE OneStay'
  OBVIOUS
<1> DEFINE c == scope.channel
<1>1. /\ r.method = "subscribe" /\ call = Idle /\ r.channel \in Channels /\ r.from \in Nat
      /\ call' # Idle /\ call'.channel = r.channel /\ call'.from \in Nat /\ r.from <= call'.from
      /\ call'.from <= Len(log[r.channel]) + 1
      /\ live' = live \ {r.channel} /\ requests' = requests \ {r}
      /\ UNCHANGED <<log, notes, replies, scope, view, been>>
  BY StartIs
<1>2. \A d : ~OnCall(d) /\ (OnCall(d)' <=> d = r.channel)
  BY <1>1 DEF OnCall
<1>3. r \in Asking(r.channel)
  BY <1>1 DEF Asking, Asks
<1>4. NewIsQuiet'
  <2> SUFFICES ASSUME NEW d \in Channels \ been PROVE (Quiet(d) /\ Asking(d) = {} /\ Answering(d) = {})'
    BY <1>1 DEF NewIsQuiet
  <2>1. Quiet(d) /\ Asking(d) = {} /\ Answering(d) = {} /\ d # r.channel
    BY <1>3 DEF OneStay, NewIsQuiet
  <2> QED
    BY <2>1, <1>1, <1>2 DEF Quiet, Asking, Answering
<1>5. LeftForGood'
  BY <1>1 DEF OneStay, LeftForGood
<1>6. CASE r.channel # c
  <2>1. Elsewhere
    BY <1>1, <1>2, <1>6, FewerSame DEF Elsewhere, Upto, OneStay, SteadyHere, GoesOn, Going
  <2> QED
    BY <2>1, <1>4, <1>5, StaysElsewhere DEF OneStay
<1>7. CASE r.channel = c
  <2>1. /\ Upto(c) = Len(log[c]) /\ Upto(c)' = call'.from - 1 /\ Len(log[c]) \in Nat
        /\ OnCall(c)'
    BY <1>1, <1>2, <1>7, InView DEF Upto
  <2>2. Upto(c)' \in Int /\ Upto(c) \in Int /\ Upto(c)' <= Upto(c)
    BY <2>1, <1>1, <1>7
  <2>3. /\ Steady(notes, c, Upto(c)')
        /\ view.shown # <<>> => Joined(notes, c, view.seq, Upto(c)')
    BY <2>2, Shrinks DEF OneStay, SteadyHere, GoesOn, Going
  <2>4. Followed'
    BY <2>1, <1>1 DEF Followed
  <2>5. ShownIsSeen' /\ SteadyHere'
    BY <2>3, <1>1 DEF ShownIsSeen, SteadyHere, OneStay
  <2>6. ASSUME view.shown # <<>> PROVE Going'
    <3>1. Covers(view) /\ NotBefore(view.shown[1])
      BY <2>6 DEF OneStay, GoesOn, Going
    <3>2. view.shown[1] \in Nat
      BY <2>6, InView
    <3>3. view.shown[1] <= call'.from
      BY <3>1, <3>2, <1>1, <1>3, <1>7 DEF NotBefore
    <3>4. NotBefore(view.shown[1])'
      BY <3>1, <3>3, <1>1 DEF NotBefore, Asking
    <3> QED
      BY <3>1, <3>4, <2>3, <2>6, <1>1 DEF Going, Covers
  <2>7. ASSUME view.shown = <<>>, ~view.awaitFirst PROVE First'
    <3>1. First
      BY <2>7 DEF OneStay, AskedOnce
    <3>2. Quiet(c) /\ Asking(c) = {r} /\ Answering(c) = {}
      BY <3>1, <1>3, <1>7 DEF First
    <3>3. Asking(c)' = {} /\ Answering(c)' = {}
      BY <3>2, <1>1 DEF Asking, Answering
    <3> QED
      BY <3>1, <3>2, <3>3, <1>1 DEF First, Quiet
  <2> QED
    BY <2>4, <2>5, <2>6, <2>7, <1>1, <1>4, <1>5 DEF OneStay, GoesOn, AskedOnce
<1> QED
  BY <1>6, <1>7

\* The request for the log goes from hand to hand.
LEMMA AskingMoves ==
  ASSUME Types, Known, OneStay, UNCHANGED <<log, live, call, notes, been, scope>>,
         view'.seq = view.seq, view'.shown = view.shown, view'.awaitFirst = view.awaitFirst,
         \A r \in requests' \ requests : /\ r.method \in Asks /\ r.channel \in been
                                         /\ r.channel = scope.channel /\ r.method = "subscribe" => r.from = view.seq + 1,
         \A q \in replies' \ replies : q.is = "reconcile" => q.channel \in been,
         First => /\ \A q, r \in Asking(scope.channel)' : q = r
                  /\ \A q, r \in Answering(scope.channel)' : q = r
                  /\ Asking(scope.channel)' = {} \/ Answering(scope.channel)' = {}
                  /\ Asking(scope.channel) = {} /\ Answering(scope.channel) = {} =>
                       Asking(scope.channel)' = {} /\ Answering(scope.channel)' = {}
  PROVE OneStay'
<1> DEFINE c == scope.channel
<1>1. \A d : (OnCall(d)' <=> OnCall(d)) /\ Upto(d)' = Upto(d) /\ (Quiet(d)' <=> Quiet(d))
  BY DEF OnCall, Upto, Quiet
<1>0. /\ \A r \in requests' : r \in requests \/ (r.method # "unsubscribe" /\ r.channel \in been)
      /\ \A r \in requests' : r.method = "subscribe" /\ r.channel = c => r \in requests \/ r.from = view.seq + 1
      /\ \A q \in replies' : q \in replies \/ (q.is = "reconcile" => q.channel \in been)
  <2>1. ASSUME NEW r \in requests', r \notin requests
        PROVE r.method # "unsubscribe" /\ r.channel \in been
    <3>1. r.method \in Asks /\ r.channel \in been
      BY <2>1
    <3> QED
      BY <3>1 DEF Asks
  <2>2. ASSUME NEW r \in requests', r \notin requests, r.method = "subscribe", r.channel = c
        PROVE r.from = view.seq + 1
    BY <2>2
  <2>3. ASSUME NEW q \in replies', q \notin replies, q.is = "reconcile" PROVE q.channel \in been
    BY <2>3
  <2> QED
    BY <2>1, <2>2, <2>3
<1>2. NewIsQuiet'
  <2> SUFFICES ASSUME NEW d \in Channels \ been PROVE (Quiet(d) /\ Asking(d) = {} /\ Answering(d) = {})'
    BY DEF NewIsQuiet
  <2>1. Quiet(d) /\ Asking(d) = {} /\ Answering(d) = {}
    BY DEF OneStay, NewIsQuiet
  <2>2. Asking(d)' = {}
    BY <2>1, <1>0 DEF Asking
  <2>3. Answering(d)' = {}
    BY <2>1, <1>0 DEF Answering
  <2> QED
    BY <2>1, <2>2, <2>3, <1>1
<1>3. LeftForGood'
  <2> SUFFICES ASSUME NEW r \in requests', r.method = "unsubscribe" PROVE r.channel \in been \ {c}
    BY DEF LeftForGood
  <2>1. r \in requests
    BY <1>0
  <2> QED
    BY <2>1 DEF OneStay, LeftForGood
<1>4. Followed' /\ ShownIsSeen' /\ SteadyHere'
  BY <1>1 DEF Followed, ShownIsSeen, SteadyHere, OneStay
<1>5. ASSUME view.shown # <<>> PROVE Going'
  <2>1. Covers(view) /\ NotBefore(view.shown[1]) /\ Joined(notes, c, view.seq, Upto(c))
    BY <1>5 DEF OneStay, GoesOn, Going
  <2>2. view.shown[1] \in Nat /\ 1 \in 1 .. Len(view.shown) /\ view.seq \in Nat
    BY <1>5, InView
  <2>3. view.shown[1] <= view.seq + 1
    BY <2>1, <2>2 DEF Covers
  <2>4. NotBefore(view.shown[1])'
    <3>1. ASSUME NEW r \in requests', r.method = "subscribe", r.channel = c PROVE view.shown[1] <= r.from
      <4>1. CASE r \in requests
        BY <4>1, <3>1, <2>1 DEF NotBefore, Asking, Asks
      <4>2. CASE r \notin requests
        BY <4>2, <3>1, <2>3, <1>0
      <4> QED
        BY <4>1, <4>2
    <3>2. \A r \in Asking(c)' : r.method = "subscribe" => view.shown[1] <= r.from
      BY <3>1 DEF Asking
    <3> QED
      BY <2>1, <3>2, <1>1 DEF NotBefore
  <2> QED
    BY <2>1, <2>4, <1>1 DEF Going, Covers
<1>6. ASSUME view.shown = <<>>, ~view.awaitFirst PROVE First'
  BY <1>6, <1>1 DEF OneStay, AskedOnce, First
<1> QED
  BY <1>2, <1>3, <1>4, <1>5, <1>6 DEF OneStay, GoesOn, AskedOnce

\* What is asked or answered is of a channel that was in view.
LEMMA AskedOfBeen ==
  ASSUME Types, NewIsQuiet
  PROVE /\ \A r \in requests : r.method \in Asks => r.channel \in been
        /\ \A q \in replies : q.is = "reconcile" => q.channel \in been
<1>1. /\ \A r \in requests : r.channel \in Channels
      /\ \A q \in replies : q.channel \in Channels
  BY DEF Types, RequestRecord, ReplyRecord
<1> QED
  BY <1>1 DEF NewIsQuiet, Asking, Answering

LEMMA ServeReconcileStays == Types /\ Known /\ OneStay => \A r \in requests : ServeReconcile(r) => OneStay'
<1> SUFFICES ASSUME Types, Known, OneStay, NEW r \in requests, ServeReconcile(r) PROVE OneStay'
  OBVIOUS
<1> DEFINE q == Request("pending", r.channel, r.gen, Len(log[r.channel]), 0, {})
<1>1. /\ q.method = "pending" /\ q.channel = r.channel /\ r.method = "reconcile"
      /\ requests' = (requests \ {r}) \cup {q} /\ UNCHANGED <<log, live, call, notes, been, scope, view, replies>>
  BY DEF ServeReconcile, Request, daemon, terminal, bounds
<1> HIDE DEF q
<1>2. r.channel \in been
  BY <1>1, AskedOfBeen DEF OneStay, Asks
<1>3. /\ r.channel = scope.channel => Asking(scope.channel)' = (Asking(scope.channel) \ {r}) \cup {q} /\ r \in Asking(scope.channel)
      /\ r.channel # scope.channel => Asking(scope.channel)' = Asking(scope.channel)
      /\ Answering(scope.channel)' = Answering(scope.channel)
  BY <1>1 DEF Asking, Answering, Asks
<1>4. First => /\ \A s, t \in Asking(scope.channel)' : s = t
               /\ \A s, t \in Answering(scope.channel)' : s = t
               /\ Asking(scope.channel)' = {} \/ Answering(scope.channel)' = {}
               /\ Asking(scope.channel) = {} /\ Answering(scope.channel) = {} =>
                    Asking(scope.channel)' = {} /\ Answering(scope.channel)' = {}
  BY <1>3 DEF First
<1> QED
  BY <1>1, <1>2, <1>4, AskingMoves DEF Asks

LEMMA ServePendingStays == Types /\ Known /\ OneStay => \A r \in requests : ServePending(r) => OneStay'
<1> SUFFICES ASSUME Types, Known, OneStay, NEW r \in requests, ServePending(r) PROVE OneStay'
  OBVIOUS
<1> DEFINE q == [is |-> "reconcile", channel |-> r.channel, gen |-> r.gen, seq |-> r.from, of |-> open]
<1>1. /\ q.is = "reconcile" /\ q.channel = r.channel /\ r.method = "pending"
      /\ requests' = requests \ {r} /\ replies' = replies \cup {q}
      /\ UNCHANGED <<log, live, call, notes, been, scope, view>>
  BY DEF ServePending, Served, Replied, daemon, terminal, bounds
<1> HIDE DEF q
<1>2. r.channel \in been
  BY <1>1, AskedOfBeen DEF OneStay, Asks
<1>3. /\ Asking(scope.channel)' = Asking(scope.channel) \ {r}
      /\ r.channel = scope.channel => r \in Asking(scope.channel) /\ Answering(scope.channel)' = Answering(scope.channel) \cup {q}
      /\ r.channel # scope.channel => r \notin Asking(scope.channel) /\ Answering(scope.channel)' = Answering(scope.channel)
  BY <1>1 DEF Asking, Answering, Asks
<1>4. First => /\ \A s, t \in Asking(scope.channel)' : s = t
               /\ \A s, t \in Answering(scope.channel)' : s = t
               /\ Asking(scope.channel)' = {} \/ Answering(scope.channel)' = {}
               /\ Asking(scope.channel) = {} /\ Answering(scope.channel) = {} =>
                    Asking(scope.channel)' = {} /\ Answering(scope.channel)' = {}
  BY <1>3 DEF First
<1> QED
  BY <1>1, <1>2, <1>4, AskingMoves

LEMMA ReconcileStays ==
  ASSUME Types, Known, OneStay, NEW r \in replies, HandleReply(r), ApplyReconcile(r), Current(r)
  PROVE OneStay'
<1>1. /\ r.is = "reconcile" /\ r.channel = scope.channel /\ replies' = replies \ {r}
      /\ UNCHANGED <<log, live, call, notes, been>>
  BY DEF HandleReply, ApplyReconcile, Current, daemon, bounds
<1>2. /\ view'.seq = view.seq /\ view'.shown = view.shown /\ view'.awaitFirst = view.awaitFirst
      /\ UNCHANGED scope
  BY ReconcileIs
<1>3. PICK q : /\ requests' = requests \cup {q} /\ q.method \in Asks /\ q.channel = scope.channel
               /\ q.method = "subscribe" => q.from = view.seq + 1
  <2>1. /\ Reconcile(scope).method = "reconcile" /\ Reconcile(scope).channel = scope.channel
        /\ \A tail : LET q == Request("subscribe", scope.channel, scope.gen, view.seq + 1, tail, {})
                   IN q.method = "subscribe" /\ q.channel = scope.channel /\ q.from = view.seq + 1
    BY DEF Reconcile, Request
  <2> QED
    BY <2>1, ReconcileIs DEF Asks
<1>4. scope.channel \in been
  BY DEF Types
<1>5. /\ Asking(scope.channel)' = Asking(scope.channel) \cup {q} /\ r \in Answering(scope.channel)
      /\ Answering(scope.channel)' = Answering(scope.channel) \ {r}
  BY <1>1, <1>2, <1>3 DEF Asking, Answering
<1>6. First => /\ \A s, t \in Asking(scope.channel)' : s = t
               /\ \A s, t \in Answering(scope.channel)' : s = t
               /\ Asking(scope.channel)' = {} \/ Answering(scope.channel)' = {}
               /\ Asking(scope.channel) = {} /\ Answering(scope.channel) = {} =>
                    Asking(scope.channel)' = {} /\ Answering(scope.channel)' = {}
  BY <1>5 DEF First
<1> QED
  BY <1>1, <1>2, <1>3, <1>4, <1>6, AskingMoves

LEMMA BindStays == Types /\ Known /\ OneStay => \A ch \in Channels \ been : Bind(ch) => OneStay'
<1> SUFFICES ASSUME Types, Known, OneStay, NEW ch \in Channels \ been, Bind(ch) PROVE OneStay'
  OBVIOUS
<1> DEFINE q == Reconcile(scope')
           u == Unsubscribe(scope.channel)
<1>1. ch # scope.channel /\ ch \notin DOMAIN visited /\ scope.channel \in been
  BY DEF Types
<1>2. view' = [Unseen EXCEPT !.loading = TRUE, !.reconciled = FALSE]
  BY <1>1 DEF Bind
<1>3. view'.seq = 0 /\ view'.shown = <<>> /\ view'.awaitFirst = FALSE
  BY <1>2, UnseenTyped DEF ViewRecord
<1>4. /\ scope'.channel = ch /\ been' = been \cup {ch} /\ requests' = requests \cup {q, u}
      /\ UNCHANGED <<log, live, call, notes, replies>>
  BY <1>1 DEF Bind, daemon
<1>5. q.method = "reconcile" /\ q.channel = ch /\ u.method = "unsubscribe" /\ u.channel = scope.channel
  BY <1>4 DEF Reconcile, Unsubscribe, Request
<1> HIDE DEF q, u
<1>6. \A d : OnCall(d)' <=> OnCall(d)
  BY <1>4 DEF OnCall
<1>7. /\ \A d \in Channels : d # ch => Asking(d)' = Asking(d)
      /\ Asking(ch)' = Asking(ch) \cup {q}
      /\ \A d \in Channels : Answering(d)' = Answering(d)
      /\ \A d \in Channels : Quiet(d)' <=> Quiet(d)
  <2>1. u.method \notin Asks /\ q.method \in Asks
    BY <1>5 DEF Asks
  <2> QED
    BY <2>1, <1>4, <1>5, <1>6 DEF Asking, Answering, Quiet
<1>8. NewIsQuiet'
  BY <1>4, <1>7 DEF OneStay, NewIsQuiet
<1>9. LeftForGood'
  BY <1>1, <1>4, <1>5 DEF OneStay, LeftForGood
<1>10. Quiet(ch) /\ Asking(ch) = {} /\ Answering(ch) = {}
  BY DEF OneStay, NewIsQuiet
<1>11. \A i \in 1 .. Len(notes) : ~At(notes, ch, i)
  BY <1>10 DEF Quiet
<1>12. Followed' /\ ShownIsSeen'
  BY <1>3, <1>4, <1>11 DEF Followed, ShownIsSeen
<1>13. SteadyHere'
  BY <1>4, <1>11 DEF SteadyHere, Steady
<1>14. First'
  <2>1. Asking(ch)' = {q} /\ Answering(ch)' = {} /\ Quiet(ch)'
    BY <1>7, <1>10
  <2> QED
    BY <2>1, <1>4, <1>11 DEF First, Ascending
<1> QED
  BY <1>3, <1>8, <1>9, <1>12, <1>13, <1>14 DEF OneStay, GoesOn, AskedOnce

LEMMA HistoryStays == Types /\ Known /\ OneStay => (History => OneStay')
<1> SUFFICES ASSUME Types, Known, OneStay, History PROVE OneStay'
  OBVIOUS
<1> DEFINE q == Reconcile(Fresh)
<1>1. view' = [Unseen EXCEPT !.whole = TRUE, !.awaitFirst = TRUE, !.replayTo = view.replayTo]
  BY DEF History
<1>2. view'.seq = 0 /\ view'.shown = <<>> /\ view'.awaitFirst = TRUE
  BY <1>1, UnseenTyped DEF ViewRecord
<1>3. /\ scope' = Fresh /\ Fresh.channel = scope.channel /\ requests' = requests \cup {q}
      /\ UNCHANGED <<log, live, call, notes, replies, been>>
  BY FreshTyped DEF History, daemon
<1>4. q.method = "reconcile" /\ q.channel = scope.channel
  BY <1>3 DEF Reconcile, Request
<1> HIDE DEF q
<1>5. scope.channel \in been /\ \A d : (OnCall(d)' <=> OnCall(d)) /\ Upto(d)' = Upto(d)
  BY <1>3 DEF Types, OnCall, Upto
<1>6. \A d \in Channels \ been : Asking(d)' = Asking(d) /\ Answering(d)' = Answering(d) /\ (Quiet(d)' <=> Quiet(d))
  BY <1>3, <1>4, <1>5 DEF Asking, Answering, Quiet
<1>7. NewIsQuiet'
  BY <1>3, <1>6 DEF OneStay, NewIsQuiet
<1>8. LeftForGood'
  BY <1>3, <1>4 DEF OneStay, LeftForGood
<1>9. Followed' /\ ShownIsSeen'
  BY <1>2, <1>3, <1>5 DEF Followed, ShownIsSeen, OneStay
<1>10. SteadyHere'
  BY <1>3, <1>5 DEF SteadyHere, OneStay
<1> QED
  BY <1>2, <1>7, <1>8, <1>9, <1>10 DEF OneStay, GoesOn, AskedOnce

\* A note that shows nothing.
LEMMA PassedOver ==
  ASSUME Types, Known, OneStay, notes # <<>>, notes' = Tail(notes),
         UNCHANGED <<log, live, call, replies, been, scope, requests>>,
         view'.seq = view.seq, view'.shown = view.shown, view'.awaitFirst = view.awaitFirst,
         At(notes, scope.channel, 1) => view.awaitFirst
  PROVE OneStay'
<1> DEFINE c == scope.channel
<1>1. c \in Channels /\ notes \in Seq(NoteRecord) /\ view.seq \in Nat /\ Upto(c) \in Nat
  BY InView, UptoIs DEF Types
<1>2. /\ Steady(notes', c, Upto(c)) /\ Fewer(notes, notes', c)
  BY <1>1, SteadyShifts, FewerTaken DEF OneStay, SteadyHere
<1>3. view.shown # <<>> => Joined(notes', c, view.seq, Upto(c))
  BY <1>1, JoinedShifts DEF OneStay, ShownIsSeen, GoesOn, Going
<1>4. (OnCall(c)' <=> OnCall(c)) /\ Upto(c)' = Upto(c)
  BY DEF OnCall, Upto
<1>5. Elsewhere
  BY <1>2, <1>3, <1>4 DEF Elsewhere
<1>6. NewIsQuiet'
  <2> SUFFICES ASSUME NEW d \in Channels \ been PROVE (Quiet(d) /\ Asking(d) = {} /\ Answering(d) = {})'
    BY DEF NewIsQuiet
  <2>1. Quiet(d) /\ Asking(d) = {} /\ Answering(d) = {}
    BY DEF OneStay, NewIsQuiet
  <2>2. \A i \in 1 .. Len(notes') : ~At(notes', d, i)
    BY <2>1, <1>1, FewerTaken DEF Fewer, Quiet
  <2> QED
    BY <2>1, <2>2 DEF Quiet, OnCall, Asking, Answering
<1>7. LeftForGood'
  BY DEF OneStay, LeftForGood
<1> QED
  BY <1>5, <1>6, <1>7, StaysElsewhere DEF OneStay

LEMMA AppendedNumber ==
  ASSUME NEW s \in Seq(Nat), NEW n \in Nat
  PROVE /\ Append(s, n) # <<>> /\ Len(Append(s, n)) = Len(s) + 1 /\ Len(s) \in Nat
        /\ \A i \in 1 .. Len(s) : Append(s, n)[i] = s[i]
        /\ Append(s, n)[Len(s) + 1] = n
OBVIOUS

\* An event that is shown.
LEMMA ShownStays ==
  ASSUME Types, Known, OneStay, Notification, ApplyEvent(Head(notes)),
         ~Foreign(Head(notes)), ~Early(Head(notes))
  PROVE OneStay'
<1> DEFINE c == scope.channel
           n == notes[1].seq
<1>1. /\ notes # <<>> /\ notes' = Tail(notes) /\ UNCHANGED <<log, live, call, replies, been>>
  BY DEF Notification, daemon, bounds
<1>2. /\ c \in Channels /\ notes \in Seq(NoteRecord) /\ view.seq \in Nat /\ Upto(c) \in Nat
      /\ view.shown \in Seq(Nat) /\ view \in ViewRecord
  BY InView, UptoIs DEF Types
<1>3. /\ Head(notes) = notes[1] /\ 1 \in 1 .. Len(notes) /\ notes[1] \in NoteRecord /\ n = notes[1].seq
  BY <1>1, <1>2
<1>4. At(notes, c, 1) /\ n \in Nat /\ n >= 1 /\ (view.awaitFirst => n = 1)
  <2>1. At(notes, c, 1) /\ (view.awaitFirst => n = 1)
    BY <1>3 DEF ApplyEvent, Foreign, Early, At
  <2>2. n \in 1 .. Len(log[c])
    BY <2>1, <1>3 DEF At, Known
  <2> QED
    BY <2>1, <2>2
<1>5. /\ view'.seq = (IF n > view.seq THEN n ELSE view.seq) /\ view'.shown = Append(view.shown, n)
      /\ view'.awaitFirst = FALSE
  <2>1. view' = After(n)
    BY <1>3 DEF ApplyEvent
  <2> HIDE DEF n
  <2> QED
    BY <2>1, <1>2, <1>4, AfterIs
<1> HIDE DEF n
<1>6. scope'.channel = c /\ requests \subseteq requests'
  BY FreshTyped DEF ApplyEvent
<1>7. \A r \in requests' \ requests : r.method = "reconcile" /\ r.channel = c
  BY FreshTyped DEF ApplyEvent, Reconcile, Request
<1>8. \A d : (OnCall(d)' <=> OnCall(d)) /\ Upto(d)' = Upto(d)
  BY <1>1 DEF OnCall, Upto
<1>9. NewIsQuiet'
  <2> SUFFICES ASSUME NEW d \in Channels \ been PROVE (Quiet(d) /\ Asking(d) = {} /\ Answering(d) = {})'
    BY <1>1 DEF NewIsQuiet
  <2>1. Quiet(d) /\ Asking(d) = {} /\ Answering(d) = {} /\ d # c
    BY DEF OneStay, NewIsQuiet, Types
  <2>2. \A i \in 1 .. Len(notes') : ~At(notes', d, i)
    BY <2>1, <1>1, <1>2, FewerTaken DEF Fewer, Quiet
  <2>3. Asking(d)' = {}
    BY <2>1, <1>7 DEF Asking
  <2> QED
    BY <2>1, <2>2, <2>3, <1>1, <1>8 DEF Quiet, Answering
<1>10. LeftForGood'
  BY <1>1, <1>6, <1>7 DEF OneStay, LeftForGood
<1>11. c \in live \/ OnCall(c)
  BY <1>3, <1>4 DEF OneStay, Followed
<1>12. Followed'
  BY <1>1, <1>6, <1>8, <1>11 DEF Followed
<1>13. /\ view'.shown # <<>> /\ Len(view'.shown) = Len(view.shown) + 1 /\ Len(view.shown) \in Nat
       /\ \A i \in 1 .. Len(view.shown) : view'.shown[i] = view.shown[i]
       /\ view'.shown[Len(view.shown) + 1] = n
  <2>1. view.shown \in Seq(Nat) /\ n \in Nat /\ view'.shown = Append(view.shown, n)
    BY <1>2, <1>4, <1>5
  <2> QED
    BY SMTT(30), <2>1, AppendedNumber
<1>14. ShownIsSeen'
  BY <1>2, <1>4, <1>5, <1>13 DEF ShownIsSeen
<1>15. Steady(notes, c, Upto(c))
  BY DEF OneStay, SteadyHere
<1>16. SteadyHere'
  BY <1>1, <1>2, <1>6, <1>8, <1>15, SteadyShifts DEF SteadyHere
<1>17. /\ \A i \in 1 .. Len(notes') : At(notes', c, i) => i + 1 \in 1 .. Len(notes) /\ At(notes, c, i + 1) /\ notes'[i] = notes[i + 1]
  BY <1>1, <1>2, Shift
<1>18. \A r \in Asking(c)' : r.method = "subscribe" => r \in Asking(c)
  BY <1>6, <1>7 DEF Asking
<1>19. ASSUME view.shown = <<>> PROVE Going'
  <2>1. view'.shown = <<n>> /\ view'.shown[1] = n /\ view.seq = 0 /\ view'.seq = n
    BY <1>2, <1>4, <1>5, <1>19 DEF OneStay, ShownIsSeen
  <2>2. Covers(view)'
    BY <2>1, <1>4 DEF Covers
  <2>3. Joined(notes', c, n, Upto(c))
    BY <1>1, <1>2, <1>3, <1>4, <1>15, FirstShown
  <2>4. CASE view.awaitFirst
    <3>1. n = 1
      BY <2>4, <1>4
    <3>2. \A i \in 1 .. Len(notes) : At(notes, c, i) => 1 <= notes[i].seq
      BY InView DEF Known, At
    <3>3. \A r \in requests : r.method = "subscribe" => 1 <= r.from
      BY DEF Known
    <3>4. OnCall(c) => 1 <= call.from
      BY CallTyped DEF OnCall
    <3>5. \A i \in 1 .. Len(notes') : At(notes', c, i) => n <= notes'[i].seq
      BY <3>1, <3>2, <1>17
    <3>6. \A r \in Asking(c)' : r.method = "subscribe" => n <= r.from
      BY <3>1, <3>3, <1>18 DEF Asking
    <3> QED
      BY <3>1, <3>4, <3>5, <3>6, <2>1, <2>2, <2>3, <1>1, <1>6, <1>8 DEF NotBefore, Going
  <2>5. CASE ~view.awaitFirst
    <3>1. First
      BY <2>5, <1>19 DEF OneStay, AskedOnce
    <3>2. Asking(c) = {}
      BY <3>1, <1>3, <1>4 DEF First, Quiet
    <3>3. \A i \in 1 .. Len(notes) : At(notes, c, i) => n <= notes[i].seq
      BY <3>1, <1>3, <1>4 DEF First, Ascending
    <3>4. OnCall(c) => n <= call.from
      <4> HAVE OnCall(c)
      <4>1. n < call.from /\ call.from \in Nat
        BY <3>1, <1>3, <1>4, CallTyped DEF First, OnCall
      <4> QED
        BY <4>1, <1>4
    <3>5. \A i \in 1 .. Len(notes') : At(notes', c, i) => n <= notes'[i].seq
      BY <3>3, <1>17
    <3>6. \A r \in Asking(c)' : r.method = "subscribe" => n <= r.from
      BY <3>2, <1>18
    <3> QED
      BY <3>4, <3>5, <3>6, <2>1, <2>2, <2>3, <1>1, <1>6, <1>8 DEF NotBefore, Going
  <2> QED
    BY <2>4, <2>5
<1>20. ASSUME view.shown # <<>> PROVE Going'
  <2>1. Covers(view) /\ NotBefore(view.shown[1]) /\ Joined(notes, c, view.seq, Upto(c))
    BY <1>20 DEF OneStay, GoesOn, Going
  <2>2. /\ 1 \in 1 .. Len(view.shown) /\ view.shown[1] \in Nat /\ view'.shown[1] = view.shown[1]
        /\ view.shown[1] <= view.seq /\ view.shown[1] <= n
    <3>1. 1 \in 1 .. Len(view.shown) /\ view.shown[1] \in Nat /\ view'.shown[1] = view.shown[1]
      BY <1>2, <1>13, <1>20
    <3> QED
      BY <3>1, <2>1, <1>2, <1>3, <1>4 DEF Covers, NotBefore
  <2>3. n <= view.seq + 1 /\ Joined(notes', c, view'.seq, Upto(c))
    BY <2>1, <1>1, <1>2, <1>3, <1>4, <1>5, JoinedShifts
  <2>4. Covers(view)'
    <3>1. \A i \in 1 .. Len(view'.shown) : view'.shown[i] \in view'.shown[1] .. view'.seq
      <4> SUFFICES ASSUME NEW i \in 1 .. Len(view'.shown) PROVE view'.shown[i] \in view'.shown[1] .. view'.seq
        OBVIOUS
      <4>1. CASE i = Len(view.shown) + 1
        BY <4>1, <2>2, <1>2, <1>4, <1>5, <1>13
      <4>2. CASE i # Len(view.shown) + 1
        <5>1. i \in 1 .. Len(view.shown) /\ view'.shown[i] = view.shown[i]
          BY <4>2, <1>13
        <5>2. view.shown[i] \in view.shown[1] .. view.seq
          BY <5>1, <2>1 DEF Covers
        <5> QED
          BY SMTT(30), <5>1, <5>2, <2>2, <1>2, <1>4, <1>5
      <4> QED
        BY <4>1, <4>2
    <3>2. \A m \in view'.shown[1] .. view'.seq : \E i \in 1 .. Len(view'.shown) : view'.shown[i] = m
      <4> SUFFICES ASSUME NEW m \in view.shown[1] .. view'.seq PROVE \E i \in 1 .. Len(view'.shown) : view'.shown[i] = m
        BY <2>2
      <4>1. CASE m <= view.seq
        <5>1. PICK i \in 1 .. Len(view.shown) : view.shown[i] = m
          BY <4>1, <2>1, <2>2, <1>2 DEF Covers
        <5> QED
          BY <5>1, <1>13
      <4>2. CASE m > view.seq
        <5>1. m = n
          BY <4>2, <2>2, <2>3, <1>2, <1>4, <1>5
        <5>2. Len(view.shown) + 1 \in 1 .. Len(view'.shown)
          BY <1>13
        <5>3. view'.shown[Len(view.shown) + 1] = m
          BY <5>1, <1>13
        <5> QED
          BY <5>2, <5>3
      <4> QED
        BY <4>1, <4>2, <2>2, <1>2
    <3> QED
      BY <3>1, <3>2 DEF Covers
  <2>5. NotBefore(view.shown[1])'
    <3>1. \A i \in 1 .. Len(notes') : At(notes', c, i) => view.shown[1] <= notes'[i].seq
      BY <2>1, <1>17 DEF NotBefore
    <3>2. \A r \in Asking(c)' : r.method = "subscribe" => view.shown[1] <= r.from
      BY <2>1, <1>18 DEF NotBefore
    <3>3. OnCall(c)' => view.shown[1] <= call'.from
      BY <2>1, <1>1, <1>6, <1>8 DEF NotBefore
    <3> QED
      BY <3>1, <3>2, <3>3, <2>2, <1>6 DEF NotBefore
  <2> QED
    BY <2>3, <2>4, <2>5, <1>6, <1>8 DEF Going
<1> QED
  BY <1>5, <1>9, <1>10, <1>12, <1>13, <1>14, <1>16, <1>19, <1>20 DEF OneStay, GoesOn, AskedOnce

LEMMA NotificationStays == Types /\ Known /\ OneStay => (Notification => OneStay')
<1> SUFFICES ASSUME Types, Known, OneStay, Notification PROVE OneStay'
  OBVIOUS
<1> DEFINE note == Head(notes)
<1>1. /\ notes # <<>> /\ notes' = Tail(notes) /\ UNCHANGED <<log, live, call, replies, been>>
      /\ ApplyEvent(note) \/ ApplyPrompt(note)
  BY DEF Notification, daemon, bounds
<1>2. notes \in Seq(NoteRecord) /\ note = notes[1] /\ view \in ViewRecord
  BY <1>1, InView DEF Types
<1>3. CASE ApplyEvent(note) /\ ~Foreign(note) /\ ~Early(note)
  BY <1>3, ShownStays
<1>4. CASE ApplyEvent(note) /\ (Foreign(note) \/ Early(note))
  <2>1. UNCHANGED <<scope, view, requests>>
    BY <1>4 DEF ApplyEvent
  <2>2. At(notes, scope.channel, 1) => view.awaitFirst
    BY <1>2, <1>4 DEF At, Foreign, Early
  <2> QED
    BY <2>1, <2>2, <1>1, PassedOver
<1>5. CASE ApplyPrompt(note)
  <2>1. UNCHANGED <<scope, requests>> /\ ~At(notes, scope.channel, 1)
    BY <1>2, <1>5 DEF ApplyPrompt, At
  <2>2. view'.seq = view.seq /\ view'.shown = view.shown /\ view'.awaitFirst = view.awaitFirst
    BY <1>2, <1>5, UpsertedIs DEF ApplyPrompt
  <2> QED
    BY <2>1, <2>2, <1>1, PassedOver
<1> QED
  BY <1>1, <1>3, <1>4, <1>5

-----------------------------------------------------------------------------
(* The theorems of the terminal                                            *)

LEMMA InitViewInv == TerminalInit => ViewInv
<1> SUFFICES ASSUME TerminalInit PROVE ViewInv
  OBVIOUS
<1>1. /\ Home \in Channels /\ FirstLook \in Nat
  BY TerminalAssumption
<1>2. /\ Reconcile(scope) \in RequestRecord /\ Reconcile(scope).method = "reconcile"
      /\ List \in RequestRecord /\ List.method = "list"
  <2>1. scope.channel = Home /\ scope.gen = 0
    BY DEF TerminalInit
  <2> QED
    BY <2>1, <1>1, RequestTyped DEF Reconcile, List, Methods, Asks
<1>3. log \in [Channels -> Seq(EventRecord)]
  <2>1. [i \in 1 .. FirstLook |-> [kind |-> "chat", of |-> {}]] \in Seq(EventRecord)
    BY <1>1 DEF EventRecord
  <2> QED
    BY <2>1 DEF TerminalInit
<1>4. Types
  <2>1. DOMAIN visited = {} /\ notes \in Seq(NoteRecord) /\ scope \in [channel : Channels, gen : Nat]
    BY <1>1 DEF TerminalInit
  <2>2. scope.channel = Home /\ view = Unseen /\ call = Idle /\ requests = {Reconcile(scope), List}
    BY DEF TerminalInit
  <2>3. /\ live = {} /\ open = {} /\ news = {} /\ replies = {} /\ prompts = {} /\ busy = {}
        /\ been = {Home} /\ returns = 0
    BY DEF TerminalInit
  <2> QED
    BY <2>1, <2>2, <2>3, <1>1, <1>2, <1>3, UnseenTyped, IdleTyped DEF Types
<1>5. Known
  BY <1>1, <1>2, <1>4, UnseenTyped, InView DEF TerminalInit, Known
<1>6. OneStay
  <2>1. view.shown = <<>> /\ view.seq = 0 /\ ~view.awaitFirst /\ notes = <<>> /\ live = {} /\ call = Idle
        /\ replies = {} /\ requests = {Reconcile(scope), List} /\ scope.channel = Home /\ been = {Home}
    BY UnseenTyped DEF TerminalInit
  <2>2. \A ch : Quiet(ch) /\ Answering(ch) = {} /\ \A i \in 1 .. Len(notes) : ~At(notes, ch, i)
    BY <2>1 DEF Quiet, OnCall, Answering
  <2>3. \A ch : \A r \in Asking(ch) : r = Reconcile(scope) /\ ch = Home
    BY <2>1, <1>2 DEF Asking, Asks, Reconcile, Request
  <2>4. NewIsQuiet /\ LeftForGood
    BY <2>1, <2>2, <2>3, <1>2 DEF NewIsQuiet, LeftForGood
  <2>5. Followed /\ ShownIsSeen /\ SteadyHere /\ GoesOn
    BY <2>1, <2>2 DEF Followed, ShownIsSeen, SteadyHere, Steady, GoesOn
  <2>6. First
    BY <2>1, <2>2, <2>3 DEF First, Ascending, Quiet
  <2> QED
    BY <2>4, <2>5, <2>6 DEF OneStay, AskedOnce
<1> QED
  BY <1>4, <1>5, <1>6 DEF ViewInv, Stay

LEMMA NextViewInv == ViewInv /\ [TerminalNext]_terminalVars => ViewInv'
<1> SUFFICES ASSUME ViewInv, [TerminalNext]_terminalVars PROVE ViewInv'
  OBVIOUS
<1>1. Types /\ Known /\ (returns = 0 => OneStay)
  BY DEF ViewInv, Stay
<1>2. ASSUME NEW ch \in Channels, Happens(ch) PROVE ViewInv'
  BY <1>1, <1>2, HappensTyped, HappensStays DEF ViewInv, Stay, Happens
<1>3. ASSUME NEW ch \in Channels, Bind(ch) PROVE ViewInv'
  <2>1. Types' /\ Known'
    BY <1>1, <1>3, BindTyped
  <2>2. returns' = 0 => returns = 0 /\ ch \notin been
    BY <1>1, <1>3 DEF Bind, Returning, Types
  <2> QED
    BY <2>1, <2>2, <1>1, <1>3, BindStays DEF ViewInv, Stay
<1>4. ASSUME NEW p \in Prompts, Ask(p) \/ Withdraw(p) PROVE ViewInv'
  <2>1. returns' = returns
    BY <1>4 DEF Ask, Withdraw, bounds
  <2> QED
    BY <2>1, <1>1, <1>4, AskTyped, AskStays DEF ViewInv, Stay
<1>5. ASSUME NEW p \in Prompts, Answer(p) PROVE ViewInv'
  BY <1>1, <1>5, AnswerTyped, AskStays DEF ViewInv, Stay, Answer
<1>6. CASE History
  BY <1>1, <1>6, HistoryTyped, HistoryStays DEF ViewInv, Stay, History
<1>7. ASSUME NEW p \in Prompts, Record(p) PROVE ViewInv'
  BY <1>1, <1>7, RecordTyped, RecordStays DEF ViewInv, Stay, Record, bounds
<1>8. ASSUME NEW note \in news, Announce(note) PROVE ViewInv'
  BY <1>1, <1>8, AnnounceTyped, AnnounceStays DEF ViewInv, Stay, Announce, bounds
<1>9. CASE Replay
  BY <1>1, <1>9, ReplayTyped, ReplayStays DEF ViewInv, Stay, Replay, bounds
<1>10. CASE GoLive
  BY <1>1, <1>10, GoLiveTyped, GoLiveStays DEF ViewInv, Stay, GoLive, bounds
<1>11. ASSUME NEW r \in requests, Serve(r) PROVE ViewInv'
  <2>1. Types' /\ Known'
    BY <1>1, <1>11, ServeTyped, StartTyped DEF Serve
  <2>2. returns' = returns
    BY <1>11 DEF Serve, ServeReconcile, ServePending, ServeList, ServeAnswer, ServeUnsubscribe, Start, bounds
  <2>3. OneStay => OneStay'
    BY <1>1, <1>11, ServeReconcileStays, ServePendingStays, ServeListStays, UnsubscribeStays, StartStays DEF Serve
  <2> QED
    BY <2>1, <2>2, <2>3, <1>1 DEF ViewInv, Stay
<1>12. CASE Notification
  BY <1>1, <1>12, NotificationTyped, NotificationStays DEF ViewInv, Stay, Notification, bounds
<1>13. ASSUME NEW r \in replies, HandleReply(r) PROVE ViewInv'
  <2>1. Types' /\ Known' /\ returns' = returns
    BY <1>1, <1>13, ReplyTyped DEF HandleReply, bounds
  <2>2. OneStay => OneStay'
    <3>1. CASE ApplyReconcile(r) /\ Current(r)
      BY <3>1, <1>1, <1>13, ReconcileStays
    <3>2. CASE ~(ApplyReconcile(r) /\ Current(r))
      BY <3>2, <1>1, <1>13, OtherReplyStays DEF HandleReply
    <3> QED
      BY <3>1, <3>2
  <2> QED
    BY <2>1, <2>2, <1>1 DEF ViewInv, Stay
<1>14. CASE UNCHANGED terminalVars
  <2>1. UNCHANGED <<log, live, call, open, stage, news, requests, notes, replies,
                    scope, view, visited, prompts, busy, work, dirs, been, returns>>
    BY <1>14 DEF terminalVars, daemon, wire, terminal, bounds
  <2>2. Types' /\ Known'
    BY <2>1, <1>1 DEF Types, Known
  <2>3. OneStay => OneStay'
    BY <2>1, <1>1, Unmoved
  <2> QED
    BY <2>1, <2>2, <2>3, <1>1 DEF ViewInv, Stay
<1> QED
  BY <1>2, <1>3, <1>4, <1>5, <1>6, <1>7, <1>8, <1>9, <1>10, <1>11, <1>12, <1>13, <1>14
     DEF TerminalNext, System, Daemon

LEMMA ViewInvHolds == TerminalSpec => []ViewInv
<1>1. TerminalInit => ViewInv
  BY InitViewInv
<1>2. ViewInv /\ [TerminalNext]_terminalVars => ViewInv'
  BY NextViewInv
<1> QED
  BY <1>1, <1>2, PTL DEF TerminalSpec

\* The view of a terminal is one of the channel in view: bind_channel, apply_event
\* and on_reconcile never leave it with an event that channel has not got.
THEOREM ViewTyped == TerminalSpec => []TerminalTypeOK
<1>1. ViewInv => TerminalTypeOK
  <2> SUFFICES ASSUME ViewInv PROVE TerminalTypeOK
    OBVIOUS
  <2>1. Types /\ Known
    BY DEF ViewInv
  <2>2. view \in ViewRecord /\ scope.channel \in Channels /\ view.seq \in Nat /\ Len(log[scope.channel]) \in Nat
    BY <2>1, InView
  <2>3. ViewType
    BY <2>1, <2>2 DEF ViewType, Known, ViewRecord, Cards
  <2> QED
    BY <2>1, <2>2, <2>3 DEF Types, TerminalTypeOK
<1> QED
  BY <1>1, ViewInvHolds, PTL

\* For any number of channels, events and first looks, whatever is replayed, live,
\* dropped or asked for again after a directory change or /history: apply_event
\* shows every event between the first and the last that are in view.
THEOREM ViewHasNoGap == TerminalSpec => []NothingSkipped
<1>1. ViewInv => NothingSkipped
  <2> SUFFICES ASSUME ViewInv, returns = 0 PROVE NothingSkipped
    BY DEF NothingSkipped
  <2>1. Types /\ OneStay
    BY DEF ViewInv, Stay
  <2>2. ASSUME NEW i \in 1 .. Len(view.shown), view.shown[i] # view.seq
        PROVE \E j \in 1 .. Len(view.shown) : view.shown[j] = view.shown[i] + 1
    <3>1. view.shown \in Seq(Nat) /\ view.seq \in Nat
      BY <2>1, InView
    <3>2. view.shown # <<>> /\ view.shown[1] \in Nat /\ view.shown[i] \in Nat
      BY <2>2, <3>1
    <3>3. Covers(view)
      BY <2>1, <3>2 DEF OneStay, GoesOn, Going
    <3>4. view.shown[i] + 1 \in view.shown[1] .. view.seq
      BY <2>2, <3>1, <3>2, <3>3 DEF Covers
    <3> QED
      BY <3>3, <3>4 DEF Covers
  <2> DEFINE seen == {view.shown[i] : i \in 1 .. Len(view.shown)}
  <2>3. \A n \in seen : n = view.seq \/ n + 1 \in seen
    <3> TAKE n \in seen
    <3>1. PICK i \in 1 .. Len(view.shown) : n = view.shown[i]
      OBVIOUS
    <3> QED
      BY <3>1, <2>2
  <2> QED
    BY <2>3 DEF NothingSkipped
<1> QED
  BY <1>1, ViewInvHolds, PTL
=============================================================================

-------------------------- MODULE AdmissionProofs --------------------------
(***************************************************************************)
(* Theorems about the calls of tools (src/agent/permission.rs,             *)
(* src/agent/security.rs, src/policy.rs, src/agent/runtime/settings.rs)    *)
(* for any number of agents, owners, directories, rules and configurations:*)
(* whatever commands, sweeps and answers interleave, each call that runs   *)
(* may run, and only people widen what agents may do.                      *)
(***************************************************************************)
EXTENDS Admission, TLAPS, FiniteSetTheorems, FunctionTheorems, WellFoundedInduction

Stages == {"out", "idle", "decided", "asked", "grant", "run"}
Busy == {"decided", "asked", "grant", "run"}
Decision == [verb : {"none"} \cup Verbs, boundary : Dirs \cup {NoDir}, control : BOOLEAN,
             bare : BOOLEAN, egress : BOOLEAN, hidden : BOOLEAN]
Reaction == [value : {"none"} \cup Values, by : {"none", "human", "default", "mode"},
             mode : {"none"} \cup Modes, dir : Dirs \cup {NoDir}]
Turn == [stage : Stages, call : Calls \cup {NoFamily}, plan : Configs, mode : Modes,
         dir : Dirs, dirs : SUBSET Dirs, decision : Decision, repeat : BOOLEAN,
         answer : Reaction, key : Calls \cup {NoFamily}, count : 0 .. 3, streak : 0 .. 2]

ChannelTyped ==
  /\ mode \in Modes /\ dir \in Dirs /\ added \subseteq Dirs /\ config \in Configs
  /\ \A p \in permits : p.on \in Targets \cup {Family[t] : t \in Targets} /\ p.on # NoFamily
  /\ grants \in [Agents -> [inherit : BOOLEAN, dirs : SUBSET (Dirs \cup {NoDir})]]
  /\ \A a \in Agents : grants[a].dirs \subseteq Dirs \/ grants[a] = Unborn
  /\ \A a \in Agents : grants[a].inherit => a = Root

OwnersTyped ==
  /\ sweep \in [Handlers -> [at : {"none", "allow", "deny"}, mode : Modes]]
  /\ events \in 0 .. MaxEvents

\* A call that nobody was asked about needs a rule, a permit or a mode; a
\* permit stays for as long as somebody has a turn.
Warranted(r) ==
  \/ r.mode = "yolo"
  \/ /\ r.decision.boundary = NoDir
     /\ \/ Ruled(r.plan, r.call) = "allow" /\ ~r.call.compound
        \/ Covers(r.call)
        \/ HostsAllow(r.plan, r.call)
        \/ r.mode = "auto" /\ ~r.decision.egress

\* What the decision on a call promises from then on.
Judged(a, r) ==
  /\ r.call \in Makes[a] /\ r.decision.verb \in {"allow", "ask"}
  /\ NothingForbidden(a, r)
  /\ r.decision.verb = "allow" =>
       ~r.decision.control /\ ~r.decision.bare /\ Warranted(r)

\* An answer comes to what was asked; only people give one to be remembered,
\* and a sweep gives the verdict that its mode has for the prompt.
Answerable(r) ==
  /\ r.answer # NoAnswer => r.answer.value # "none" /\ r.answer.by # "none"
  /\ r.answer # NoAnswer => r.stage \in {"asked", "grant", "run"}
  /\ r.stage \in {"grant", "run"} =>
       \/ Accepted(r.answer)
       \/ r.stage = "run" /\ r.answer = NoAnswer /\ r.decision.verb = "allow" /\ ~r.repeat
  /\ r.answer.value \in Remembered => r.answer.by = "human"
  /\ r.answer.by = "mode" =>
       r.answer.mode \in Modes /\ PromptVerdict(r, r.answer.mode) = r.answer.value
  /\ r.stage = "grant" => r.answer.value \in Remembered /\ r.decision.boundary # NoDir

\* A call that ran unasked in a row is counted.
Counted(r) == r.streak <= r.count

Good(a, r) ==
  /\ r \in Turn
  /\ r.stage # "out" => r.dir = dir /\ grants[a] # Unborn
  /\ r.stage \in Busy => Judged(a, r)
  /\ r.stage \notin Busy => r.decision.verb = "none" /\ ~r.repeat
  /\ Answerable(r) /\ Counted(r)

AgentsGood == agent \in [Agents -> Turn] /\ \A a \in Agents : Good(a, agent[a])

IInv == ChannelTyped /\ OwnersTyped /\ AgentsGood

-----------------------------------------------------------------------------
(* The policy                                                              *)

LEMMA Smallest ==
  ASSUME NEW S \in SUBSET Nat, S # {}
  PROVE  \E t \in S : \A u \in S : t <= u
<1>1. \E t \in S : \A u \in S : ~(<<u, t>> \in OpToRel(<, Nat))
  BY NatLessThanWellFounded, WFMin
<1>2. PICK t \in S : \A u \in S : ~(u < t)
  BY <1>1 DEF OpToRel
<1>3. ASSUME NEW u \in S PROVE t <= u
  <2>1. t \in Nat /\ u \in Nat /\ ~(u < t)
    BY <1>2
  <2> QED
    BY <2>1
<1> QED
  BY <1>3

\* Some number of a finite set is the largest: else a smallest set without
\* one would have a smaller set without one.
LEMMA Largest ==
  ASSUME NEW S \in SUBSET Nat, IsFiniteSet(S), S # {}
  PROVE  \E t \in S : \A u \in S : u <= t
<1> DEFINE Open(T) == T # {} /\ IsFiniteSet(T) /\ \A t \in T : \E u \in T : ~(u <= t)
           Sizes == {k \in Nat : \E T \in SUBSET S : Open(T) /\ Cardinality(T) = k}
<1>1. SUFFICES ASSUME Open(S) PROVE FALSE
  OBVIOUS
<1>2. Sizes \in SUBSET Nat /\ Sizes # {}
  BY <1>1, FS_CardinalityType
<1>3. PICK k \in Sizes : \A n \in Sizes : k <= n
  <2> HIDE DEF Sizes
  <2> QED
    BY <1>2, Smallest
<1>4. PICK T \in SUBSET S : Open(T) /\ Cardinality(T) = k
  OBVIOUS
<1>5. PICK x \in T : TRUE
  BY <1>4
<1>6. IsFiniteSet(T \ {x}) /\ Cardinality(T \ {x}) = k - 1 /\ k - 1 \in Nat
  <2>1. IsFiniteSet(T \ {x}) /\ Cardinality(T \ {x}) = k - 1
    BY <1>4, <1>5, FS_RemoveElement
  <2>2. Cardinality(T \ {x}) \in Nat
    BY <2>1, FS_CardinalityType
  <2> QED
    BY <2>1, <2>2
<1>7. k \in Nat /\ T \subseteq Nat
  OBVIOUS
<1>8. CASE T \ {x} = {}
  <2>1. T = {x}
    BY <1>5, <1>8
  <2> QED
    BY <1>4, <1>7, <2>1
<1>9. CASE T \ {x} # {}
  <2>1. k - 1 \notin Sizes
    BY <1>3, <1>6, <1>7
  <2>2. T \ {x} \in SUBSET S
    BY <1>4
  <2>3. PICK t \in T \ {x} : \A u \in T \ {x} : u <= t
    BY <1>6, <1>9, <2>1, <2>2
  <2>4. \A u \in T : u <= (IF x <= t THEN t ELSE x)
    BY <1>5, <1>7, <2>3
  <2> QED
    BY <1>4, <1>5, <2>3, <2>4
<1> QED
  BY <1>8, <1>9

\* The tightest of some verbs is one of them: "deny" if that is one, and
\* "none" only if there is no other.
LEMMA TightestOf ==
  ASSUME NEW vs \in SUBSET ({"none"} \cup Verbs), vs # {}
  PROVE  /\ Tightest(vs) \in vs
         /\ "deny" \in vs => Tightest(vs) = "deny"
         /\ vs # {"none"} => Tightest(vs) # "none"
<1>1. Rank["none"] = 0 /\ Rank["allow"] = 1 /\ Rank["ask"] = 2 /\ Rank["deny"] = 3
  BY DEF Rank, Verbs
<1>2. \A v \in vs : v \in {"none", "allow", "ask", "deny"}
  BY DEF Verbs
<1>3. \E v \in vs : \A w \in vs : Rank[w] <= Rank[v]
  <2>1. CASE "deny" \in vs
    BY <1>1, <1>2, <2>1
  <2>2. CASE "deny" \notin vs /\ "ask" \in vs
    BY <1>1, <1>2, <2>2
  <2>3. CASE "deny" \notin vs /\ "ask" \notin vs /\ "allow" \in vs
    BY <1>1, <1>2, <2>3
  <2>4. CASE vs = {"none"}
    BY <1>1, <2>4
  <2> QED
    BY <1>2, <2>1, <2>2, <2>3, <2>4
<1>4. Tightest(vs) \in vs /\ \A w \in vs : Rank[w] <= Rank[Tightest(vs)]
  BY <1>3 DEF Tightest
<1>5. ASSUME "deny" \in vs PROVE Tightest(vs) = "deny"
  <2>1. 3 <= Rank[Tightest(vs)]
    BY <1>1, <1>4, <1>5
  <2>2. Tightest(vs) \in {"none", "allow", "ask", "deny"}
    BY <1>2, <1>4
  <2> QED
    BY <1>1, <2>1, <2>2
<1>6. ASSUME Tightest(vs) = "none" PROVE vs = {"none"}
  <2>1. \A w \in vs : Rank[w] <= 0
    BY <1>1, <1>4, <1>6
  <2>2. \A w \in vs : w = "none"
    BY <1>1, <1>2, <2>1
  <2> QED
    BY <2>2
<1> QED
  BY <1>4, <1>5, <1>6

LEMMA Layers ==
  ASSUME NEW cf \in Configs, NEW layer \in {cf.base} \cup cf.overlays
  PROVE  layer \subseteq Rule /\ IsFiniteSet(layer)
BY AdmissionAssumption

LEMMA LookupTyped ==
  ASSUME NEW layer, layer \subseteq Rule, IsFiniteSet(layer), NEW op, NEW t
  PROVE  Lookup(layer, op, t) \in {"none"} \cup Verbs
<1> DEFINE hits == {r \in layer : op \in r.ops /\ t \in r.targets}
           best == {r \in hits : \A s \in hits : s.literal <= r.literal}
           literals == {r.literal : r \in hits}
           verbs == {r.verb : r \in best}
<1>1. Lookup(layer, op, t) = IF hits = {} THEN "none" ELSE Tightest(verbs)
  BY DEF Lookup
<1>2. hits \in SUBSET layer /\ IsFiniteSet(hits)
  BY FS_Subset
<1>3. ASSUME hits # {} PROVE best # {}
  <2>1. IsFiniteSet(literals)
    <3> DEFINE f == [r \in hits |-> r.literal]
    <3>1. f \in [hits -> literals] /\ \A n \in literals : \E r \in hits : f[r] = n
      OBVIOUS
    <3> HIDE DEF f, literals, hits
    <3>2. f \in Surjection(hits, literals)
      BY <3>1, Fun_IsSurj
    <3> QED
      BY <1>2, <3>2, FS_Surjection
  <2>2. literals \in SUBSET Nat /\ literals # {}
    BY <1>3 DEF Rule
  <2>3. PICK n \in literals : \A m \in literals : m <= n
    <3> HIDE DEF literals
    <3> QED
      BY <2>1, <2>2, Largest
  <2>4. PICK r \in hits : r.literal = n
    BY <2>3
  <2>5. r \in best
    BY <2>3, <2>4
  <2> QED
    BY <2>5
<1>4. verbs \in SUBSET Verbs
  BY DEF Rule
<1>5. ASSUME hits # {} PROVE Tightest(verbs) \in Verbs
  <2>1. verbs # {} /\ verbs \in SUBSET ({"none"} \cup Verbs)
    BY <1>3, <1>4, <1>5
  <2> HIDE DEF verbs
  <2> QED
    BY <1>4, <2>1, TightestOf
<1> QED
  BY <1>1, <1>5

\* Layers only tighten, and a call is ruled as its worst part: what a layer
\* denies to a part of it, is denied.
LEMMA RuledTyped ==
  ASSUME NEW cf \in Configs, NEW c \in Calls
  PROVE  /\ Ruled(cf, c) \in Verbs
         /\ Ruled(cf, c) # "deny" =>
              \A layer \in {cf.base} \cup cf.overlays, t \in c.values :
                Lookup(layer, c.op, t) # "deny"
<1> DEFINE looked(t) == {BaseVerb(cf, c.op, t)} \cup {Lookup(o, c.op, t) : o \in cf.overlays}
           parts == {Layered(cf, c.op, t) : t \in c.values}
<1>1. ASSUME NEW t
      PROVE  /\ Lookup(cf.base, c.op, t) \in {"none"} \cup Verbs
             /\ \A o \in cf.overlays : Lookup(o, c.op, t) \in {"none"} \cup Verbs
  BY Layers, LookupTyped
<1>2. ASSUME NEW t
      PROVE  BaseVerb(cf, c.op, t) \in Verbs
  BY <1>1 DEF BaseVerb, Verbs
<1>3. ASSUME NEW t
      PROVE  /\ Layered(cf, c.op, t) \in Verbs
             /\ Layered(cf, c.op, t) # "deny" =>
                  \A layer \in {cf.base} \cup cf.overlays : Lookup(layer, c.op, t) # "deny"
  <2>1. looked(t) \in SUBSET ({"none"} \cup Verbs) /\ looked(t) # {}
    BY <1>1, <1>2
  <2>2. Layered(cf, c.op, t) = Tightest(looked(t))
    BY DEF Layered
  <2>3. looked(t) # {"none"}
    BY <1>2 DEF Verbs
  <2>4. /\ Tightest(looked(t)) \in looked(t) /\ Tightest(looked(t)) # "none"
        /\ "deny" \in looked(t) => Tightest(looked(t)) = "deny"
    <3> HIDE DEF looked
    <3> QED
      BY <2>1, <2>3, TightestOf
  <2>5. \A layer \in {cf.base} \cup cf.overlays :
          Lookup(layer, c.op, t) = "deny" => "deny" \in looked(t)
    BY DEF BaseVerb
  <2> QED
    BY <2>1, <2>2, <2>4, <2>5
<1>4. parts \in SUBSET Verbs /\ parts # {}
  <2>1. c.first \in c.values
    BY AdmissionAssumption
  <2> QED
    BY <1>3, <2>1
<1>5. Ruled(cf, c) = Tightest(parts)
  BY DEF Ruled
<1>6. Tightest(parts) \in parts /\ ("deny" \in parts => Tightest(parts) = "deny")
  <2>1. parts \in SUBSET ({"none"} \cup Verbs)
    BY <1>4
  <2> HIDE DEF parts
  <2> QED
    BY <1>4, <2>1, TightestOf
<1>7. ASSUME Ruled(cf, c) # "deny", NEW layer \in {cf.base} \cup cf.overlays, NEW t \in c.values
      PROVE  Lookup(layer, c.op, t) # "deny"
  <2>1. Layered(cf, c.op, t) # "deny"
    BY <1>5, <1>6, <1>7
  <2> QED
    BY <1>3, <2>1
<1> QED
  BY <1>4, <1>5, <1>6, <1>7

-----------------------------------------------------------------------------
(* Directories and the decision                                            *)

LEMMA DirsTyped ==
  ASSUME ChannelTyped, NEW a \in Agents, grants[a] # Unborn
  PROVE  /\ AgentDirs(a) \in SUBSET Dirs
         /\ a # Root => AgentDirs(a) \subseteq grants[a].dirs
<1>1. ChannelDirs \in SUBSET Dirs
  BY AdmissionAssumption DEF ChannelDirs, ChannelTyped
<1>2. grants[a].dirs \subseteq Dirs /\ (grants[a].inherit => a = Root)
  BY DEF ChannelTyped
<1> QED
  BY <1>1, <1>2 DEF AgentDirs

\* What is offered is a directory, and none is where nothing is outside.
LEMMA OutsideTyped ==
  ASSUME NEW c \in Calls, NEW ds
  PROVE  /\ Outside(c, ds) \in Dirs \cup {NoDir}
         /\ Outside(c, ds) = NoDir => \A t \in Candidates(c) : Contains(ds, t)
<1> DEFINE out == {t \in Candidates(c) : ~Contains(ds, t)}
<1>1. out \subseteq Targets
  BY AdmissionAssumption DEF Candidates
<1>2. Outside(c, ds) = IF out = {} THEN NoDir ELSE GrantDir[CHOOSE t \in out : TRUE]
  BY DEF Outside
<1>3. out # {} => GrantDir[CHOOSE t \in out : TRUE] \in Dirs
  BY <1>1, AdmissionAssumption
<1>4. NoDir \notin Dirs
  BY AdmissionAssumption
<1> QED
  BY <1>2, <1>3, <1>4

LEMMA VerdictTyped ==
  ASSUME NEW m \in Modes, NEW sticky \in BOOLEAN, NEW egress \in BOOLEAN, NEW outside \in BOOLEAN
  PROVE  /\ ModeVerdict(m, sticky, egress, outside) \in Verbs
         /\ ModeVerdict(m, sticky, egress, outside) = "allow" =>
              ~sticky /\ (m = "yolo" \/ (m = "auto" /\ ~outside /\ ~egress))
BY DEF ModeVerdict, Verbs, Modes

\* What may be let through unasked.
LEMMA JudgeSound ==
  ASSUME NEW d \in Decision, NEW ruled \in Verbs, NEW compound \in BOOLEAN,
         NEW permitted \in BOOLEAN, NEW m \in Modes
  PROVE  /\ Judge(d, ruled, compound, permitted, m) \in Verbs
         /\ Judge(d, ruled, compound, permitted, m) # "deny" => ~d.hidden /\ ruled # "deny"
         /\ Judge(d, ruled, compound, permitted, m) = "allow" =>
              /\ ~d.control /\ ~d.bare
              /\ \/ m = "yolo"
                 \/ /\ d.boundary = NoDir
                    /\ (ruled = "allow" /\ ~compound) \/ permitted \/ (m = "auto" /\ ~d.egress)
<1> DEFINE outside == d.boundary # NoDir
           v == Judge(d, ruled, compound, permitted, m)
           mv == ModeVerdict(m, d.control, d.egress, outside)
<1> USE DEF Decision
<1>0. /\ mv \in Verbs
      /\ mv = "allow" => ~d.control /\ (m = "yolo" \/ (m = "auto" /\ ~outside /\ ~d.egress))
  BY VerdictTyped
<1> HIDE DEF mv
<1>1. CASE d.hidden
  <2>1. v = "deny"
    BY <1>1 DEF Judge
  <2> QED
    BY <1>1, <2>1 DEF Verbs
<1>2. CASE ~d.hidden /\ d.bare
  <2>1. v \in {"deny", "ask"} /\ (ruled = "deny" => v = "deny")
    BY <1>2 DEF Judge, Verbs
  <2> QED
    BY <1>2, <2>1 DEF Verbs
<1>3. CASE ~d.hidden /\ ~d.bare /\ ruled = "deny"
  <2>1. v = "deny"
    BY <1>3 DEF Judge
  <2> QED
    BY <2>1 DEF Verbs
<1>4. CASE ~d.hidden /\ ~d.bare /\ ruled # "deny"
  <2> DEFINE asks == (ruled = "ask" \/ (ruled = "allow" /\ (compound \/ d.control))) /\ (d.control \/ ~permitted)
  <2>1. v = IF asks \/ outside THEN mv ELSE "allow"
    BY <1>4 DEF Judge, mv
  <2>2. CASE asks \/ outside
    BY <1>0, <1>4, <2>1, <2>2
  <2>3. CASE ~asks /\ ~outside
    BY <1>4, <2>1, <2>3 DEF Verbs
  <2> QED
    BY <2>2, <2>3
<1> QED
  BY <1>1, <1>2, <1>3, <1>4

\* What a decision that does not deny promises.
LEMMA DecideSound ==
  ASSUME ChannelTyped, NEW a \in Agents, grants[a] # Unborn, NEW cf \in Configs,
         NEW c \in Makes[a]
  PROVE  LET d == Decide(a, cf, c)
             ds == AgentDirs(a)
         IN  /\ d \in Decision /\ d.verb \in Verbs
             /\ d.verb # "deny" =>
                  /\ c.kind = "path" => c.values \cap Credentials = {}
                  /\ \A layer \in {cf.base} \cup cf.overlays, t \in c.values :
                       Lookup(layer, c.op, t) # "deny"
                  /\ a # Root /\ c.kind \in {"path", "command"} =>
                       \A t \in c.values : Contains(ds, t)
             /\ d.verb = "allow" =>
                  /\ ~d.control /\ ~d.bare
                  /\ \/ mode = "yolo"
                     \/ /\ d.boundary = NoDir
                        /\ \/ Ruled(cf, c) = "allow" /\ ~c.compound
                           \/ Covers(c) \/ HostsAllow(cf, c)
                           \/ mode = "auto" /\ ~d.egress
<1> DEFINE ds == AgentDirs(a)
           d == [verb |-> "deny", boundary |-> Outside(c, ds), control |-> ControlFile(c, ds),
                 bare |-> c.kind = "command" /\ cf.sandbox /\ ~FullSandbox,
                 egress |-> Egress(c), hidden |-> HiddenFrom(c, ChannelDirs)]
           permitted == Covers(c) \/ HostsAllow(cf, c)
           judged == Judge(d, Ruled(cf, c), c.compound, permitted, mode)
           refused == \/ a \in ReadOnly /\ c.op = "patch"
                      \/ a \in ReadOnly /\ c.op = "shell" /\ ~(cf.sandbox /\ FullSandbox)
                      \/ a # Root /\ (ds = {} \/ d.boundary # NoDir)
           verb == IF refused THEN "deny" ELSE judged
<1>1. c \in Calls /\ mode \in Modes
  BY AdmissionAssumption DEF ChannelTyped
<1>2. Outside(c, ds) \in Dirs \cup {NoDir}
  BY <1>1, OutsideTyped
<1>3. /\ d.control \in BOOLEAN /\ d.bare \in BOOLEAN /\ d.egress \in BOOLEAN /\ d.hidden \in BOOLEAN
      /\ d.boundary = Outside(c, ds) /\ (d.hidden <=> HiddenFrom(c, ChannelDirs))
  BY DEF ControlFile, Egress, HiddenFrom
<1>4. Decide(a, cf, c) = [d EXCEPT !.verb = verb]
  BY DEF Decide
<1>5. Ruled(cf, c) \in Verbs /\ permitted \in BOOLEAN
  BY <1>1, RuledTyped DEF Covers, HostsAllow
<1>6. /\ judged \in Verbs
      /\ judged # "deny" => ~d.hidden /\ Ruled(cf, c) # "deny"
      /\ judged = "allow" =>
           /\ ~d.control /\ ~d.bare
           /\ \/ mode = "yolo"
              \/ /\ d.boundary = NoDir
                 /\ \/ Ruled(cf, c) = "allow" /\ ~c.compound
                    \/ permitted
                    \/ mode = "auto" /\ ~d.egress
  <2> DEFINE ruled == Ruled(cf, c)
  <2>1. ruled \in Verbs /\ permitted \in BOOLEAN /\ mode \in Modes
    BY <1>1, <1>5
  <2>2. d \in Decision /\ c.compound \in BOOLEAN
    BY <1>1, <1>2, AdmissionAssumption DEF Decision, Verbs, ControlFile, Egress, HiddenFrom
  <2> HIDE DEF d, permitted, ruled
  <2>3. /\ Judge(d, ruled, c.compound, permitted, mode) \in Verbs
        /\ Judge(d, ruled, c.compound, permitted, mode) # "deny" => ~d.hidden /\ ruled # "deny"
        /\ Judge(d, ruled, c.compound, permitted, mode) = "allow" =>
             /\ ~d.control /\ ~d.bare
             /\ \/ mode = "yolo"
                \/ /\ d.boundary = NoDir
                   /\ (ruled = "allow" /\ ~c.compound) \/ permitted \/ (mode = "auto" /\ ~d.egress)
    BY <2>1, <2>2, JudgeSound
  <2> QED
    BY <2>3 DEF ruled
<1>7. verb \in Verbs /\ (verb # "deny" => ~refused /\ verb = judged)
  BY <1>6 DEF Verbs
<1>8. /\ Decide(a, cf, c).verb = verb /\ Decide(a, cf, c).boundary = d.boundary
      /\ Decide(a, cf, c).control = d.control /\ Decide(a, cf, c).bare = d.bare
      /\ Decide(a, cf, c).egress = d.egress
  BY <1>4
<1>9. Decide(a, cf, c) \in Decision
  <2>1. d \in [verb : {"deny"}, boundary : Dirs \cup {NoDir}, control : BOOLEAN,
               bare : BOOLEAN, egress : BOOLEAN, hidden : BOOLEAN]
    BY <1>2, <1>3
  <2> HIDE DEF d, verb
  <2> QED
    BY <1>4, <1>7, <2>1 DEF Decision
<1>10. ASSUME verb # "deny"
       PROVE  /\ c.kind = "path" => c.values \cap Credentials = {}
              /\ \A layer \in {cf.base} \cup cf.overlays, t \in c.values :
                   Lookup(layer, c.op, t) # "deny"
              /\ a # Root /\ c.kind \in {"path", "command"} =>
                   \A t \in c.values : Contains(ds, t)
  <2>1. ~refused /\ judged # "deny"
    BY <1>7, <1>10
  <2>2. ~HiddenFrom(c, ChannelDirs) /\ Ruled(cf, c) # "deny"
    BY <1>3, <1>6, <2>1
  <2>3. c.kind = "path" => c.values \cap Credentials = {}
    BY <2>2 DEF HiddenFrom, HiddenPaths
  <2>4. \A layer \in {cf.base} \cup cf.overlays, t \in c.values : Lookup(layer, c.op, t) # "deny"
    BY <1>1, <2>2, RuledTyped
  <2>5. a # Root => Outside(c, ds) = NoDir
    BY <2>1
  <2>6. a # Root /\ c.kind \in {"path", "command"} => \A t \in c.values : Contains(ds, t)
    BY <1>1, <2>5, OutsideTyped DEF Candidates
  <2> QED
    BY <2>3, <2>4, <2>6
<1> HIDE DEF d, verb, judged, permitted
<1> QED
  BY <1>6, <1>7, <1>8, <1>9, <1>10 DEF permitted

-----------------------------------------------------------------------------
(* What stays true of a turn                                               *)

\* While permits are only added and the channel stays, so does what a call
\* was judged by; a task's directories do not change once it is there.
LEMMA GoodStays ==
  ASSUME NEW a \in Agents, NEW r, Good(a, r), permits \subseteq permits', UNCHANGED dir,
         grants[a] # Unborn => grants'[a] = grants[a]
  PROVE  Good(a, r)'
<1>1. \A c : Covers(c) => Covers(c)'
  BY DEF Covers
<1>2. Warranted(r) => Warranted(r)'
  BY <1>1 DEF Warranted
<1>3. CASE r.stage = "out"
  BY <1>3 DEF Good, Busy
<1>4. CASE r.stage # "out"
  <2>1. grants'[a] = grants[a] /\ grants[a] # Unborn
    BY <1>4 DEF Good
  <2>2. NothingForbidden(a, r) => NothingForbidden(a, r)'
    BY <2>1 DEF NothingForbidden
  <2>3. Judged(a, r) => Judged(a, r)'
    BY <1>2, <2>2 DEF Judged
  <2> QED
    BY <2>1, <2>3 DEF Good
<1> QED
  BY <1>3, <1>4

LEMMA Replaced ==
  ASSUME AgentsGood, NEW a \in Agents, NEW r, Good(a, r), agent' = [agent EXCEPT ![a] = r],
         permits \subseteq permits', UNCHANGED <<dir, grants>>
  PROVE  AgentsGood'
<1>1. agent' \in [Agents -> Turn]
  BY DEF AgentsGood, Good
<1>2. ASSUME NEW b \in Agents PROVE Good(b, agent[b])' 
  <2>1. PICK s : s = agent'[b]
    OBVIOUS
  <2>2. Good(b, s)
    <3>1. Good(b, agent[b]) /\ agent \in [Agents -> Turn]
      BY DEF AgentsGood
    <3>2. s = IF b = a THEN r ELSE agent[b]
      BY <2>1, <3>1
    <3> QED
      BY <3>1, <3>2
  <2>3. Good(b, s)'
    BY <2>2, GoodStays
  <2> QED
    BY <2>1, <2>3
<1> QED
  BY <1>1, <1>2 DEF AgentsGood

LEMMA TurnTyped ==
  ASSUME AgentsGood, NEW a \in Agents
  PROVE  Good(a, agent[a]) /\ agent[a] \in Turn
BY DEF AgentsGood

LEMMA Constants ==
  /\ NoAnswer \in Reaction /\ NoAnswer.value = "none" /\ NoAnswer.by = "none"
  /\ NoDecision \in Decision /\ NoDecision.verb = "none" /\ Home \in Dirs
  /\ (CHOOSE cf \in Configs : TRUE) \in Configs \/ Configs = {}
BY AdmissionAssumption DEF NoAnswer, Reaction, NoDecision, Decision, Verbs

LEMMA OutGood ==
  ASSUME ChannelTyped, NEW a \in Agents
  PROVE  Out \in Turn /\ Good(a, Out)
<1>1. Configs # {}
  BY DEF ChannelTyped
<1>2. Out \in Turn
  BY <1>1, Constants DEF Out, Turn, Stages, Modes
<1>3. /\ Out.stage = "out" /\ Out.decision = NoDecision /\ ~Out.repeat /\ Out.answer = NoAnswer
      /\ Out.streak = 0 /\ Out.count = 0
  BY DEF Out
<1>4. Answerable(Out) /\ Counted(Out)
  BY <1>3, Constants DEF Answerable, Counted, Remembered
<1> QED
  BY <1>2, <1>3, <1>4, Constants DEF Good, Busy

\* The call of an agent is over.
LEMMA IdleGood ==
  ASSUME NEW a \in Agents, NEW r, Good(a, r), r.stage # "out"
  PROVE  Good(a, Idle(r))
<1>1. r \in Turn
  BY DEF Good
<1>2. Idle(r) \in Turn
  BY <1>1, Constants DEF Idle, Turn, Stages, Modes
<1>3. /\ Idle(r).stage = "idle" /\ Idle(r).decision = NoDecision /\ ~Idle(r).repeat
      /\ Idle(r).answer = NoAnswer /\ Idle(r).streak = r.streak /\ Idle(r).count = r.count
      /\ Idle(r).dir = r.dir
  BY <1>1 DEF Idle, Turn
<1>4. Answerable(Idle(r)) /\ Counted(Idle(r))
  BY <1>3, Constants DEF Good, Answerable, Counted, Remembered
<1> QED
  BY <1>2, <1>3, <1>4, Constants DEF Good, Busy

\* An agent goes from one stage of a call to the next.
LEMMA StageGood ==
  ASSUME NEW a \in Agents, NEW r, Good(a, r), r.stage \in Busy, NEW stage \in Busy,
         Answerable([r EXCEPT !.stage = stage])
  PROVE  Good(a, [r EXCEPT !.stage = stage])
<1> DEFINE s == [r EXCEPT !.stage = stage]
<1>1. r \in Turn /\ Judged(a, r) /\ Counted(r)
  BY DEF Good
<1>2. s \in Turn
  BY <1>1 DEF Turn, Stages, Busy
<1>3. /\ s.stage = stage /\ s.call = r.call /\ s.plan = r.plan /\ s.mode = r.mode
      /\ s.dirs = r.dirs /\ s.dir = r.dir /\ s.decision = r.decision
      /\ s.count = r.count /\ s.streak = r.streak
  BY <1>1 DEF Turn
<1> HIDE DEF s
<1>4. Judged(a, s)
  BY <1>1, <1>3 DEF Judged, NothingForbidden, Warranted
<1> QED
  BY <1>2, <1>3, <1>4, <1>1 DEF Good, Counted, Busy, s

\* A prompt gets an answer.
LEMMA AnswerGood ==
  ASSUME AgentsGood, NEW a \in Agents, Pending(a), NEW ans \in Reaction,
         ans.value # "none", ans.by # "none",
         ans.value \in Remembered => ans.by = "human",
         ans.by = "mode" => ans.mode \in Modes /\ PromptVerdict(agent[a], ans.mode) = ans.value
  PROVE  Good(a, [agent[a] EXCEPT !.answer = ans])
<1> DEFINE r == agent[a]
           s == [r EXCEPT !.answer = ans]
<1>1. r \in Turn /\ Good(a, r) /\ Judged(a, r) /\ Counted(r) /\ r.stage = "asked"
  BY TurnTyped DEF Good, Pending, Busy
<1>2. s \in Turn
  BY <1>1 DEF Turn
<1>3. /\ s.stage = "asked" /\ s.call = r.call /\ s.plan = r.plan /\ s.mode = r.mode
      /\ s.dirs = r.dirs /\ s.dir = r.dir /\ s.decision = r.decision /\ s.repeat = r.repeat
      /\ s.count = r.count /\ s.streak = r.streak /\ s.answer = ans
  BY <1>1 DEF Turn
<1>4. r.dir = dir /\ grants[a] # Unborn
  BY <1>1 DEF Good
<1> HIDE DEF s
<1>5. Judged(a, s) /\ Counted(s)
  BY <1>1, <1>3 DEF Judged, NothingForbidden, Warranted, Counted
<1>6. \A m : PromptVerdict(s, m) = PromptVerdict(r, m)
  BY <1>3 DEF PromptVerdict, Sticky
<1>7. Answerable(s)
  BY <1>3, <1>6, Constants DEF Answerable
<1> QED
  BY <1>2, <1>3, <1>4, <1>5, <1>7 DEF Good, Busy, s

-----------------------------------------------------------------------------
(* The steps of a turn                                                     *)

\* A step of an agent changes its own turn to one that is good, and lets
\* permits and directories grow.
AgentMade(a) ==
  /\ \E r : Good(a, r) /\ agent' = [agent EXCEPT ![a] = r]
  /\ permits \subseteq permits' /\ UNCHANGED <<dir, grants>>

LEMMA BeginTurnMade ==
  ASSUME ChannelTyped, AgentsGood, NEW a \in Agents, BeginTurn(a)
  PROVE  AgentMade(a)
<1> DEFINE r == [Out EXCEPT !.stage = "idle", !.plan = config, !.dir = dir]
<1>1. Out \in Turn /\ config \in Configs /\ dir \in Dirs /\ grants[a] # Unborn
  BY OutGood DEF ChannelTyped, BeginTurn
<1>2. r \in Turn
  BY <1>1 DEF Turn, Stages
<1>3. /\ r.stage = "idle" /\ r.dir = dir /\ r.decision = NoDecision /\ ~r.repeat
      /\ r.answer = NoAnswer /\ r.streak = 0 /\ r.count = 0
  BY DEF Out
<1>4. Answerable(r) /\ Counted(r)
  BY <1>3, Constants DEF Answerable, Counted, Remembered
<1>5. Good(a, r)
  BY <1>1, <1>2, <1>3, <1>4, Constants DEF Good, Busy
<1> QED
  BY <1>5 DEF AgentMade, BeginTurn, Becomes, channel

LEMMA PrepareMade ==
  ASSUME ChannelTyped, AgentsGood, NEW a \in Agents, Prepare(a)
  PROVE  AgentMade(a)
<1> DEFINE r == agent[a]
           s == [r EXCEPT !.plan = config]
<1>1. r \in Turn /\ Good(a, r) /\ r.stage = "idle" /\ config \in Configs
  BY TurnTyped DEF Prepare, ChannelTyped
<1>2. s \in Turn
  BY <1>1 DEF Turn
<1>3. /\ s.stage = "idle" /\ s.dir = r.dir /\ s.decision = r.decision /\ s.repeat = r.repeat
      /\ s.answer = r.answer /\ s.streak = r.streak /\ s.count = r.count
  BY <1>1 DEF Turn
<1> HIDE DEF s
<1>4. r.answer = NoAnswer
  BY <1>1 DEF Good, Answerable
<1>5. Answerable(s) /\ Counted(s)
  BY <1>1, <1>3, <1>4, Constants DEF Good, Answerable, Counted, Remembered
<1>6. Good(a, s)
  BY <1>1, <1>2, <1>3, <1>5 DEF Good, Busy
<1> QED
  BY <1>6 DEF AgentMade, Prepare, Becomes, channel, s

LEMMA OutMade ==
  ASSUME ChannelTyped, AgentsGood, NEW a \in Agents, EndTurn(a) \/ Withdraw(a)
  PROVE  AgentMade(a)
BY OutGood DEF AgentMade, EndTurn, Withdraw, Becomes, channel

LEMMA RunMade ==
  ASSUME ChannelTyped, AgentsGood, NEW a \in Agents, Run(a)
  PROVE  AgentMade(a)
BY TurnTyped, IdleGood DEF AgentMade, Run, Becomes, channel

\* Outside yolo a call runs unasked twice in a row, and no more.
LEMMA CountGood ==
  ASSUME NEW r \in Turn, Counted(r), NEW c
  PROVE  /\ Count(r, c) \in 0 .. 3 /\ Streak(r, c) \in Nat
         /\ ~Repeated(r, c, mode) => Streak(r, c) <= Count(r, c) /\ Streak(r, c) <= 2
<1>1. r.count \in 0 .. 3 /\ r.streak \in 0 .. 2 /\ r.streak <= r.count
  BY DEF Turn, Counted
<1>2. Count(r, c) \in 0 .. 3
  BY <1>1 DEF Count
<1>3. Streak(r, c) \in Nat
  BY <1>1 DEF Streak
<1>4. ASSUME ~Repeated(r, c, mode)
      PROVE  Streak(r, c) <= Count(r, c) /\ Streak(r, c) <= 2
  <2>1. CASE mode = "yolo"
    BY <1>2, <2>1 DEF Streak
  <2>2. CASE mode # "yolo"
    <3>1. Count(r, c) < 3
      BY <1>2, <1>4, <2>2 DEF Repeated
    <3>2. CASE c = r.key
      BY <1>1, <2>2, <3>1, <3>2 DEF Count, Streak
    <3>3. CASE c # r.key
      BY <1>1, <2>2, <3>3 DEF Count, Streak
    <3> QED
      BY <3>2, <3>3
  <2> QED
    BY <2>1, <2>2
<1> QED
  BY <1>2, <1>3, <1>4

LEMMA StartMade ==
  ASSUME ChannelTyped, AgentsGood, NEW a \in Agents, NEW c \in Calls, Start(a, c)
  PROVE  AgentMade(a)
<1> DEFINE r == agent[a]
           d == Decide(a, r.plan, c)
           ds == AgentDirs(a)
           rep == d.verb = "allow" /\ Repeated(r, c, mode)
           counted == IF d.verb # "allow" THEN r
                      ELSE [r EXCEPT !.key = c, !.count = IF rep THEN 0 ELSE Count(r, c),
                                     !.streak = IF rep THEN 0 ELSE Streak(r, c)]
           stage == IF d.verb = "ask" \/ rep THEN "decided" ELSE "run"
           s == [counted EXCEPT !.call = c, !.mode = mode, !.dirs = ds,
                                !.decision = d, !.repeat = rep, !.stage = stage]
<1>1. /\ r \in Turn /\ Good(a, r) /\ r.stage = "idle" /\ c \in Makes[a] /\ mode \in Modes
      /\ r.dir = dir /\ grants[a] # Unborn /\ r.plan \in Configs
  BY TurnTyped DEF Start, ChannelTyped, Good, Turn
<1>2. /\ d \in Decision /\ d.verb \in Verbs
      /\ d.verb # "deny" =>
           /\ c.kind = "path" => c.values \cap Credentials = {}
           /\ \A layer \in {r.plan.base} \cup r.plan.overlays, t \in c.values :
                Lookup(layer, c.op, t) # "deny"
           /\ a # Root /\ c.kind \in {"path", "command"} =>
                \A t \in c.values : Contains(ds, t)
      /\ d.verb = "allow" =>
           /\ ~d.control /\ ~d.bare
           /\ \/ mode = "yolo"
              \/ /\ d.boundary = NoDir
                 /\ \/ Ruled(r.plan, c) = "allow" /\ ~c.compound
                    \/ Covers(c) \/ HostsAllow(r.plan, c)
                    \/ mode = "auto" /\ ~d.egress
  BY <1>1, DecideSound
<1>3. ds \in SUBSET Dirs /\ (a # Root => ds \subseteq grants[a].dirs)
  BY <1>1, DirsTyped
<1>4. /\ Count(r, c) \in 0 .. 3 /\ Streak(r, c) \in Nat
      /\ ~Repeated(r, c, mode) => Streak(r, c) <= Count(r, c) /\ Streak(r, c) <= 2
  BY <1>1, CountGood DEF Good
<1>5. agent' = [agent EXCEPT ![a] = IF d.verb = "deny" THEN r ELSE s]
  BY DEF Start, Becomes
<1>6. UNCHANGED <<permits, dir, grants>>
  BY DEF Start, channel
<1> HIDE DEF d, ds
<1>7. counted \in Turn /\ counted.streak <= counted.count
  <2>1. CASE d.verb # "allow"
    BY <1>1, <2>1 DEF Good, Counted
  <2>2. CASE d.verb = "allow"
    <3> DEFINE n == IF rep THEN 0 ELSE Count(r, c)
               k == IF rep THEN 0 ELSE Streak(r, c)
    <3>1. n \in 0 .. 3 /\ k \in 0 .. 2 /\ k <= n
      BY <1>4, <2>2
    <3>2. counted = [r EXCEPT !.key = c, !.count = n, !.streak = k]
      BY <2>2
    <3> HIDE DEF n, k, counted
    <3> QED
      BY <1>1, <3>1, <3>2 DEF Turn
  <2> QED
    BY <2>1, <2>2
<1>8. /\ counted.answer = r.answer /\ counted.plan = r.plan /\ counted.dir = r.dir
  BY <1>1 DEF Turn
<1>9. r.answer = NoAnswer
  BY <1>1 DEF Good, Answerable
<1>10. rep \in BOOLEAN /\ stage \in Stages /\ stage \in {"decided", "run"}
  BY DEF Stages
<1>11. rep => d.verb = "allow"
  OBVIOUS
<1>12. stage = "run" => d.verb # "ask" /\ ~rep
  OBVIOUS
<1> HIDE DEF counted, rep, stage
<1>13. ASSUME d.verb # "deny" PROVE Good(a, s)
  <2>1. s \in Turn
    BY <1>1, <1>2, <1>3, <1>7, <1>10 DEF Turn
  <2>2. /\ s.stage = stage /\ s.call = c /\ s.plan = r.plan /\ s.mode = mode /\ s.dirs = ds
        /\ s.dir = r.dir /\ s.decision = d /\ s.repeat = rep /\ s.answer = NoAnswer
        /\ s.streak = counted.streak /\ s.count = counted.count
    BY <1>7, <1>8, <1>9 DEF Turn
  <2> HIDE DEF s
  <2>3. d.verb \in {"allow", "ask"}
    BY <1>2, <1>13 DEF Verbs
  <2>4. NothingForbidden(a, s)
    BY <1>2, <1>3, <1>13, <2>2 DEF NothingForbidden
  <2>5. d.verb = "allow" => ~d.control /\ ~d.bare /\ Warranted(s)
    BY <1>2, <2>2 DEF Warranted
  <2>6. Judged(a, s)
    BY <1>1, <2>2, <2>3, <2>4, <2>5 DEF Judged
  <2>7. Answerable(s)
    BY <1>10, <1>12, <2>2, <2>3, Constants DEF Answerable, Remembered
  <2>8. Counted(s)
    BY <1>7, <2>2 DEF Counted
  <2> QED
    BY <1>1, <1>10, <2>1, <2>2, <2>6, <2>7, <2>8 DEF Good, Busy
<1> HIDE DEF s
<1> QED
  BY <1>1, <1>5, <1>6, <1>13 DEF AgentMade

LEMMA PublishMade ==
  ASSUME ChannelTyped, AgentsGood, NEW a \in Agents, Publish(a)
  PROVE  AgentMade(a)
<1> DEFINE r == agent[a]
           s == [r EXCEPT !.stage = "asked"]
<1>1. r \in Turn /\ Good(a, r) /\ r.stage = "decided"
  BY TurnTyped DEF Publish
<1>2. /\ s.stage = "asked" /\ s.answer = r.answer /\ s.decision = r.decision /\ s.repeat = r.repeat
  BY <1>1 DEF Turn
<1>3. r.answer = NoAnswer
  BY <1>1 DEF Good, Answerable
<1> HIDE DEF s
<1>4. Answerable(s)
  BY <1>2, <1>3, Constants DEF Answerable, Remembered
<1>5. Good(a, s)
  BY <1>1, <1>4, StageGood DEF Busy, s
<1> QED
  BY <1>5 DEF AgentMade, Publish, Becomes, channel, s

LEMMA ReplyMade ==
  ASSUME ChannelTyped, AgentsGood, NEW a \in Agents,
         Default(a) \/ \E v \in Values, d \in Dirs \cup {NoDir} : Reply(a, v, d)
  PROVE  AgentMade(a)
<1>1. PICK ans \in Reaction :
        /\ ans.value # "none" /\ ans.by \in {"human", "default"}
        /\ ans.value \in Remembered => ans.by = "human"
        /\ Answer(a, ans)
  <2>1. CASE Default(a)
    <3> DEFINE ans == [NoAnswer EXCEPT !.value = config.default, !.by = "default"]
    <3>1. config.default \in {"allow", "deny"}
      BY AdmissionAssumption DEF ChannelTyped
    <3>2. ans \in Reaction /\ ans.value = config.default /\ ans.by = "default"
      BY <3>1, Constants DEF Reaction, Values
    <3> QED
      BY <2>1, <3>1, <3>2 DEF Default, Remembered
  <2>2. CASE \E v \in Values, d \in Dirs \cup {NoDir} : Reply(a, v, d)
    <3>1. PICK v \in Values, d \in Dirs \cup {NoDir} : Reply(a, v, d)
      BY <2>2
    <3> DEFINE ans == [NoAnswer EXCEPT !.value = v, !.by = "human", !.dir = d]
    <3>2. ans \in Reaction /\ ans.value = v /\ ans.by = "human"
      BY Constants DEF Reaction
    <3>3. Answer(a, ans) /\ v # "none"
      BY <3>1 DEF Reply, Values
    <3> HIDE DEF ans
    <3> QED
      BY <3>2, <3>3
  <2> QED
    BY <2>1, <2>2
<1>2. Good(a, [agent[a] EXCEPT !.answer = ans])
  BY <1>1, AnswerGood DEF Answer
<1> QED
  BY <1>1, <1>2 DEF AgentMade, Answer, Becomes, channel

LEMMA TakeMade ==
  ASSUME ChannelTyped, AgentsGood, NEW a \in Agents, Take(a)
  PROVE  AgentMade(a)
<1> DEFINE r == agent[a]
<1>1. r \in Turn /\ Good(a, r) /\ r.stage = "asked" /\ r.answer # NoAnswer
  BY TurnTyped DEF Take
<1>2. permits \subseteq permits' /\ UNCHANGED <<dir, grants>>
  BY DEF Take
<1>3. CASE Accepted(r.answer)
  <2> DEFINE stage == IF GrantsDirectory(r) THEN "grant" ELSE "run"
             s == [r EXCEPT !.stage = stage]
  <2>1. agent' = [agent EXCEPT ![a] = s]
    BY <1>3 DEF Take, Becomes
  <2>2. stage \in Busy /\ stage \in {"grant", "run"}
    BY DEF Busy
  <2>3. stage = "grant" => r.answer.value \in Remembered /\ r.decision.boundary # NoDir
    BY <1>3 DEF GrantsDirectory, Accepted
  <2> HIDE DEF stage
  <2>4. /\ s.stage = stage /\ s.answer = r.answer /\ s.decision = r.decision /\ s.repeat = r.repeat
    BY <1>1 DEF Turn
  <2> HIDE DEF s
  <2>5. \A m : PromptVerdict(s, m) = PromptVerdict(r, m)
    BY <2>4 DEF PromptVerdict, Sticky
  <2>6. Answerable(s)
    BY <1>1, <1>3, <2>2, <2>3, <2>4, <2>5 DEF Good, Answerable
  <2>7. Good(a, s)
    BY <1>1, <2>2, <2>6, StageGood DEF Busy, s
  <2> QED
    BY <1>2, <2>1, <2>7 DEF AgentMade
<1>4. CASE ~Accepted(r.answer)
  <2>1. agent' = [agent EXCEPT ![a] = Idle(r)]
    BY <1>4 DEF Take, Becomes
  <2> QED
    BY <1>1, <1>2, <2>1, IdleGood DEF AgentMade
<1> QED
  BY <1>3, <1>4

LEMMA GrantMade ==
  ASSUME ChannelTyped, AgentsGood, NEW a \in Agents, Grant(a)
  PROVE  AgentMade(a)
<1> DEFINE r == agent[a]
           s == [r EXCEPT !.stage = "run"]
<1>1. r \in Turn /\ Good(a, r) /\ r.stage = "grant"
  BY TurnTyped DEF Grant
<1>2. /\ s.stage = "run" /\ s.answer = r.answer /\ s.decision = r.decision /\ s.repeat = r.repeat
  BY <1>1 DEF Turn
<1>3. agent' = [agent EXCEPT ![a] = s] /\ UNCHANGED <<permits, dir, grants>>
  BY DEF Grant, Becomes
<1> HIDE DEF s
<1>4. \A m : PromptVerdict(s, m) = PromptVerdict(r, m)
  BY <1>2 DEF PromptVerdict, Sticky
<1>5. Answerable(s)
  BY <1>1, <1>2, <1>4 DEF Good, Answerable
<1>6. Good(a, s)
  BY <1>1, <1>5, StageGood DEF Busy, s
<1> QED
  BY <1>3, <1>6 DEF AgentMade

-----------------------------------------------------------------------------
(* The channel and its owners                                              *)

LEMMA ChannelAlone ==
  ASSUME ChannelTyped, UNCHANGED channel
  PROVE  ChannelTyped'
BY DEF ChannelTyped, channel

LEMMA OwnersAlone ==
  ASSUME OwnersTyped, UNCHANGED owners
  PROVE  OwnersTyped'
BY DEF OwnersTyped, owners

LEMMA GrantedTyped ==
  ASSUME ChannelTyped, AgentsGood, NEW a \in Agents, Take(a)
  PROVE  ChannelTyped'
<1> DEFINE r == agent[a]
<1>1. r.stage = "asked" /\ r \in Turn /\ r.call \in Calls
  BY TurnTyped, AdmissionAssumption DEF Take, Good, Busy, Judged
<1>2. r.call.values \subseteq Targets /\ r.call.first \in Targets /\ NoFamily \notin Targets
  BY <1>1, AdmissionAssumption
<1>3. \A p \in Granted(r) : p.on \in Targets \cup {Family[t] : t \in Targets} /\ p.on # NoFamily
  <2>1. Prefix(r) = NoFamily \/ Prefix(r) = Family[r.call.first]
    BY DEF Prefix
  <2> QED
    BY <1>2, <2>1 DEF Granted
<1>4. permits' = permits \/ permits' = permits \cup Granted(r)
  BY DEF Take
<1>5. \A p \in permits' : p.on \in Targets \cup {Family[t] : t \in Targets} /\ p.on # NoFamily
  BY <1>3, <1>4 DEF ChannelTyped
<1>6. UNCHANGED <<mode, dir, added, grants, config>>
  BY DEF Take
<1> QED
  BY <1>5, <1>6 DEF ChannelTyped

LEMMA AddedTyped ==
  ASSUME ChannelTyped, NEW d \in Dirs, added' = Added(d), UNCHANGED <<mode, permits, dir, grants, config>>
  PROVE  ChannelTyped'
<1>1. added' \subseteq Dirs
  BY DEF Added, ChannelTyped
<1> QED
  BY <1>1 DEF ChannelTyped

\* A task's directories are its own: Spawn gives them once, to an agent that
\* was not there.
LEMMA SpawnTyped ==
  ASSUME ChannelTyped, AgentsGood, NEW a \in Agents, NEW requested \in SUBSET Dirs,
         Spawn(a, requested)
  PROVE  ChannelTyped' /\ AgentsGood'
<1> DEFINE first == FirstDir(Root)
           g == [inherit |-> FALSE, dirs |-> IF requested = {} THEN {first} ELSE requested]
<1>0. Root \in Agents
  BY AdmissionAssumption
<1>1. first \in Dirs
  <2>1. grants[Root] # Unborn
    BY <1>0, TurnTyped DEF Spawn, Good
  <2>2. AgentDirs(Root) \in SUBSET Dirs /\ AgentDirs(Root) # {}
    BY <1>0, <2>1, DirsTyped DEF Spawn, ChildScope
  <2> QED
    BY <2>2 DEF FirstDir
<1> HIDE DEF first
<1>2. /\ g \in [inherit : BOOLEAN, dirs : SUBSET (Dirs \cup {NoDir})]
      /\ g.dirs \subseteq Dirs /\ ~g.inherit
  BY <1>1
<1>3. grants' = [grants EXCEPT ![a] = g] /\ grants[a] = Unborn
  BY DEF Spawn, first
<1> HIDE DEF g
<1>4. UNCHANGED <<mode, permits, dir, added, config, agent>>
  BY DEF Spawn
<1>5. ASSUME NEW b \in Agents PROVE b # a => grants'[b] = grants[b]
  BY <1>3 DEF ChannelTyped
<1>6. grants'[a] = g
  BY <1>3 DEF ChannelTyped
<1>7. grants' \in [Agents -> [inherit : BOOLEAN, dirs : SUBSET (Dirs \cup {NoDir})]]
  BY <1>2, <1>3 DEF ChannelTyped
<1>8. ASSUME NEW b \in Agents
      PROVE  /\ grants'[b].dirs \subseteq Dirs \/ grants'[b] = Unborn
             /\ grants'[b].inherit => b = Root
  BY <1>2, <1>5, <1>6 DEF ChannelTyped
<1>9. ChannelTyped'
  BY <1>4, <1>7, <1>8 DEF ChannelTyped
<1>10. ASSUME NEW b \in Agents PROVE Good(b, agent[b])'
  <2>1. PICK r : r = agent[b]
    OBVIOUS
  <2>2. Good(b, r)
    BY <2>1, TurnTyped
  <2>3. grants[b] # Unborn => grants'[b] = grants[b]
    BY <1>3, <1>5
  <2>4. Good(b, r)'
    BY <1>4, <2>2, <2>3, GoodStays
  <2> QED
    BY <1>4, <2>1, <2>4
<1>11. AgentsGood'
  BY <1>4, <1>10 DEF AgentsGood
<1> QED
  BY <1>9, <1>11

LEMMA GrantTyped ==
  ASSUME ChannelTyped, AgentsGood, NEW a \in Agents, Grant(a)
  PROVE  ChannelTyped'
<1> DEFINE r == agent[a]
           d == IF r.answer.dir = NoDir THEN r.decision.boundary ELSE r.answer.dir
<1>1. r \in Turn /\ Good(a, r) /\ r.stage = "grant"
  BY TurnTyped DEF Grant
<1>2. r.decision.boundary \in Dirs \cup {NoDir} /\ r.answer.dir \in Dirs \cup {NoDir}
  BY <1>1 DEF Turn, Decision, Reaction
<1>3. added' = Added(d) /\ UNCHANGED <<mode, permits, dir, grants, config>>
  BY DEF Grant
<1>4. d \in Dirs
  BY <1>1, <1>2 DEF Good, Answerable
<1> QED
  BY <1>3, <1>4, AddedTyped

\* What an agent may do in a step: Spawn aside, it changes its own turn.
LEMMA StepMade ==
  ASSUME ChannelTyped, AgentsGood, NEW a \in Agents, Step(a)
  PROVE  AgentMade(a) \/ \E ds \in Requests : Spawn(a, ds)
BY BeginTurnMade, PrepareMade, OutMade, StartMade, PublishMade, ReplyMade, TakeMade, GrantMade,
   RunMade DEF Step

LEMMA StepKeeps ==
  ASSUME IInv, NEW a \in Agents, Step(a)
  PROVE  IInv'
<1>1. ChannelTyped /\ OwnersTyped /\ AgentsGood
  BY DEF IInv
<1>2. CASE \E ds \in Requests : Spawn(a, ds)
  <2>1. ChannelTyped' /\ AgentsGood'
    BY <1>1, <1>2, SpawnTyped DEF Requests
  <2>2. OwnersTyped'
    BY <1>1, <1>2, OwnersAlone DEF Spawn
  <2> QED
    BY <2>1, <2>2 DEF IInv
<1>3. CASE ~\E ds \in Requests : Spawn(a, ds)
  <2>1. AgentsGood'
    <3>1. PICK r : /\ Good(a, r) /\ agent' = [agent EXCEPT ![a] = r]
                   /\ permits \subseteq permits' /\ UNCHANGED <<dir, grants>>
      BY <1>1, <1>3, StepMade DEF AgentMade
    <3> QED
      BY <1>1, <3>1, Replaced
  <2>2. CASE Take(a)
    BY <1>1, <2>1, <2>2, GrantedTyped, OwnersAlone DEF IInv, Take
  <2>3. CASE Grant(a)
    BY <1>1, <2>1, <2>3, GrantTyped, OwnersAlone DEF IInv, Grant
  <2>4. CASE \/ BeginTurn(a) \/ Prepare(a) \/ EndTurn(a) \/ Publish(a) \/ Withdraw(a) \/ Run(a)
             \/ \E c \in Calls : Start(a, c)
    <3>1. UNCHANGED <<channel, owners>>
      BY <2>4 DEF BeginTurn, Prepare, EndTurn, Publish, Withdraw, Run, Start
    <3>2. ChannelTyped' /\ OwnersTyped'
      BY <1>1, <3>1, ChannelAlone, OwnersAlone
    <3> QED
      BY <2>1, <3>2 DEF IInv
  <2>5. CASE Default(a)
    <3>1. UNCHANGED channel /\ UNCHANGED owners
      BY <2>5 DEF Default, Answer, owners
    <3> QED
      BY <1>1, <2>1, <3>1, ChannelAlone, OwnersAlone DEF IInv
  <2>6. CASE \E v \in Values, d \in Dirs \cup {NoDir} : Reply(a, v, d)
    <3>1. UNCHANGED channel /\ UNCHANGED sweep /\ (events' = events \/ Event)
      BY <2>6 DEF Reply, Answer
    <3>2. events' \in 0 .. MaxEvents
      BY <1>1, <3>1, AdmissionAssumption DEF OwnersTyped, Event
    <3>3. OwnersTyped'
      BY <1>1, <3>1, <3>2 DEF OwnersTyped
    <3> QED
      BY <1>1, <2>1, <3>1, <3>3, ChannelAlone DEF IInv
  <2> QED
    BY <1>3, <2>2, <2>3, <2>4, <2>5, <2>6 DEF Step
<1> QED
  BY <1>2, <1>3

\* The channel changes, and no turn with it.
LEMMA AgentsAlone ==
  ASSUME AgentsGood, permits \subseteq permits', UNCHANGED <<dir, grants, agent>>
  PROVE  AgentsGood'
<1>1. ASSUME NEW a \in Agents PROVE Good(a, agent[a])'
  <2>1. PICK r : r = agent[a]
    OBVIOUS
  <2>2. Good(a, r)
    BY <2>1, TurnTyped
  <2>3. Good(a, r)'
    BY <2>2, GoodStays
  <2> QED
    BY <2>1, <2>3
<1> QED
  BY <1>1 DEF AgentsGood

LEMMA EventTyped ==
  ASSUME OwnersTyped, Event
  PROVE  events' \in 0 .. MaxEvents
BY AdmissionAssumption DEF OwnersTyped, Event

LEMMA SetModeKeeps ==
  ASSUME IInv, NEW h \in Handlers, NEW m \in Modes, SetMode(h, m)
  PROVE  IInv'
<1>1. ChannelTyped /\ OwnersTyped /\ AgentsGood
  BY DEF IInv
<1>2. ChannelTyped'
  BY <1>1 DEF SetMode, ChannelTyped
<1>3. sweep' \in [Handlers -> [at : {"none", "allow", "deny"}, mode : Modes]]
  <2>1. sweep' = [sweep EXCEPT ![h] = [at |-> "allow", mode |-> m]]
    BY DEF SetMode
  <2>2. [at |-> "allow", mode |-> m] \in [at : {"none", "allow", "deny"}, mode : Modes]
    OBVIOUS
  <2> QED
    BY <1>1, <2>1, <2>2 DEF OwnersTyped
<1>4. OwnersTyped'
  BY <1>1, <1>3, EventTyped DEF SetMode, OwnersTyped
<1>5. AgentsGood'
  BY <1>1, AgentsAlone DEF SetMode
<1> QED
  BY <1>2, <1>4, <1>5 DEF IInv

\* A sweep answers each prompt as its mode would, and takes its own time.
LEMMA SweepKeeps ==
  ASSUME IInv, NEW h \in Handlers, Sweep(h)
  PROVE  IInv'
<1>1. ChannelTyped /\ OwnersTyped /\ AgentsGood
  BY DEF IInv
<1>2. /\ sweep[h].at \in {"allow", "deny"} /\ sweep[h].mode \in Modes
      /\ sweep[h] \in [at : {"none", "allow", "deny"}, mode : Modes]
  BY <1>1 DEF Sweep, OwnersTyped
<1>3. UNCHANGED channel /\ UNCHANGED events
  BY DEF Sweep
<1>4. ChannelTyped'
  BY <1>1, <1>3, ChannelAlone
<1>5. OwnersTyped'
  <2> DEFINE w == sweep[h]
             n == IF w.at = "allow" THEN [w EXCEPT !.at = "deny"] ELSE [at |-> "none", mode |-> "ask"]
  <2>1. n \in [at : {"none", "allow", "deny"}, mode : Modes]
    BY <1>2 DEF Modes
  <2>2. sweep' = [sweep EXCEPT ![h] = n]
    BY <1>1 DEF Sweep, OwnersTyped
  <2> HIDE DEF n
  <2> QED
    BY <1>1, <1>3, <2>1, <2>2 DEF OwnersTyped
<1>6. ASSUME NEW a \in Agents PROVE \E r : Good(a, r) /\ agent'[a] = r
  <2> DEFINE ans == [NoAnswer EXCEPT !.value = sweep[h].at, !.by = "mode", !.mode = sweep[h].mode]
             s == [agent[a] EXCEPT !.answer = ans]
  <2>1. agent'[a] = IF Swept(h, a) THEN s ELSE agent[a]
    BY DEF Sweep
  <2>2. CASE Swept(h, a)
    <3>1. /\ ans \in Reaction /\ ans.value = sweep[h].at /\ ans.by = "mode"
          /\ ans.mode = sweep[h].mode
      BY <1>2, Constants DEF Reaction, Values
    <3> HIDE DEF ans
    <3>2. Pending(a) /\ PromptVerdict(agent[a], ans.mode) = ans.value /\ ans.mode \in Modes
      BY <1>2, <2>2, <3>1 DEF Swept
    <3>3. ans.value \notin Remembered /\ ans.value # "none"
      BY <1>2, <3>1 DEF Remembered
    <3>4. Good(a, s)
      BY <1>1, <3>1, <3>2, <3>3, AnswerGood
    <3> QED
      BY <2>1, <2>2, <3>4
  <2>3. CASE ~Swept(h, a)
    BY <1>1, <2>1, <2>3, TurnTyped
  <2> QED
    BY <2>2, <2>3
<1>7. ASSUME NEW a \in Agents PROVE Good(a, agent[a])' /\ agent'[a] \in Turn
  <2>1. PICK r : Good(a, r) /\ agent'[a] = r
    BY <1>6
  <2>2. Good(a, r)'
    BY <1>3, <2>1, GoodStays DEF channel
  <2> QED
    BY <2>1, <2>2 DEF Good
<1>8. agent' \in [Agents -> Turn]
  BY <1>7 DEF Sweep
<1> QED
  BY <1>4, <1>5, <1>7, <1>8 DEF IInv, AgentsGood

LEMMA DirectoryKeeps ==
  ASSUME IInv, NEW d \in Dirs, AddDirectory(d) \/ RemoveDirectory(d)
  PROVE  IInv'
<1>1. ChannelTyped /\ OwnersTyped /\ AgentsGood
  BY DEF IInv
<1>2. Event /\ UNCHANGED <<mode, permits, dir, grants, config, agent, sweep>>
  BY DEF AddDirectory, RemoveDirectory
<1>3. ChannelTyped'
  <2>1. CASE AddDirectory(d)
    BY <1>1, <2>1, AddedTyped DEF AddDirectory
  <2>2. CASE RemoveDirectory(d)
    BY <1>1, <2>2 DEF RemoveDirectory, ChannelTyped
  <2> QED
    BY <2>1, <2>2
<1>4. OwnersTyped'
  BY <1>1, <1>2, EventTyped DEF OwnersTyped
<1>5. AgentsGood'
  BY <1>1, <1>2, AgentsAlone
<1> QED
  BY <1>3, <1>4, <1>5 DEF IInv

LEMMA SetConfigurationKeeps ==
  ASSUME IInv, NEW cf \in Configs, SetConfiguration(cf)
  PROVE  IInv'
<1>1. ChannelTyped /\ OwnersTyped /\ AgentsGood
  BY DEF IInv
<1>2. /\ Event /\ config' = cf
      /\ UNCHANGED <<mode, permits, dir, added, grants, agent, sweep>>
  BY DEF SetConfiguration
<1>3. ChannelTyped'
  BY <1>1, <1>2 DEF ChannelTyped
<1>4. OwnersTyped'
  BY <1>1, <1>2, EventTyped DEF OwnersTyped
<1>5. AgentsGood'
  BY <1>1, <1>2, AgentsAlone
<1> QED
  BY <1>3, <1>4, <1>5 DEF IInv

\* The channel leaves its directory, and its permits there, between turns:
\* nothing that was decided is left to run.
LEMMA MoveKeeps ==
  ASSUME IInv, NEW d \in Dirs, NEW cf \in Configs, Move(d, cf)
  PROVE  IInv'
<1>1. ChannelTyped /\ OwnersTyped /\ AgentsGood
  BY DEF IInv
<1>2. /\ Event /\ AllIdle
      /\ dir' = d /\ mode' = "ask" /\ permits' = {} /\ config' = cf
      /\ UNCHANGED <<added, grants, agent, sweep>>
  BY DEF Move
<1>3. ChannelTyped'
  BY <1>1, <1>2 DEF ChannelTyped, Modes
<1>4. OwnersTyped'
  BY <1>1, <1>2, EventTyped DEF OwnersTyped
<1>5. ASSUME NEW a \in Agents PROVE Good(a, agent[a])'
  <2>1. PICK r : r = agent[a]
    OBVIOUS
  <2>2. Good(a, r) /\ r.stage = "out"
    BY <1>1, <1>2, <2>1, TurnTyped DEF AllIdle
  <2>3. Good(a, r)'
    BY <2>2 DEF Good, Busy
  <2> QED
    BY <1>2, <2>1, <2>3
<1>6. AgentsGood'
  BY <1>1, <1>2, <1>5 DEF AgentsGood
<1> QED
  BY <1>3, <1>4, <1>6 DEF IInv

LEMMA AllOut ==
  ASSUME ChannelTyped, agent = [a \in Agents |-> Out]
  PROVE  AgentsGood
BY OutGood DEF AgentsGood

LEMMA RestartKeeps ==
  ASSUME IInv, Restart
  PROVE  IInv'
<1>1. ChannelTyped /\ OwnersTyped /\ AgentsGood
  BY DEF IInv
<1>2. ChannelTyped'
  BY <1>1, ChannelAlone DEF Restart
<1>3. OwnersTyped'
  BY <1>1, EventTyped DEF Restart, OwnersTyped, Modes
<1>4. AgentsGood'
  <2>1. ASSUME NEW a \in Agents PROVE Good(a, agent[a])'
    <3>1. Good(a, Out) /\ Out.stage = "out"
      BY <1>1, OutGood DEF Out
    <3>2. Good(a, Out)'
      BY <3>1 DEF Good, Busy
    <3> QED
      BY <3>2 DEF Restart
  <2>2. agent' \in [Agents -> Turn]
    BY <1>1, OutGood DEF Restart
  <2> QED
    BY <2>1, <2>2 DEF AgentsGood
<1> QED
  BY <1>2, <1>3, <1>4 DEF IInv

-----------------------------------------------------------------------------
(* The theorems                                                            *)

LEMMA Initially ==
  ASSUME Init
  PROVE  IInv
<1>1. ChannelTyped
  <2>1. grants \in [Agents -> [inherit : BOOLEAN, dirs : SUBSET (Dirs \cup {NoDir})]]
    BY DEF Init, Inherit, Unborn
  <2>2. \A a \in Agents : /\ grants[a].dirs \subseteq Dirs \/ grants[a] = Unborn
                          /\ grants[a].inherit => a = Root
    BY DEF Init, Inherit, Unborn
  <2> QED
    BY <2>1, <2>2, Constants DEF Init, ChannelTyped, Modes
<1>2. OwnersTyped
  BY AdmissionAssumption DEF Init, OwnersTyped, Modes
<1>3. AgentsGood
  BY <1>1, OutGood DEF Init, AgentsGood
<1> QED
  BY <1>1, <1>2, <1>3 DEF IInv

LEMMA Inductive ==
  ASSUME IInv, [Next]_vars
  PROVE  IInv'
<1>1. CASE UNCHANGED vars
  <2>1. UNCHANGED <<mode, permits, dir, added, grants, config, agent, sweep, events>>
    BY <1>1 DEF vars
  <2>2. ChannelTyped' /\ OwnersTyped'
    BY <2>1, ChannelAlone, OwnersAlone DEF IInv, channel, owners
  <2>3. AgentsGood'
    BY <2>1, AgentsAlone DEF IInv
  <2> QED
    BY <2>2, <2>3 DEF IInv
<1>2. CASE \E a \in Agents : Step(a)
  BY <1>2, StepKeeps
<1>3. CASE Owner
  <2>1. CASE \E h \in Handlers : Sweep(h)
    BY <2>1, SweepKeeps
  <2>2. CASE \E h \in Handlers : \E m \in Modes : SetMode(h, m)
    BY <2>2, SetModeKeeps
  <2>3. CASE \E d \in Dirs : AddDirectory(d) \/ RemoveDirectory(d)
    BY <2>3, DirectoryKeeps
  <2>4. CASE \E d \in Dirs : \E cf \in Configs : Move(d, cf)
    BY <2>4, MoveKeeps
  <2>5. CASE \E cf \in Configs : SetConfiguration(cf)
    BY <2>5, SetConfigurationKeeps
  <2>6. CASE Restart
    BY <2>6, RestartKeeps
  <2> QED
    BY <1>3, <2>1, <2>2, <2>3, <2>4, <2>5, <2>6 DEF Owner
<1> QED
  BY <1>1, <1>2, <1>3 DEF Next

THEOREM Always == Spec => []IInv
<1>1. Init => IInv
  BY Initially
<1>2. IInv /\ [Next]_vars => IInv'
  BY Inductive
<1> QED
  BY <1>1, <1>2, PTL DEF Spec

\* The channel, its owners and the turns are of their types, a call that
\* asked runs only with an answer that lets it, and permits are for targets
\* and families that there are (src/agent/runtime/mod.rs, State).
THEOREM TypeCorrect == Spec => []TypeOK
<1>1. IInv => TypeOK
  <2>1. ASSUME IInv, NEW a \in Agents
        PROVE  LET r == agent[a] IN
               /\ r.stage \in {"out", "idle", "decided", "asked", "grant", "run"}
               /\ r.stage \in {"decided", "asked", "grant", "run"} => r.call \in Makes[a]
               /\ r.decision.verb # "deny" /\ r.count \in 0 .. 3
               /\ (r.decision.verb = "ask" \/ r.repeat) => r.stage # "run" \/ Accepted(r.answer)
    <3> DEFINE r == agent[a]
    <3>1. r \in Turn /\ Good(a, r)
      BY <2>1, TurnTyped DEF IInv
    <3>2. r.stage \in Stages /\ r.count \in 0 .. 3
      BY <3>1 DEF Turn
    <3> HIDE DEF r
    <3>3. r.stage \in Busy => r.call \in Makes[a] /\ r.decision.verb \in {"allow", "ask"}
      BY <3>1 DEF Good, Judged
    <3>4. r.stage \notin Busy => r.decision.verb = "none"
      BY <3>1 DEF Good
    <3>5. r.stage = "run" =>
            Accepted(r.answer) \/ (r.decision.verb = "allow" /\ ~r.repeat)
      BY <3>1 DEF Good, Answerable
    <3> QED
      BY <3>2, <3>3, <3>4, <3>5 DEF r, Stages, Busy
  <2>2. ASSUME IInv, NEW h \in Handlers
        PROVE  sweep[h].at \in {"none", "allow", "deny"} /\ sweep[h].mode \in Modes
    BY <2>2 DEF IInv, OwnersTyped
  <2> QED
    BY <2>1, <2>2 DEF IInv, ChannelTyped, OwnersTyped, TypeOK
<1> QED
  BY <1>1, Always, PTL

\* What hides, the rules and a task's directories hold for each call that
\* runs; a call that asks for an owner has one's answer; what nobody was
\* asked about has a rule, a permit or a mode; turns stay in their directory
\* and the third same call in a row asks (src/agent/permission.rs,
\* src/agent/security.rs, src/agent/runtime/execution.rs).
THEOREM JudgedCorrect == Spec => []CallsAreJudged
<1>1. IInv => RunsAreWarranted
  <2>1. SUFFICES ASSUME IInv, NEW a \in Agents, NEW r, r = agent[a], r.stage = "run"
                 PROVE  NothingForbidden(a, r) /\ StickyIsAsked(r) /\ HasWarrant(r)
    BY DEF RunsAreWarranted
  <2>2. r \in Turn /\ Good(a, r)
    BY <2>1, TurnTyped DEF IInv
  <2>3. Judged(a, r) /\ Answerable(r)
    BY <2>1, <2>2 DEF Good, Busy
  <2>4. /\ r.decision \in Decision /\ r.answer \in Reaction /\ r.repeat \in BOOLEAN
    BY <2>2 DEF Turn
  <2>5. r.answer = NoAnswer =>
          /\ r.decision.verb = "allow" /\ ~r.decision.control /\ ~r.decision.bare /\ Warranted(r)
    <3>1. r.answer = NoAnswer => r.answer.value = "none"
      BY Constants
    <3>2. r.answer.value = "none" => ~Accepted(r.answer)
      BY DEF Accepted, Remembered
    <3> QED
      BY <2>1, <2>3, <3>1, <3>2 DEF Answerable, Judged
  <2>6. r.answer.by = "mode" =>
          /\ r.answer.mode \in Modes /\ ~Sticky(r)
          /\ \/ r.answer.mode = "yolo"
             \/ r.answer.mode = "auto" /\ r.decision.boundary = NoDir /\ ~r.decision.egress
    <3>1. SUFFICES ASSUME r.answer.by = "mode"
                   PROVE  /\ r.answer.mode \in Modes /\ ~Sticky(r)
                          /\ \/ r.answer.mode = "yolo"
                             \/ /\ r.answer.mode = "auto"
                                /\ r.decision.boundary = NoDir /\ ~r.decision.egress
      OBVIOUS
    <3>2. r.answer # NoAnswer /\ r.answer.mode \in Modes
          /\ PromptVerdict(r, r.answer.mode) = r.answer.value
      BY <2>3, <3>1, Constants DEF Answerable
    <3>3. r.answer.value \in {"allow"} \cup Remembered /\ r.answer.value \notin Remembered
      BY <2>1, <2>3, <3>1, <3>2 DEF Answerable, Accepted
    <3>4. PromptVerdict(r, r.answer.mode) = "allow"
      BY <3>2, <3>3
    <3>5. ~r.repeat
      <4>1. CASE r.repeat
        <5>1. ModeVerdict(r.answer.mode, TRUE, FALSE, FALSE) = "allow"
          BY <3>4, <4>1 DEF PromptVerdict
        <5> QED
          BY <3>2, <5>1, VerdictTyped
      <4> QED
        BY <4>1, <2>4
    <3> DEFINE outside == r.decision.boundary # NoDir
               sticky == Sticky(r)
    <3>6. ModeVerdict(r.answer.mode, sticky, r.decision.egress, outside) = "allow"
      BY <3>4, <3>5 DEF PromptVerdict
    <3>7. sticky \in BOOLEAN /\ r.decision.egress \in BOOLEAN /\ outside \in BOOLEAN
      BY <2>4 DEF Decision, Sticky
    <3> HIDE DEF sticky, outside
    <3>8. ~sticky /\ (r.answer.mode = "yolo" \/ (r.answer.mode = "auto" /\ ~outside /\ ~r.decision.egress))
      BY <3>2, <3>6, <3>7, VerdictTyped
    <3> QED
      BY <3>2, <3>8 DEF sticky, outside
  <2>7. StickyIsAsked(r)
    <3>1. r.answer.by \in {"none", "human", "default", "mode"}
      BY <2>4 DEF Reaction
    <3>2. r.answer.by = "none" => r.answer = NoAnswer
      BY <2>3 DEF Answerable
    <3> QED
      BY <2>5, <2>6, <3>1, <3>2 DEF StickyIsAsked, Sticky
  <2>8. HasWarrant(r)
    BY <2>5, <2>6 DEF HasWarrant, Warranted
  <2> QED
    BY <2>3, <2>7, <2>8 DEF Judged
<1>2. IInv => TurnsStay
  BY TurnTyped DEF IInv, Good, TurnsStay
<1>3. IInv => RepeatsAreAsked
  <2>1. ASSUME IInv, NEW a \in Agents PROVE agent[a].streak <= 2
    <3>1. agent[a].streak \in 0 .. 2
      BY <2>1, TurnTyped DEF IInv, Turn
    <3> QED
      BY <3>1
  <2> QED
    BY <2>1 DEF RepeatsAreAsked
<1> QED
  BY <1>1, <1>2, <1>3, Always, PTL DEF CallsAreJudged

\* Permits come from an owner's answer that is remembered, directories from
\* such an answer or an owner's command (src/agent/permission.rs:1).
THEOREM WidenCorrect == Spec => OnlyPeopleWiden
<1> DEFINE Widened == /\ ~(permits' \subseteq permits) => \E a \in Agents : Take(a) /\ ByAnswer(a)
                      /\ ~(added' \subseteq added) => \/ \E a \in Agents : Grant(a) /\ ByAnswer(a)
                                                      \/ \E d \in Dirs : AddDirectory(d)
<1>1. ASSUME IInv, [Next]_vars PROVE [Widened]_vars
  <2>1. CASE \/ UNCHANGED vars
             \/ \E h \in Handlers : Sweep(h) \/ \E m \in Modes : SetMode(h, m)
             \/ \E d \in Dirs : RemoveDirectory(d) \/ \E cf \in Configs : Move(d, cf)
             \/ \E cf \in Configs : SetConfiguration(cf)
             \/ Restart
    <3>1. permits' \subseteq permits /\ added' \subseteq added
      BY <2>1 DEF vars, Sweep, SetMode, RemoveDirectory, Move, SetConfiguration, Restart, channel
    <3> QED
      BY <3>1
  <2>2. CASE \E d \in Dirs : AddDirectory(d)
    BY <2>2 DEF AddDirectory
  <2>3. CASE \E a \in Agents : Step(a)
    <3>1. PICK a \in Agents : Step(a)
      BY <2>3
    <3>2. Good(a, agent[a])
      BY <1>1, TurnTyped DEF IInv
    <3>3. CASE Take(a)
      <4>1. added' = added /\ (permits' = permits \/ permits' = permits \cup Granted(agent[a]))
        BY <3>3 DEF Take
      <4>2. Granted(agent[a]) # {} => agent[a].answer.value \in Remembered
        BY DEF Granted
      <4>3. agent[a].answer.value \in Remembered => ByAnswer(a)
        BY <3>2 DEF Good, Answerable, ByAnswer
      <4>4. ~(permits' \subseteq permits) => ByAnswer(a)
        BY <4>1, <4>2, <4>3
      <4> QED
        BY <3>3, <4>1, <4>4
    <3>4. CASE Grant(a)
      <4>1. permits' = permits /\ agent[a].stage = "grant"
        BY <3>4 DEF Grant
      <4>2. ByAnswer(a)
        BY <3>2, <4>1 DEF Good, Answerable, ByAnswer
      <4> QED
        BY <3>4, <4>1, <4>2
    <3>5. CASE ~Take(a) /\ ~Grant(a)
      <4>1. permits' = permits /\ added' = added
        BY <3>1, <3>5 DEF Step, BeginTurn, Prepare, EndTurn, Start, Publish, Default, Withdraw, Run,
                          Reply, Answer, Spawn, channel
      <4> QED
        BY <4>1
    <3> QED
      BY <3>3, <3>4, <3>5
  <2> QED
    BY <1>1, <2>1, <2>2, <2>3 DEF Next, Owner
<1>2. IInv /\ [Next]_vars => [Widened]_vars
  BY <1>1
<1> QED
  BY <1>2, Always, PTL DEF Spec, OnlyPeopleWiden, Widened
=============================================================================

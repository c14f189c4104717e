---------------------------- MODULE TrustProofs ----------------------------
(***************************************************************************)
(* Theorems about the configurations of projects (src/config/snapshot.rs,  *)
(* src/daemon/owner.rs, src/daemon/configuration.rs,                       *)
(* src/agent/runtime/settings.rs) for any number of directories, channels, *)
(* files, contents, prompts and workers: however loads, answers, edits and *)
(* moves overtake each other, a channel uses only what was trusted, of the *)
(* directory it is in, and nobody is asked to no effect.                   *)
(***************************************************************************)
EXTENDS ProjectTrust, TLAPS

Hashes == Contents \cup {None}
Stamps == UNION {[fs -> Nat] : fs \in SUBSET Files}
Channel == [here : BOOLEAN, dir : Dirs, archived : BOOLEAN, reconfiguring : BOOLEAN,
            config : Config, stamp : Stamps]
Prompt == [state : {"open", "allow", "deny"}, dir : Dirs, hash : Hashes, channel : Channels]
Moving == {"moveload", "movecommit"}
Task == [pc : {"idle", "trust", "log", "remember", "resolve", "walk", "set", "fallback", "ask",
               "start", "withdraw", "denies", "edit", "retrust"} \cup Moving,
         back : {"none", "edit", "trust", "command"}, dir : Dirs \cup {None}, hash : Hashes,
         allow : BOOLEAN, todo : SUBSET Channels, at : Channels \cup {None},
         cfg : Config \cup {None}, removed : SUBSET Ids, edit : Hashes]

\* What was ever trusted is logged before it is on disk, and is there before
\* it is in memory.
KnownIsLogged ==
  /\ disk \in [Dirs -> Contents] /\ saved \in [Dirs -> Hashes] /\ trust \in [Dirs -> Hashes]
  /\ \A d \in Dirs : /\ saved[d] # None => <<d, saved[d]>> \in logged
                     /\ trust[d] # None => <<d, trust[d]>> \in logged

\* The layers of a configuration were trusted, and can be read.
Sound(cfg) ==
  /\ cfg \in Config /\ (cfg.pending => ~cfg.trusted)
  /\ cfg.trusted => <<cfg.dir, cfg.hash>> \in logged /\ cfg.hash \notin Broken

ChannelsSound ==
  /\ channel \in [Channels -> Channel]
  /\ \A c \in Channels : Sound(channel[c].config) /\ channel[c].config.dir = channel[c].dir

\* What a call holds on to from one step to the next.
TaskSound(t) ==
  /\ t \in Task
  /\ t.pc \in {"trust", "log", "remember", "resolve", "walk", "set", "fallback", "start", "edit",
               "retrust"} \cup Moving => t.dir \in Dirs
  /\ t.pc \in {"set", "fallback", "ask", "start", "withdraw", "denies"} \cup Moving => t.at \in Channels
  /\ t.pc \in {"set", "fallback", "start", "movecommit"} => Sound(t.cfg)
  /\ t.pc \in {"start", "movecommit"} => t.cfg.dir = t.dir
  /\ t.pc = "remember" => <<t.dir, t.hash>> \in logged
  /\ t.pc = "edit" => t.edit \in Contents
  /\ t.pc = "fallback" => t.back # "edit"
  /\ t.pc \in {"ask", "withdraw", "denies"} => t.dir \in Dirs \/ t.todo = {}
  /\ t.pc # "denies" => t.removed = {}

WorkSound == work \in [Workers -> Task] /\ \A w \in Workers : TaskSound(work[w])

\* A prompt stays the one of its directory until it is answered, replaced or
\* about to be withdrawn.
PromptsSound ==
  /\ prompt \in [Ids -> Prompt \cup {NoPrompt}] /\ asking \in [Dirs -> Ids \cup {NoId}]
  /\ \A d \in Dirs : asking[d] # NoId => prompt[asking[d]].dir = d
  /\ PromptsCount

\* Whoever took the channel from its runtime to move it gives it back.
MovesOwned ==
  \A c \in Channels : channel[c].reconfiguring =>
    \E w \in Workers : work[w].at = c /\ work[w].pc \in Moving

\* The editor is held by a call that still edits, or loads what was edited.
Editing(t) ==
  \/ t.pc \in {"edit", "retrust"}
  \/ t.back = "edit" /\ t.pc \in {"log", "remember", "walk", "set", "ask"}
EditorHeld ==
  editor # None => /\ editor \in Workers /\ Editing(work[editor])
                   /\ \E c \in Channels : channel[c].here

Bounded == events \in 0 .. MaxCommands /\ changes \in 0 .. MaxChanges

IInv ==
  /\ KnownIsLogged /\ ChannelsSound /\ WorkSound /\ PromptsSound
  /\ MovesOwned /\ EditorHeld /\ Bounded

-----------------------------------------------------------------------------
(* Loads                                                                   *)

\* What a load gives is of its directory, and its layers, if it has any that
\* count, are those that are trusted.
LEMMA LoadSound ==
  ASSUME KnownIsLogged, NEW known, known = saved \/ known = trust, NEW d \in Dirs
  PROVE  /\ Sound(Loaded(known, d)) /\ Loaded(known, d).dir = d
         /\ ~Fails(known, d) => Sound(Load(known, d)) /\ Load(known, d).dir = d
<1> DEFINE loaded == [dir |-> d, hash |-> disk[d], pending |-> ~Trusts(known, d, disk[d]),
                      trusted |-> Trusts(known, d, disk[d])]
<1>1. disk[d] \in Contents /\ None \notin Contents
  BY ProjectTrustAssumption DEF KnownIsLogged
<1>2. Sound(Global(d)) /\ Global(d).dir = d
  BY DEF Sound, Global, Config
<1>3. known[d] # None => <<d, known[d]>> \in logged
  BY DEF KnownIsLogged
<1>4. loaded \in Config
  BY <1>1 DEF Config, Trusts
<1>5. ~Fails(known, d) => Sound(loaded)
  <2>1. loaded.trusted => disk[d] = known[d]
    BY DEF Trusts
  <2>2. ~Fails(known, d) /\ loaded.trusted => disk[d] \notin Broken
    BY DEF Fails
  <2> QED
    BY <1>1, <1>3, <1>4, <2>1, <2>2 DEF Sound
<1>6. Load(known, d) = IF disk[d] = Empty THEN Global(d) ELSE loaded
  BY DEF Load
<1>7. ~Fails(known, d) => Sound(Load(known, d)) /\ Load(known, d).dir = d
  BY <1>2, <1>5, <1>6
<1> QED
  BY <1>2, <1>7 DEF Loaded

LEMMA StampTyped ==
  ASSUME KnownIsLogged, NEW cfg \in Config
  PROVE  Stamp(cfg) \in Stamps
<1>1. FilesOf(cfg) \in SUBSET Files
  BY DEF FilesOf, Names
<1>2. cfg.dir \in Dirs /\ disk[cfg.dir] \in [Files -> Nat]
  BY ProjectTrustAssumption DEF Config, KnownIsLogged
<1>3. Stamp(cfg) \in [FilesOf(cfg) -> Nat]
  BY <1>1, <1>2 DEF Stamp
<1> QED
  BY <1>1, <1>3 DEF Stamps

LEMMA NowhereSound ==
  Nowhere \in Channel /\ Sound(Nowhere.config) /\ Nowhere.config.dir = Nowhere.dir
  /\ ~Nowhere.reconfiguring /\ ~Nowhere.here
<1>1. Home \in Dirs
  BY ProjectTrustAssumption
<1>2. Sound(Global(Home)) /\ Global(Home).dir = Home /\ Global(Home) \in Config
  BY <1>1 DEF Sound, Global, Config
<1>3. [f \in {} |-> 0] \in [{} -> Nat] /\ {} \in SUBSET Files
  OBVIOUS
<1>4. [f \in {} |-> 0] \in Stamps
  BY <1>3 DEF Stamps
<1> QED
  BY <1>1, <1>2, <1>4 DEF Nowhere, Channel

\* A start of the daemon: each channel loads what is there.
LEMMA RecoveredSound ==
  ASSUME KnownIsLogged, NEW known, known = saved \/ known = trust,
         NEW there, \A c \in DOMAIN there : there[c] \in Dirs
  PROVE  /\ Recovered(there, known) \in [Channels -> Channel]
         /\ \A c \in Channels : LET k == Recovered(there, known)[c] IN
              Sound(k.config) /\ k.config.dir = k.dir /\ ~k.reconfiguring
<1>1. ASSUME NEW c \in Channels
      PROVE  LET k == Recovered(there, known)[c] IN
             k \in Channel /\ Sound(k.config) /\ k.config.dir = k.dir /\ ~k.reconfiguring
  <2>1. CASE c \notin DOMAIN there
    BY <2>1, NowhereSound DEF Recovered
  <2>2. CASE c \in DOMAIN there
    <3> DEFINE d == there[c]
               cfg == Loaded(known, d)
               stamp == Stamp(cfg)
               k == [Nowhere EXCEPT !.here = TRUE, !.dir = d, !.config = cfg, !.stamp = stamp]
    <3>1. d \in Dirs
      BY <2>2
    <3>2. Sound(cfg) /\ cfg.dir = d
      BY <3>1, LoadSound
    <3>3. cfg \in Config /\ stamp \in Stamps
      BY <3>2, StampTyped DEF Sound
    <3>4. Recovered(there, known)[c] = k
      BY <2>2 DEF Recovered
    <3> HIDE DEF d, cfg, stamp
    <3>5. k \in Channel /\ k.config = cfg /\ k.dir = d /\ ~k.reconfiguring
      BY <3>1, <3>3, NowhereSound DEF Channel
    <3> QED
      BY <3>2, <3>4, <3>5
  <2> QED
    BY <2>1, <2>2
<1>2. Recovered(there, known) = [c \in Channels |-> Recovered(there, known)[c]]
  BY DEF Recovered
<1> QED
  BY <1>1, <1>2

-----------------------------------------------------------------------------
(* What stays                                                              *)

\* What is logged stays logged, and so what was sound stays sound.
LEMMA SoundStays ==
  ASSUME logged \subseteq logged', NEW cfg, Sound(cfg)
  PROVE  Sound(cfg)'
BY DEF Sound

LEMMA TaskStays ==
  ASSUME logged \subseteq logged', NEW t, TaskSound(t)
  PROVE  TaskSound(t)'
BY DEF TaskSound, Sound

LEMMA TaskTyped ==
  ASSUME WorkSound, NEW w \in Workers
  PROVE  TaskSound(work[w]) /\ work[w] \in Task
BY DEF WorkSound

LEMMA KnownAlone ==
  ASSUME KnownIsLogged, UNCHANGED <<disk, saved, trust, logged>>
  PROVE  KnownIsLogged'
BY DEF KnownIsLogged

LEMMA ChannelsAlone ==
  ASSUME ChannelsSound, UNCHANGED channel, logged \subseteq logged'
  PROVE  ChannelsSound'
BY SoundStays DEF ChannelsSound

LEMMA WorkStep ==
  ASSUME WorkSound, NEW w \in Workers, NEW t, TaskSound(t)', work' = [work EXCEPT ![w] = t],
         logged \subseteq logged'
  PROVE  WorkSound'
<1>1. t \in Task
  BY DEF TaskSound
<1>2. work' \in [Workers -> Task]
  BY <1>1 DEF WorkSound
<1>3. ASSUME NEW v \in Workers PROVE TaskSound(work[v])'
  <2>1. PICK s : s = work'[v]
    OBVIOUS
  <2>2. TaskSound(s)'
    <3>1. CASE v = w
      <4>1. s = t
        BY <2>1, <3>1 DEF WorkSound
      <4> QED
        BY <4>1
    <3>2. CASE v # w
      <4>1. s = work[v]
        BY <2>1, <3>2 DEF WorkSound
      <4>2. TaskSound(s)
        BY <4>1, TaskTyped
      <4> QED
        BY <4>2, TaskStays
    <3> QED
      BY <3>1, <3>2
  <2> QED
    BY <2>1, <2>2
<1> QED
  BY <1>2, <1>3 DEF WorkSound

\* A call that withdraws nothing leaves the prompts to the others.
LEMMA PromptsAlone ==
  ASSUME PromptsSound, WorkSound, NEW w \in Workers, NEW t, work' = [work EXCEPT ![w] = t],
         work[w].removed = {}, UNCHANGED <<prompt, asking>>
  PROVE  PromptsSound'
<1>1. ASSUME NEW i \in Ids, prompt'[i].state = "open"
      PROVE  asking'[prompt'[i].dir] = i \/ \E v \in Workers : i \in work'[v].removed
  <2>1. asking[prompt[i].dir] = i \/ \E v \in Workers : i \in work[v].removed
    BY <1>1 DEF PromptsSound, PromptsCount
  <2>2. ASSUME NEW v \in Workers, i \in work[v].removed PROVE i \in work'[v].removed
    BY <2>2 DEF WorkSound
  <2> QED
    BY <2>1, <2>2
<1> QED
  BY <1>1 DEF PromptsSound, PromptsCount

LEMMA MovesAlone ==
  ASSUME MovesOwned, WorkSound, NEW w \in Workers, NEW t, work' = [work EXCEPT ![w] = t],
         work[w].pc \notin Moving,
         \A c \in Channels : channel'[c].reconfiguring => channel[c].reconfiguring
  PROVE  MovesOwned'
<1>1. ASSUME NEW c \in Channels, channel'[c].reconfiguring
      PROVE  \E v \in Workers : work'[v].at = c /\ work'[v].pc \in Moving
  <2>1. PICK v \in Workers : work[v].at = c /\ work[v].pc \in Moving
    BY <1>1 DEF MovesOwned
  <2>2. work'[v] = work[v]
    BY <2>1 DEF WorkSound
  <2> QED
    BY <2>1, <2>2
<1> QED
  BY <1>1 DEF MovesOwned

LEMMA EditorAlone ==
  ASSUME EditorHeld, WorkSound, NEW w \in Workers, NEW t, work' = [work EXCEPT ![w] = t],
         editor' = editor \/ editor' = None, editor' = w => Editing(t),
         \A c \in Channels : channel[c].here => channel'[c].here
  PROVE  EditorHeld'
<1>1. ASSUME editor' # None
      PROVE  editor' \in Workers /\ Editing(work'[editor']) /\ \E c \in Channels : channel'[c].here
  <2>1. editor' = editor /\ editor \in Workers /\ Editing(work[editor])
        /\ \E c \in Channels : channel[c].here
    BY <1>1 DEF EditorHeld
  <2>2. work'[editor] = IF editor = w THEN t ELSE work[editor]
    BY <2>1 DEF WorkSound
  <2> QED
    BY <2>1, <2>2
<1> QED
  BY <1>1 DEF EditorHeld, Editing

LEMMA BoundsAlone ==
  ASSUME Bounded, UNCHANGED bounds \/ Call
  PROVE  Bounded'
BY ProjectTrustAssumption DEF Bounded, bounds, Call

\* A step of a call that changes neither channels nor prompts, nor what is
\* known of a project.
LEMMA Quiet ==
  ASSUME IInv, NEW w \in Workers, NEW t, TaskSound(t), work' = [work EXCEPT ![w] = t],
         work[w].removed = {}, work[w].pc \notin Moving,
         UNCHANGED <<disk, saved, trust, logged, channel, prompt, asking>>,
         editor' = editor \/ editor' = None, editor' = w => Editing(t),
         UNCHANGED bounds \/ Call
  PROVE  IInv'
<1>1. TaskSound(t)'
  BY TaskStays
<1>2. KnownIsLogged' /\ ChannelsSound'
  BY KnownAlone, ChannelsAlone DEF IInv
<1>3. WorkSound'
  BY <1>1, WorkStep DEF IInv
<1>4. PromptsSound' /\ MovesOwned' /\ EditorHeld'
  BY PromptsAlone, MovesAlone, EditorAlone DEF IInv
<1> QED
  BY <1>2, <1>3, <1>4, BoundsAlone DEF IInv

-----------------------------------------------------------------------------
(* The steps of a call                                                     *)

\* A step of w: its task stays sound, and it keeps the editor only to edit.
Stepped(w) ==
  \E t : /\ TaskSound(t) /\ work' = [work EXCEPT ![w] = t]
         /\ editor' = editor \/ editor' = None
         /\ editor' = w => Editing(t)

LEMMA QuietStep ==
  ASSUME IInv, NEW w \in Workers, Stepped(w), work[w].removed = {}, work[w].pc \notin Moving,
         UNCHANGED <<disk, saved, trust, logged, channel, prompt, asking>>,
         UNCHANGED bounds \/ Call
  PROVE  IInv'
<1>1. PICK t : /\ TaskSound(t) /\ work' = [work EXCEPT ![w] = t]
               /\ editor' = editor \/ editor' = None
               /\ editor' = w => Editing(t)
  BY DEF Stepped
<1> QED
  BY <1>1, Quiet

LEMMA HoldsEditor ==
  ASSUME IInv, NEW w \in Workers, editor = w
  PROVE  Editing(work[w]) /\ \E c \in Channels : channel[c].here
BY ProjectTrustAssumption DEF IInv, EditorHeld

LEMMA IdleTask ==
  Idle \in Task /\ TaskSound(Idle) /\ Idle.pc = "idle" /\ Idle.removed = {}
BY DEF Idle, Task, TaskSound, Hashes, Moving

LEMMA FreeTask ==
  ASSUME IInv, NEW w \in Workers, Free(w)
  PROVE  work[w] = Idle /\ work[w].removed = {} /\ work[w].pc = "idle" /\ work[w].pc \notin Moving
         /\ editor # w
BY IdleTask, HoldsEditor DEF Free, Editing, Idle, Moving

LEMMA WalkTask ==
  ASSUME NEW back \in {"edit", "trust", "command"}, NEW d \in Dirs
  PROVE  /\ TaskSound(Walk(back, d)) /\ Walk(back, d).pc \in {"walk", "idle"}
         /\ (\E c \in Channels : channel[c].here) =>
              /\ Walk(back, d).pc = "walk" /\ Walk(back, d).back = back
              /\ Walk(back, d).dir = d
<1> DEFINE todo == {c \in Channels : channel[c].here}
           t == [Idle EXCEPT !.pc = "walk", !.back = back, !.dir = d, !.todo = todo]
<1>1. Walk(back, d) = IF todo = {} THEN Idle ELSE t
  BY DEF Walk
<1>2. t \in Task
  BY IdleTask DEF Task
<1>3. t.pc = "walk" /\ t.back = back /\ t.dir = d /\ t.removed = {}
  BY DEF Idle
<1> HIDE DEF t
<1>4. TaskSound(t)
  BY <1>2, <1>3 DEF TaskSound, Moving
<1> QED
  BY <1>1, <1>3, <1>4, IdleTask

\* A call goes on to its next channel, or ends and gives the editor back.
LEMMA ContinuesSound ==
  ASSUME NEW w \in Workers, NEW t \in Task, t.dir \in Dirs \/ t.todo = {}, t.removed = {},
         editor = w => t.back = "edit", Continues(w, t)
  PROVE  Stepped(w)
<1>1. /\ work' = [work EXCEPT ![w] = IF t.todo = {} THEN Idle
                                     ELSE [t EXCEPT !.pc = "walk", !.at = None, !.cfg = None]]
      /\ editor' = IF t.todo = {} /\ editor = w THEN None ELSE editor
  BY DEF Continues, Does
<1>2. CASE t.todo = {}
  <2>1. editor' # w
    BY <1>1, <1>2, ProjectTrustAssumption
  <2> QED
    BY <1>1, <1>2, <2>1, IdleTask DEF Stepped
<1>3. CASE t.todo # {}
  <2> DEFINE s == [t EXCEPT !.pc = "walk", !.at = None, !.cfg = None]
  <2>1. s \in Task
    BY DEF Task
  <2>2. s.pc = "walk" /\ s.dir = t.dir /\ s.removed = {} /\ s.back = t.back
    BY DEF Task
  <2> HIDE DEF s
  <2>3. TaskSound(s)
    BY <1>3, <2>1, <2>2 DEF TaskSound, Moving
  <2>4. editor' = w => Editing(s)
    BY <1>1, <1>3, <2>2 DEF Editing
  <2>5. work' = [work EXCEPT ![w] = s] /\ editor' = editor
    BY <1>1, <1>3 DEF s
  <2> QED
    BY <2>3, <2>4, <2>5 DEF Stepped
<1> QED
  BY <1>2, <1>3

LEMMA TrustKeeps ==
  ASSUME IInv, NEW w \in Workers, NEW d \in Dirs, NEW allow \in BOOLEAN, Trust(w, d, disk[d], allow)
  PROVE  IInv'
<1> DEFINE h == disk[d]
           t == [Idle EXCEPT !.pc = "trust", !.dir = d, !.hash = h, !.allow = allow]
<1>1. h \in Hashes
  BY DEF IInv, KnownIsLogged, Hashes
<1>2. work' = [work EXCEPT ![w] = t]
      /\ UNCHANGED <<disk, saved, trust, logged, channel, prompt, asking, editor>> /\ Call
  BY DEF Trust, Does, trusted, asked
<1> HIDE DEF h
<1>3. t \in Task /\ t.pc = "trust" /\ t.dir = d /\ t.removed = {}
  BY <1>1, IdleTask DEF Task
<1> HIDE DEF t
<1>4. TaskSound(t)
  BY <1>3 DEF TaskSound, Moving
<1>5. Free(w)
  BY DEF Trust
<1> QED
  BY <1>2, <1>4, <1>5, FreeTask, Quiet

LEMMA TrustChecksKeeps ==
  ASSUME IInv, NEW w \in Workers, TrustChecks(w)
  PROVE  IInv'
<1> DEFINE t == work[w]
<1>1. t \in Task /\ TaskSound(t) /\ t.pc = "trust"
  BY TaskTyped DEF IInv, TrustChecks
<1>2. t.removed = {} /\ t.pc \notin Moving /\ t.dir \in Dirs /\ ~Editing(t)
  BY <1>1 DEF TaskSound, Moving, Editing
<1>3. PICK s : work' = [work EXCEPT ![w] = s] /\ TaskSound(s)
  <2> DEFINE r == [t EXCEPT !.pc = "resolve"]
             l == [t EXCEPT !.pc = "log"]
  <2>1. r \in Task /\ r.pc = "resolve" /\ r.dir = t.dir /\ r.removed = {}
        /\ l \in Task /\ l.pc = "log" /\ l.dir = t.dir /\ l.removed = {}
    BY <1>1, <1>2 DEF Task
  <2>2. \/ work' = [work EXCEPT ![w] = r] \/ work' = [work EXCEPT ![w] = l]
        \/ work' = [work EXCEPT ![w] = Idle]
    BY DEF TrustChecks, Then, Does
  <2> HIDE DEF r, l, t
  <2>3. TaskSound(r) /\ TaskSound(l)
    BY <1>2, <2>1 DEF TaskSound, Moving
  <2> QED
    BY <2>2, <2>3, IdleTask
<1>4. UNCHANGED <<disk, saved, trust, logged, channel, prompt, asking, editor>> /\ UNCHANGED bounds
  BY DEF TrustChecks, trusted, asked
<1>5. editor # w
  BY <1>2, HoldsEditor
<1> HIDE DEF t
<1> QED
  BY <1>2, <1>3, <1>4, <1>5, Quiet DEF t

LEMMA WalkLoadsKeeps ==
  ASSUME IInv, NEW w \in Workers, NEW c \in Channels, WalkLoads(w, c)
  PROVE  IInv'
<1> DEFINE t == work[w]
           todo == t.todo \ {c}
           rest == [t EXCEPT !.todo = todo]
           fails == Fails(trust, t.dir)
           cfg == Loaded(trust, t.dir)
           pc == IF fails THEN "fallback" ELSE "set"
           s == [rest EXCEPT !.pc = pc, !.at = c, !.cfg = cfg]
<1>1. t \in Task /\ TaskSound(t) /\ t.pc = "walk" /\ t.dir \in Dirs
  BY TaskTyped DEF IInv, WalkLoads, TaskSound
<1>2. t.removed = {} /\ t.pc \notin Moving /\ (editor = w => t.back = "edit")
  BY <1>1, HoldsEditor DEF TaskSound, Moving, Editing
<1>3. \/ Continues(w, rest)
      \/ work' = [work EXCEPT ![w] = s] /\ editor' = editor /\ ~(t.back # "trust" /\ fails)
  BY DEF WalkLoads, Does
<1>4. UNCHANGED <<disk, saved, trust, logged, channel, prompt, asking>> /\ UNCHANGED bounds
  BY DEF WalkLoads, trusted, asked
<1>5. rest \in Task /\ rest.dir = t.dir /\ rest.removed = {} /\ rest.back = t.back
  <2>1. todo \in SUBSET Channels
    BY <1>1 DEF Task
  <2> HIDE DEF todo, t
  <2> QED
    BY <1>1, <1>2, <2>1 DEF Task
<1>6. Sound(cfg) /\ cfg \in Config
  BY <1>1, LoadSound DEF IInv, Sound
<1>7. fails \in BOOLEAN
  BY DEF Fails
<1>8. work[w].removed = {} /\ work[w].pc \notin Moving
  BY <1>2
<1> HIDE DEF rest, cfg, fails, t
<1>9. CASE Continues(w, rest)
  <2>1. Stepped(w)
    BY <1>1, <1>2, <1>5, <1>9, ContinuesSound
  <2> QED
    BY <1>4, <1>8, <2>1, QuietStep
<1>10. CASE work' = [work EXCEPT ![w] = s] /\ editor' = editor /\ ~(t.back # "trust" /\ fails)
  <2>1. s \in Task
    BY <1>5, <1>6 DEF Task
  <2>2. s.pc = pc /\ s.at = c /\ s.cfg = cfg /\ s.dir = t.dir /\ s.removed = {} /\ s.back = t.back
    BY <1>5 DEF Task
  <2>3. pc \in {"fallback", "set"} /\ (pc = "fallback" => t.back # "edit")
    BY <1>10
  <2> HIDE DEF s, pc
  <2>4. TaskSound(s)
    BY <1>1, <1>6, <2>1, <2>2, <2>3 DEF TaskSound, Moving
  <2>5. editor' = w => Editing(s)
    BY <1>2, <1>10, <2>2, <2>3 DEF Editing
  <2> QED
    BY <1>4, <1>8, <1>10, <2>4, <2>5, Quiet
<1> QED
  BY <1>3, <1>9, <1>10

\* A step of a call that leaves the prompts and moves of channels alone.
LEMMA Keeps ==
  ASSUME IInv, NEW w \in Workers, NEW t, TaskSound(t)', work' = [work EXCEPT ![w] = t],
         work[w].removed = {}, work[w].pc \notin Moving,
         KnownIsLogged', ChannelsSound', logged \subseteq logged', UNCHANGED <<prompt, asking>>,
         \A c \in Channels : /\ channel'[c].reconfiguring => channel[c].reconfiguring
                             /\ channel[c].here => channel'[c].here,
         editor' = editor \/ editor' = None, editor' = w => Editing(t),
         UNCHANGED bounds \/ Call
  PROVE  IInv'
<1>1. WorkSound'
  BY WorkStep DEF IInv
<1>2. PromptsSound' /\ MovesOwned' /\ EditorHeld'
  BY PromptsAlone, MovesAlone, EditorAlone DEF IInv
<1> QED
  BY <1>1, <1>2, BoundsAlone DEF IInv

LEMMA WalkKeeps ==
  ASSUME IInv, NEW w \in Workers, NEW c \in Channels, Turn(w, c) \/ Command(w, c)
  PROVE  IInv'
<1>1. channel[c] \in Channel /\ channel[c].dir \in Dirs
  BY DEF IInv, ChannelsSound, Channel
<1>2. work[w].removed = {} /\ work[w].pc \notin Moving /\ editor # w
  BY FreeTask DEF Turn, Command
<1>3. CASE Turn(w, c)
  <2>1. TaskSound(Walk("trust", channel[c].dir))
    BY <1>1, WalkTask
  <2>2. work' = [work EXCEPT ![w] = Walk("trust", channel[c].dir)] /\ UNCHANGED bounds
        /\ UNCHANGED <<disk, saved, trust, logged, channel, prompt, asking, editor>>
    BY <1>3 DEF Turn, Does, trusted, asked
  <2> QED
    BY <1>2, <2>1, <2>2, Quiet
<1>4. CASE Command(w, c)
  <2> DEFINE t == Walk("command", channel[c].dir)
             s == [t EXCEPT !.todo = {c}]
  <2>1. TaskSound(t) /\ t.pc = "walk" /\ t.dir = channel[c].dir
    BY <1>1, <1>4, WalkTask DEF Command, Live
  <2>2. t \in Task /\ t.removed = {}
    BY <2>1 DEF TaskSound
  <2> HIDE DEF t
  <2>3. s \in Task /\ s.pc = "walk" /\ s.dir = channel[c].dir /\ s.removed = {}
    BY <2>1, <2>2 DEF Task
  <2>4. work' = [work EXCEPT ![w] = s] /\ Call
        /\ UNCHANGED <<disk, saved, trust, logged, channel, prompt, asking, editor>>
    BY <1>4 DEF Command, Does, trusted, asked, t
  <2> HIDE DEF s
  <2>5. TaskSound(s)
    BY <1>1, <2>3 DEF TaskSound, Moving
  <2> QED
    BY <1>2, <2>4, <2>5, Quiet
<1> QED
  BY <1>3, <1>4

LEMMA CreateKeeps ==
  ASSUME IInv, NEW w \in Workers, NEW c \in Channels, NEW d \in Dirs, Create(w, c, d)
  PROVE  IInv'
<1> DEFINE cfg == Load(trust, d)
           t == [Idle EXCEPT !.pc = "start", !.at = c, !.dir = d, !.cfg = cfg]
<1>1. Sound(cfg) /\ cfg.dir = d /\ cfg \in Config
  BY LoadSound DEF IInv, Create, Sound
<1>2. work' = [work EXCEPT ![w] = t] /\ Call
      /\ UNCHANGED <<disk, saved, trust, logged, channel, prompt, asking, editor>>
  BY DEF Create, Does, trusted, asked
<1>3. work[w].removed = {} /\ work[w].pc \notin Moving /\ editor # w
  BY FreeTask DEF Create
<1> HIDE DEF cfg
<1>4. t \in Task /\ t.pc = "start" /\ t.at = c /\ t.dir = d /\ t.cfg = cfg /\ t.removed = {}
  BY <1>1, IdleTask DEF Task
<1> HIDE DEF t
<1>5. TaskSound(t)
  BY <1>1, <1>4 DEF TaskSound, Moving
<1> QED
  BY <1>2, <1>3, <1>5, Quiet

\* Only what a person allowed, or an owner wrote, is logged; and only what is
\* logged is remembered.
LEMMA TrustLoggedKeeps ==
  ASSUME IInv, NEW w \in Workers, TrustLogged(w)
  PROVE  IInv'
<1> DEFINE t == work[w]
<1>1. t \in Task /\ TaskSound(t) /\ t.pc = "log"
  BY TaskTyped DEF IInv, TrustLogged
<1>2. t.removed = {} /\ t.pc \notin Moving /\ t.dir \in Dirs /\ t.hash \in Hashes
      /\ (editor = w => t.back = "edit")
  BY <1>1, HoldsEditor DEF TaskSound, Moving, Task, Editing
<1> PICK s : s = [t EXCEPT !.pc = "remember"]
  OBVIOUS
<1>3. /\ saved' = [saved EXCEPT ![t.dir] = t.hash] /\ logged' = logged \cup {<<t.dir, t.hash>>}
      /\ work' = [work EXCEPT ![w] = s]
      /\ UNCHANGED <<disk, trust, channel, prompt, asking, editor>> /\ UNCHANGED bounds
  BY DEF TrustLogged, Then, Does, asked
<1>4. s \in Task /\ s.pc = "remember" /\ s.dir = t.dir /\ s.hash = t.hash /\ s.removed = {}
      /\ s.back = t.back
  BY <1>1, <1>2 DEF Task
<1>5. work[w].removed = {} /\ work[w].pc \notin Moving
  BY <1>2
<1> HIDE DEF t
<1>6. TaskSound(s)'
  BY <1>2, <1>3, <1>4 DEF TaskSound, Moving
<1>7. KnownIsLogged'
  <2>1. saved' \in [Dirs -> Hashes]
    BY <1>2, <1>3 DEF IInv, KnownIsLogged
  <2>2. ASSUME NEW d \in Dirs, saved'[d] # None PROVE <<d, saved'[d]>> \in logged'
    BY <1>2, <1>3, <2>2 DEF IInv, KnownIsLogged
  <2> QED
    BY <1>3, <2>1, <2>2 DEF IInv, KnownIsLogged
<1>8. ChannelsSound'
  BY <1>3, ChannelsAlone DEF IInv
<1>9. editor' = w => Editing(s)
  BY <1>2, <1>3, <1>4 DEF Editing
<1> QED
  BY <1>3, <1>5, <1>6, <1>7, <1>8, <1>9, Keeps

LEMMA TrustRememberedKeeps ==
  ASSUME IInv, NEW w \in Workers, TrustRemembered(w)
  PROVE  IInv'
<1> DEFINE t == work[w]
<1>1. t \in Task /\ TaskSound(t) /\ t.pc = "remember"
  BY TaskTyped DEF IInv, TrustRemembered
<1>2. t.removed = {} /\ t.pc \notin Moving /\ t.dir \in Dirs /\ t.hash \in Hashes
      /\ (editor = w => t.back = "edit" /\ \E c \in Channels : channel[c].here)
      /\ <<t.dir, t.hash>> \in logged
  BY <1>1, HoldsEditor DEF TaskSound, Moving, Task, Editing
<1> PICK s : s = IF t.back = "edit" THEN Walk("edit", t.dir) ELSE [t EXCEPT !.pc = "resolve"]
  OBVIOUS
<1>3. /\ trust' = [trust EXCEPT ![t.dir] = t.hash] /\ work' = [work EXCEPT ![w] = s]
      /\ UNCHANGED <<disk, saved, logged, channel, prompt, asking, editor>> /\ UNCHANGED bounds
  BY DEF TrustRemembered, Does, asked
<1>4. TaskSound(s) /\ (t.back = "edit" /\ (\E c \in Channels : channel[c].here) => Editing(s))
  <2>1. CASE t.back = "edit"
    BY <1>2, <2>1, WalkTask DEF Editing
  <2>2. CASE t.back # "edit"
    <3> DEFINE r == [t EXCEPT !.pc = "resolve"]
    <3>1. r \in Task /\ r.pc = "resolve" /\ r.dir = t.dir /\ r.removed = {}
      BY <1>1, <1>2 DEF Task
    <3> HIDE DEF r
    <3>2. TaskSound(r)
      BY <1>2, <3>1 DEF TaskSound, Moving
    <3> QED
      BY <2>2, <3>2 DEF r
  <2> QED
    BY <2>1, <2>2
<1>5. work[w].removed = {} /\ work[w].pc \notin Moving
  BY <1>2
<1> HIDE DEF t
<1>6. KnownIsLogged'
  <2>1. trust' \in [Dirs -> Hashes]
    BY <1>2, <1>3 DEF IInv, KnownIsLogged
  <2>2. ASSUME NEW d \in Dirs, trust'[d] # None PROVE <<d, trust'[d]>> \in logged'
    BY <1>2, <1>3, <2>2 DEF IInv, KnownIsLogged
  <2> QED
    BY <1>3, <2>1, <2>2 DEF IInv, KnownIsLogged
<1>7. ChannelsSound' /\ TaskSound(s)'
  BY <1>3, <1>4, ChannelsAlone, TaskStays DEF IInv
<1>8. editor' = w => Editing(s)
  BY <1>2, <1>3, <1>4
<1> QED
  BY <1>3, <1>5, <1>6, <1>7, <1>8, Keeps

\* set_configuration: what lands is of the directory the channel is in.
LEMMA Landed ==
  ASSUME IInv, NEW c \in Channels, NEW cfg, Sound(cfg), cfg.dir = channel[c].dir,
         channel' = [channel EXCEPT ![c].config = cfg, ![c].stamp = Stamp(cfg)], UNCHANGED logged
  PROVE  /\ ChannelsSound'
         /\ \A b \in Channels : /\ channel'[b].reconfiguring = channel[b].reconfiguring
                                /\ channel'[b].here = channel[b].here
<1> DEFINE stamp == Stamp(cfg)
           k == channel[c]
           n == [[k EXCEPT !.config = cfg] EXCEPT !.stamp = stamp]
<1>1. cfg \in Config /\ stamp \in Stamps
  BY StampTyped DEF Sound, IInv
<1>2. k \in Channel /\ channel \in [Channels -> Channel]
  BY DEF IInv, ChannelsSound
<1>3. channel' = [[channel EXCEPT ![c].config = cfg] EXCEPT ![c].stamp = stamp]
  OBVIOUS
<1> HIDE DEF stamp
<1>4. channel' = [channel EXCEPT ![c] = n]
  BY <1>2, <1>3
<1>5. n \in Channel /\ n.config = cfg /\ n.dir = k.dir /\ n.here = k.here
      /\ n.reconfiguring = k.reconfiguring
  BY <1>1, <1>2 DEF Channel
<1> HIDE DEF n
<1>6. \A b \in Channels : channel'[b] = IF b = c THEN n ELSE channel[b]
  BY <1>2, <1>4
<1>7. channel' \in [Channels -> Channel]
  BY <1>2, <1>4, <1>5
<1>8. ASSUME NEW b \in Channels
      PROVE  Sound(channel[b].config)' /\ channel'[b].config.dir = channel'[b].dir
  <2>1. PICK x : x = channel'[b].config
    OBVIOUS
  <2>2. Sound(x) /\ x.dir = channel'[b].dir
    BY <1>5, <1>6, <2>1 DEF IInv, ChannelsSound
  <2>3. Sound(x)'
    BY <2>2, SoundStays
  <2> QED
    BY <2>1, <2>2, <2>3
<1> QED
  BY <1>5, <1>6, <1>7, <1>8 DEF ChannelsSound

LEMMA KeepsStep ==
  ASSUME IInv, NEW w \in Workers, Stepped(w), work[w].removed = {}, work[w].pc \notin Moving,
         KnownIsLogged', ChannelsSound', logged \subseteq logged', UNCHANGED <<prompt, asking>>,
         \A c \in Channels : /\ channel'[c].reconfiguring => channel[c].reconfiguring
                             /\ channel[c].here => channel'[c].here,
         UNCHANGED bounds \/ Call
  PROVE  IInv'
<1>1. PICK t : /\ TaskSound(t) /\ work' = [work EXCEPT ![w] = t]
               /\ editor' = editor \/ editor' = None
               /\ editor' = w => Editing(t)
  BY DEF Stepped
<1>2. TaskSound(t)'
  BY <1>1, TaskStays
<1> QED
  BY <1>1, <1>2, Keeps

LEMMA SetsKeeps ==
  ASSUME IInv, NEW w \in Workers, Sets(w)
  PROVE  IInv'
<1> DEFINE t == work[w]
<1>1. t \in Task /\ TaskSound(t) /\ t.pc \in {"set", "fallback"}
  BY TaskTyped DEF IInv, Sets
<1>2. t.removed = {} /\ t.pc \notin Moving /\ t.dir \in Dirs /\ t.at \in Channels /\ Sound(t.cfg)
      /\ (editor = w => t.back = "edit" /\ t.pc = "set")
  BY <1>1, HoldsEditor DEF TaskSound, Moving, Editing
<1>3. /\ UNCHANGED <<disk, saved, trust, logged, prompt, asking>> /\ UNCHANGED bounds
      /\ \/ channel' = [channel EXCEPT ![t.at].config = t.cfg, ![t.at].stamp = Stamp(t.cfg)]
            /\ t.cfg.dir = channel[t.at].dir
         \/ channel' = channel
  BY DEF Sets, Lands, trusted, asked
<1>4. ChannelsSound' /\ \A b \in Channels : /\ channel'[b].reconfiguring = channel[b].reconfiguring
                                            /\ channel'[b].here = channel[b].here
  <2>1. CASE /\ channel' = [channel EXCEPT ![t.at].config = t.cfg, ![t.at].stamp = Stamp(t.cfg)]
             /\ t.cfg.dir = channel[t.at].dir
    BY <1>2, <1>3, <2>1, Landed
  <2>2. CASE channel' = channel
    BY <1>3, <2>2, ChannelsAlone DEF IInv
  <2> QED
    BY <1>3, <2>1, <2>2
<1>5. Continues(w, t) \/ (Then(w, "ask") /\ UNCHANGED editor)
  BY DEF Sets
<1>6. Stepped(w)
  <2>1. CASE Continues(w, t)
    BY <1>1, <1>2, <2>1, ContinuesSound
  <2>2. CASE Then(w, "ask") /\ UNCHANGED editor
    <3> DEFINE s == [t EXCEPT !.pc = "ask"]
    <3>1. s \in Task /\ s.pc = "ask" /\ s.at = t.at /\ s.removed = {} /\ s.back = t.back
          /\ s.dir = t.dir
      BY <1>1, <1>2 DEF Task
    <3>2. work' = [work EXCEPT ![w] = s]
      BY <2>2 DEF Then, Does
    <3> HIDE DEF s, t
    <3>3. TaskSound(s)
      BY <1>2, <3>1 DEF TaskSound, Moving
    <3> QED
      BY <1>2, <2>2, <3>1, <3>2, <3>3 DEF Stepped, Editing
  <2> QED
    BY <1>5, <2>1, <2>2
<1>7. KnownIsLogged'
  BY <1>3, KnownAlone DEF IInv
<1>8. work[w].removed = {} /\ work[w].pc \notin Moving
  BY <1>2
<1> HIDE DEF t
<1> QED
  BY <1>3, <1>4, <1>6, <1>7, <1>8, KeepsStep

\* A channel is there, or somewhere else, with what was loaded for it.
LEMMA Placed ==
  ASSUME IInv, NEW c \in Channels, NEW k \in Channel, Sound(k.config), k.config.dir = k.dir,
         channel' = [channel EXCEPT ![c] = k], UNCHANGED logged
  PROVE  ChannelsSound' /\ \A b \in Channels : channel'[b] = IF b = c THEN k ELSE channel[b]
<1>1. \A b \in Channels : channel'[b] = IF b = c THEN k ELSE channel[b]
  BY DEF IInv, ChannelsSound
<1>2. channel' \in [Channels -> Channel]
  BY DEF IInv, ChannelsSound
<1>3. ASSUME NEW b \in Channels
      PROVE  Sound(channel[b].config)' /\ channel'[b].config.dir = channel'[b].dir
  <2>1. PICK x : x = channel'[b].config
    OBVIOUS
  <2>2. Sound(x) /\ x.dir = channel'[b].dir
    BY <1>1, <2>1 DEF IInv, ChannelsSound
  <2>3. Sound(x)'
    BY <2>2, SoundStays
  <2> QED
    BY <2>1, <2>2, <2>3
<1> QED
  BY <1>1, <1>2, <1>3 DEF ChannelsSound

LEMMA StartKeeps ==
  ASSUME IInv, NEW w \in Workers, Start(w)
  PROVE  IInv'
<1> DEFINE t == work[w]
           stamp == Stamp(t.cfg)
           k == [here |-> TRUE, dir |-> t.dir, archived |-> FALSE, reconfiguring |-> FALSE,
                 config |-> t.cfg, stamp |-> stamp]
           s == [t EXCEPT !.pc = "ask"]
<1>1. t \in Task /\ TaskSound(t) /\ t.pc = "start"
  BY TaskTyped DEF IInv, Start
<1>2. t.removed = {} /\ t.pc \notin Moving /\ t.dir \in Dirs /\ t.at \in Channels /\ Sound(t.cfg)
      /\ t.cfg.dir = t.dir /\ editor # w /\ t.cfg \in Config
  BY <1>1, HoldsEditor DEF TaskSound, Moving, Editing, Sound
<1>3. stamp \in Stamps
  BY <1>2, StampTyped DEF IInv
<1>4. /\ UNCHANGED <<disk, saved, trust, logged, prompt, asking, editor>> /\ UNCHANGED bounds
      /\ channel' = [channel EXCEPT ![t.at] = k] /\ work' = [work EXCEPT ![w] = s]
  BY DEF Start, Then, Does, trusted, asked
<1>5. s \in Task /\ s.pc = "ask" /\ s.at = t.at /\ s.removed = {} /\ s.dir = t.dir
  BY <1>1, <1>2 DEF Task
<1>6. work[w].removed = {} /\ work[w].pc \notin Moving
  BY <1>2
<1> HIDE DEF t, s, stamp
<1>7. TaskSound(s)
  BY <1>2, <1>5 DEF TaskSound, Moving
<1>8. k \in Channel /\ k.config = t.cfg /\ k.dir = t.dir /\ k.here /\ ~k.reconfiguring
  BY <1>2, <1>3 DEF Channel
<1> HIDE DEF k
<1>9. ChannelsSound' /\ \A b \in Channels : channel'[b] = IF b = t.at THEN k ELSE channel[b]
  BY ZenonT(40), <1>2, <1>4, <1>8, Placed
<1>10. Stepped(w)
  BY <1>2, <1>4, <1>7 DEF Stepped
<1>11. KnownIsLogged'
  BY <1>4, KnownAlone DEF IInv
<1> QED
  BY <1>4, <1>6, <1>8, <1>9, <1>10, <1>11, KeepsStep

\* A channel is moved by one call at a time.
LEMMA Moved ==
  ASSUME MovesOwned, WorkSound, NEW w \in Workers, NEW t, work' = [work EXCEPT ![w] = t],
         NEW c \in Channels, work[w].at = c \/ work[w].pc \notin Moving,
         channel'[c].reconfiguring => t.at = c /\ t.pc \in Moving,
         \A b \in Channels \ {c} : channel'[b].reconfiguring => channel[b].reconfiguring
  PROVE  MovesOwned'
<1>1. ASSUME NEW b \in Channels, channel'[b].reconfiguring
      PROVE  \E v \in Workers : work'[v].at = b /\ work'[v].pc \in Moving
  <2>1. CASE b = c
    <3>1. work'[w] = t
      BY DEF WorkSound
    <3> QED
      BY <1>1, <2>1, <3>1
  <2>2. CASE b # c
    <3>1. PICK v \in Workers : work[v].at = b /\ work[v].pc \in Moving
      BY <1>1, <2>2 DEF MovesOwned
    <3>2. work'[v] = work[v]
      BY <2>2, <3>1 DEF WorkSound
    <3> QED
      BY <3>1, <3>2
  <2> QED
    BY <2>1, <2>2
<1> QED
  BY <1>1 DEF MovesOwned

\* A step that changes one channel, and whether it is being moved.
LEMMA KeepsMoved ==
  ASSUME IInv, NEW w \in Workers, NEW t, TaskSound(t), work' = [work EXCEPT ![w] = t],
         NEW c \in Channels, NEW k \in Channel, Sound(k.config), k.config.dir = k.dir,
         channel' = [channel EXCEPT ![c] = k] \/ (channel' = channel /\ k = channel[c]),
         channel[c].here => k.here,
         work[w].at = c \/ work[w].pc \notin Moving,
         k.reconfiguring => t.at = c /\ t.pc \in Moving,
         work[w].removed = {}, editor # w,
         UNCHANGED <<disk, saved, trust, logged, prompt, asking, editor>>,
         UNCHANGED bounds \/ Call
  PROVE  IInv'
<1>1. ChannelsSound' /\ \A b \in Channels : channel'[b] = IF b = c THEN k ELSE channel[b]
  <2>1. CASE channel' = [channel EXCEPT ![c] = k]
    BY <2>1, Placed
  <2>2. CASE channel' = channel /\ k = channel[c]
    BY <2>2, ChannelsAlone DEF IInv
  <2> QED
    BY <2>1, <2>2
<1>2. WorkSound'
  <2>1. TaskSound(t)'
    BY TaskStays
  <2> QED
    BY <2>1, WorkStep DEF IInv
<1>3. MovesOwned'
  <2>1. channel'[c].reconfiguring => t.at = c /\ t.pc \in Moving
    BY <1>1
  <2>2. \A b \in Channels \ {c} : channel'[b].reconfiguring => channel[b].reconfiguring
    BY <1>1
  <2> QED
    BY <2>1, <2>2, Moved DEF IInv
<1>4. PromptsSound' /\ KnownIsLogged'
  BY PromptsAlone, KnownAlone DEF IInv
<1>5. EditorHeld'
  <2>1. \A b \in Channels : channel[b].here => channel'[b].here
    BY <1>1
  <2> QED
    BY <2>1, EditorAlone DEF IInv
<1> QED
  BY <1>1, <1>2, <1>3, <1>4, <1>5, BoundsAlone DEF IInv

LEMMA ChannelTyped ==
  ASSUME IInv, NEW c \in Channels
  PROVE  /\ channel[c] \in Channel /\ Sound(channel[c].config)
         /\ channel[c].config.dir = channel[c].dir
BY DEF IInv, ChannelsSound

LEMMA MoveBeginsKeeps ==
  ASSUME IInv, NEW w \in Workers, NEW c \in Channels, NEW d \in Dirs, MoveBegins(w, c, d)
  PROVE  IInv'
<1> DEFINE k == [channel[c] EXCEPT !.reconfiguring = TRUE]
           t == [Idle EXCEPT !.pc = "moveload", !.at = c, !.dir = d]
<1>1. work[w].removed = {} /\ work[w].pc \notin Moving /\ editor # w
  BY FreeTask DEF MoveBegins
<1>2. k \in Channel /\ Sound(k.config) /\ k.config.dir = k.dir /\ k.here = channel[c].here
  BY ChannelTyped DEF Channel
<1>3. t \in Task /\ t.pc = "moveload" /\ t.at = c /\ t.dir = d /\ t.removed = {}
  BY IdleTask DEF Task, Moving
<1>4. /\ channel' = [channel EXCEPT ![c] = k] /\ work' = [work EXCEPT ![w] = t] /\ Call
      /\ UNCHANGED <<disk, saved, trust, logged, prompt, asking, editor>>
  BY DEF MoveBegins, Does, trusted, asked, IInv, ChannelsSound
<1> HIDE DEF k, t
<1>5. TaskSound(t) /\ t.pc \in Moving
  BY <1>3 DEF TaskSound, Moving
<1> QED
  BY <1>1, <1>2, <1>3, <1>4, <1>5, KeepsMoved

LEMMA MoveLoadsKeeps ==
  ASSUME IInv, NEW w \in Workers, MoveLoads(w)
  PROVE  IInv'
<1> DEFINE t == work[w]
           c == t.at
           cfg == Load(trust, t.dir)
           k == [channel[c] EXCEPT !.reconfiguring = FALSE]
           s == [t EXCEPT !.pc = "movecommit", !.cfg = cfg]
<1>1. t \in Task /\ TaskSound(t) /\ t.pc = "moveload"
  BY TaskTyped DEF IInv, MoveLoads
<1>2. t.removed = {} /\ t.dir \in Dirs /\ c \in Channels /\ editor # w
  BY <1>1, HoldsEditor DEF TaskSound, Moving, Editing
<1>3. /\ UNCHANGED <<disk, saved, trust, logged, prompt, asking, editor>> /\ UNCHANGED bounds
      /\ \/ channel' = [channel EXCEPT ![c] = k] /\ work' = [work EXCEPT ![w] = Idle]
         \/ ~Fails(trust, t.dir) /\ channel' = channel /\ work' = [work EXCEPT ![w] = s]
  BY DEF MoveLoads, Does, trusted, asked, IInv, ChannelsSound
<1>4. k \in Channel /\ Sound(k.config) /\ k.config.dir = k.dir /\ k.here = channel[c].here
      /\ ~k.reconfiguring
  BY <1>2, ChannelTyped DEF Channel
<1>5. work[w].removed = {} /\ work[w].at = c
  BY <1>2
<1>6. CASE channel' = [channel EXCEPT ![c] = k] /\ work' = [work EXCEPT ![w] = Idle]
  <2> HIDE DEF k, c, t
  <2> QED
    BY <1>2, <1>3, <1>4, <1>5, <1>6, IdleTask, KeepsMoved
<1>7. CASE ~Fails(trust, t.dir) /\ channel' = channel /\ work' = [work EXCEPT ![w] = s]
  <2>1. Sound(cfg) /\ cfg.dir = t.dir /\ cfg \in Config
    BY <1>2, <1>7, LoadSound DEF IInv, Sound
  <2> HIDE DEF cfg
  <2>2. s \in Task /\ s.pc = "movecommit" /\ s.at = c /\ s.dir = t.dir /\ s.cfg = cfg /\ s.removed = {}
    BY <1>1, <1>2, <2>1 DEF Task, Moving
  <2>3. channel[c] \in Channel /\ Sound(channel[c].config) /\ channel[c].config.dir = channel[c].dir
    BY <1>2, ChannelTyped
  <2> HIDE DEF s, c, t
  <2>4. TaskSound(s) /\ s.pc \in Moving
    BY <1>2, <2>1, <2>2 DEF TaskSound, Moving
  <2> QED
    BY <1>2, <1>3, <1>5, <1>7, <2>2, <2>3, <2>4, KeepsMoved
<1> QED
  BY <1>3, <1>6, <1>7

LEMMA MoveCommitsKeeps ==
  ASSUME IInv, NEW w \in Workers, MoveCommits(w)
  PROVE  IInv'
<1> DEFINE t == work[w]
           c == t.at
           stamp == Stamp(t.cfg)
           k == [channel[c] EXCEPT !.dir = t.dir, !.reconfiguring = FALSE, !.config = t.cfg,
                                   !.stamp = stamp]
           s == [t EXCEPT !.pc = "withdraw"]
<1>1. t \in Task /\ TaskSound(t) /\ t.pc = "movecommit"
  BY TaskTyped DEF IInv, MoveCommits
<1>2. t.removed = {} /\ t.dir \in Dirs /\ c \in Channels /\ editor # w /\ Sound(t.cfg)
      /\ t.cfg.dir = t.dir /\ t.cfg \in Config
  BY <1>1, HoldsEditor DEF TaskSound, Moving, Editing, Sound
<1>3. stamp \in Stamps
  BY <1>2, StampTyped DEF IInv
<1>4. /\ UNCHANGED <<disk, saved, trust, logged, prompt, asking, editor>> /\ UNCHANGED bounds
      /\ channel' = [channel EXCEPT ![c] = k] /\ work' = [work EXCEPT ![w] = s]
  BY <1>2 DEF MoveCommits, Then, Does, trusted, asked, IInv, ChannelsSound
<1>5. channel[c] \in Channel
  BY <1>2, ChannelTyped
<1> HIDE DEF stamp
<1>6. k \in Channel /\ k.config = t.cfg /\ k.dir = t.dir /\ ~k.reconfiguring /\ k.here = channel[c].here
  BY <1>2, <1>3, <1>5 DEF Channel
<1>7. s \in Task /\ s.pc = "withdraw" /\ s.at = c /\ s.removed = {} /\ s.dir = t.dir
  BY <1>1, <1>2 DEF Task
<1>8. work[w].removed = {} /\ work[w].at = c
  BY <1>2
<1> HIDE DEF k, s, c, t
<1>9. TaskSound(s)
  BY <1>2, <1>7 DEF TaskSound, Moving
<1> QED
  BY <1>2, <1>4, <1>6, <1>8, <1>9, KeepsMoved

LEMMA ArchiveKeeps ==
  ASSUME IInv, NEW w \in Workers, NEW c \in Channels, Archive(w, c)
  PROVE  IInv'
<1> DEFINE k == [channel[c] EXCEPT !.archived = TRUE]
           t == [Idle EXCEPT !.pc = "withdraw", !.at = c]
<1>1. work[w].removed = {} /\ work[w].pc \notin Moving /\ editor # w
  BY FreeTask DEF Archive
<1>2. k \in Channel /\ Sound(k.config) /\ k.config.dir = k.dir /\ k.here = channel[c].here
      /\ k.reconfiguring = channel[c].reconfiguring
  BY ChannelTyped DEF Channel
<1>3. t \in Task /\ t.pc = "withdraw" /\ t.at = c /\ t.removed = {} /\ t.todo = {}
  BY IdleTask DEF Task, Idle
<1>4. /\ channel' = [channel EXCEPT ![c] = k] /\ work' = [work EXCEPT ![w] = t] /\ Call
      /\ UNCHANGED <<disk, saved, trust, logged, prompt, asking, editor>>
  BY DEF Archive, Does, trusted, asked, IInv, ChannelsSound
<1> HIDE DEF k, t
<1>5. TaskSound(t)
  BY <1>3 DEF TaskSound, Moving
<1>6. ChannelsSound' /\ \A b \in Channels : channel'[b] = IF b = c THEN k ELSE channel[b]
  BY <1>2, <1>4, Placed
<1>7. Stepped(w) /\ KnownIsLogged'
  BY <1>1, <1>4, <1>5, KnownAlone DEF Stepped, IInv
<1> QED
  BY <1>1, <1>2, <1>4, <1>6, <1>7, KeepsStep

-----------------------------------------------------------------------------
(* Prompts                                                                 *)

LEMMA PromptTyped ==
  ASSUME PromptsSound, NEW i \in Ids
  PROVE  /\ prompt[i] \in Prompt \/ prompt[i] = NoPrompt
         /\ prompt[i] # NoPrompt => prompt[i].dir \in Dirs /\ prompt[i].hash \in Hashes
         /\ NoPrompt.state = "none" /\ NoPrompt.dir = None /\ None \notin Dirs
  BY ProjectTrustAssumption DEF PromptsSound, Prompt, NoPrompt

\* Prompts are answered: an answer opens none, and moves none.
LEMMA Answered ==
  ASSUME PromptsSound, WorkSound, UNCHANGED asking,
         prompt' \in [Ids -> Prompt \cup {NoPrompt}],
         \A i \in Ids : /\ prompt[i] # NoPrompt => prompt'[i].dir = prompt[i].dir
                        /\ prompt'[i].state = "open" => prompt[i].state = "open",
         \A i \in Ids, v \in Workers :
           i \in work[v].removed => i \in work'[v].removed \/ prompt'[i].state # "open"
  PROVE  PromptsSound'
<1>1. ASSUME NEW d \in Dirs, asking[d] # NoId PROVE prompt'[asking[d]].dir = d
  <2>1. asking[d] \in Ids /\ prompt[asking[d]].dir = d
    BY <1>1 DEF PromptsSound
  <2>2. prompt[asking[d]] # NoPrompt
    BY <2>1, PromptTyped
  <2> QED
    BY <2>1, <2>2
<1>2. ASSUME NEW i \in Ids, prompt'[i].state = "open"
      PROVE  asking'[prompt'[i].dir] = i \/ \E v \in Workers : i \in work'[v].removed
  <2>1. prompt[i].state = "open" /\ prompt'[i].dir = prompt[i].dir
    BY <1>2, PromptTyped
  <2>2. asking[prompt[i].dir] = i \/ \E v \in Workers : i \in work[v].removed
    BY <2>1 DEF PromptsSound, PromptsCount
  <2> QED
    BY <1>2, <2>1, <2>2
<1> QED
  BY <1>1, <1>2 DEF PromptsSound, PromptsCount

LEMMA ReplyKeeps ==
  ASSUME IInv, NEW i \in Ids, NEW value \in {"allow", "deny"}, Reply(i, value)
  PROVE  IInv'
<1> DEFINE p == [prompt[i] EXCEPT !.state = value]
<1>1. prompt[i] \in Prompt
  BY PromptTyped DEF Reply, IInv
<1>2. p \in Prompt /\ p.dir = prompt[i].dir /\ p.state = value
  BY <1>1 DEF Prompt
<1>3. prompt \in [Ids -> Prompt \cup {NoPrompt}]
  BY DEF IInv, PromptsSound
<1>4. prompt' = [prompt EXCEPT ![i] = p]
      /\ UNCHANGED <<disk, saved, trust, logged, channel, asking, work, editor, events, changes>>
  BY <1>3 DEF Reply, trusted, bounds
<1> HIDE DEF p
<1>5. \A j \in Ids : prompt'[j] = IF j = i THEN p ELSE prompt[j]
  BY <1>3, <1>4
<1>6. prompt' \in [Ids -> Prompt \cup {NoPrompt}]
  BY <1>2, <1>3, <1>4
<1>7. PromptsSound'
  BY <1>2, <1>4, <1>5, <1>6, Answered DEF IInv
<1>8. KnownIsLogged' /\ ChannelsSound'
  BY <1>4, KnownAlone, ChannelsAlone DEF IInv
<1>9. WorkSound' /\ MovesOwned' /\ EditorHeld' /\ Bounded'
  BY <1>4, TaskStays DEF IInv, WorkSound, MovesOwned, EditorHeld, Bounded, Editing
<1> QED
  BY <1>7, <1>8, <1>9 DEF IInv

\* A step of a call that changes prompts, but no channel.
LEMMA KeepsPrompts ==
  ASSUME IInv, NEW w \in Workers, NEW t, TaskSound(t), work' = [work EXCEPT ![w] = t],
         work[w].pc \notin Moving, PromptsSound',
         UNCHANGED <<disk, saved, trust, logged, channel>>,
         editor' = editor \/ editor' = None, editor' = w => Editing(t),
         UNCHANGED bounds \/ Call
  PROVE  IInv'
<1>1. TaskSound(t)'
  BY TaskStays
<1>2. WorkSound' /\ KnownIsLogged' /\ ChannelsSound'
  BY <1>1, WorkStep, KnownAlone, ChannelsAlone DEF IInv
<1>3. MovesOwned' /\ EditorHeld'
  BY MovesAlone, EditorAlone DEF IInv
<1> QED
  BY <1>2, <1>3, BoundsAlone DEF IInv

\* A call that withdraws nothing leaves what others withdraw.
LEMMA RemovedStays ==
  ASSUME WorkSound, NEW w \in Workers, NEW t, work' = [work EXCEPT ![w] = t], work[w].removed = {},
         NEW v \in Workers, NEW i \in work[v].removed
  PROVE  i \in work'[v].removed
BY DEF WorkSound

LEMMA ResolveTyped ==
  ASSUME PromptsSound, NEW i \in Ids, NEW value \in {"allow", "deny"}, NEW ps,
         ps = Resolve(prompt, i, value)
  PROVE  /\ ps \in [Ids -> Prompt \cup {NoPrompt}]
         /\ \A j \in Ids : /\ j # i => ps[j] = prompt[j]
                           /\ prompt[j] # NoPrompt => ps[j] # NoPrompt /\ ps[j].dir = prompt[j].dir
                           /\ prompt[j] = NoPrompt => ps[j] = NoPrompt
         /\ ps[i].state # "open"
<1>1. prompt \in [Ids -> Prompt \cup {NoPrompt}]
  BY DEF PromptsSound
<1>2. CASE prompt[i].state # "open"
  BY <1>1, <1>2 DEF Resolve
<1>3. CASE prompt[i].state = "open"
  <2> DEFINE p == [prompt[i] EXCEPT !.state = value]
  <2>1. prompt[i] \in Prompt /\ prompt[i] # NoPrompt
    BY <1>3, PromptTyped
  <2>2. p \in Prompt /\ p.dir = prompt[i].dir /\ p.state = value
    BY <2>1 DEF Prompt
  <2>3. ps = [prompt EXCEPT ![i] = p]
    BY <1>1, <1>3 DEF Resolve
  <2>4. p # NoPrompt
    BY <2>2 DEF NoPrompt
  <2> HIDE DEF p
  <2> QED
    BY <1>1, <2>1, <2>2, <2>3, <2>4
<1> QED
  BY <1>2, <1>3

LEMMA TrustResolvesKeeps ==
  ASSUME IInv, NEW w \in Workers, TrustResolves(w)
  PROVE  IInv'
<1> DEFINE t == work[w]
           i == asking[t.dir]
           value == IF t.allow THEN "allow" ELSE "deny"
<1>1. t \in Task /\ TaskSound(t) /\ t.pc = "resolve"
  BY TaskTyped DEF IInv, TrustResolves
<1>2. t.removed = {} /\ t.pc \notin Moving /\ t.dir \in Dirs /\ editor # w
  BY <1>1, HoldsEditor DEF TaskSound, Moving, Editing
<1>3. PICK s : TaskSound(s) /\ work' = [work EXCEPT ![w] = s]
  BY <1>2, WalkTask, IdleTask DEF TrustResolves, Does
<1>4. /\ UNCHANGED <<disk, saved, trust, logged, channel, asking, editor>> /\ UNCHANGED bounds
      /\ \/ prompt' = prompt
         \/ i # NoId /\ prompt' = Resolve(prompt, i, value)
  BY DEF TrustResolves, trusted
<1>5. work[w].removed = {} /\ work[w].pc \notin Moving
  BY <1>2
<1>6. PromptsSound'
  <2>1. CASE prompt' = prompt
    BY <1>3, <1>4, <1>5, <2>1, PromptsAlone DEF IInv
  <2>2. CASE i # NoId /\ prompt' = Resolve(prompt, i, value)
    <3>1. i \in Ids
      BY <1>2, <2>2 DEF IInv, PromptsSound
    <3>2. value \in {"allow", "deny"} /\ PromptsSound
      BY DEF IInv
    <3> HIDE DEF i, value
    <3>3. PICK ps : ps = prompt'
      OBVIOUS
    <3>4. ps = Resolve(prompt, i, value)
      BY <2>2, <3>3
    <3>5. /\ ps \in [Ids -> Prompt \cup {NoPrompt}]
          /\ \A j \in Ids : /\ j # i => ps[j] = prompt[j]
                            /\ prompt[j] # NoPrompt => ps[j].dir = prompt[j].dir
          /\ ps[i].state # "open"
      BY <3>1, <3>2, <3>4, ResolveTyped
    <3>6. \A j \in Ids : /\ prompt[j] # NoPrompt => prompt'[j].dir = prompt[j].dir
                         /\ prompt'[j].state = "open" => prompt[j].state = "open"
      BY <3>3, <3>5
    <3>7. \A j \in Ids, v \in Workers : j \in work[v].removed => j \in work'[v].removed
      BY <1>3, <1>5, RemovedStays DEF IInv
    <3> QED
      BY <1>4, <3>3, <3>5, <3>6, <3>7, Answered DEF IInv
  <2> QED
    BY <1>4, <2>1, <2>2
<1> HIDE DEF t
<1> QED
  BY <1>2, <1>3, <1>4, <1>5, <1>6, KeepsPrompts

\* Prompts that are withdrawn are no longer anyone's, and soon answered.
LEMMA WithdrawsKeeps ==
  ASSUME IInv, NEW w \in Workers, Withdraws(w)
  PROVE  IInv'
<1> DEFINE t == work[w]
           gone == {d \in Dirs : asking[d] # NoId /\ prompt[asking[d]].channel = t.at}
           removed == {asking[d] : d \in gone}
<1>1. t \in Task /\ TaskSound(t) /\ t.pc = "withdraw"
  BY TaskTyped DEF IInv, Withdraws
<1>2. t.removed = {} /\ t.pc \notin Moving /\ t.at \in Channels /\ editor # w
      /\ (t.dir \in Dirs \/ t.todo = {})
  BY <1>1, HoldsEditor DEF TaskSound, Moving, Editing
<1>3. removed \in SUBSET Ids
  BY DEF IInv, PromptsSound
<1> PICK s : s = [t EXCEPT !.pc = "denies", !.removed = removed]
  OBVIOUS
<1>4. /\ UNCHANGED <<disk, saved, trust, logged, channel, prompt, editor>> /\ UNCHANGED bounds
      /\ asking' = [d \in Dirs |-> IF d \in gone THEN NoId ELSE asking[d]]
      /\ work' = [work EXCEPT ![w] = s]
  BY DEF Withdraws, Does, trusted
<1>5. work[w].removed = {} /\ work[w].pc \notin Moving
  BY <1>2
<1>6. s \in Task /\ s.pc = "denies" /\ s.at = t.at /\ s.removed = removed
      /\ s.dir = t.dir /\ s.todo = t.todo
  <2> HIDE DEF removed, t
  <2> QED
    BY <1>1, <1>3 DEF Task
<1>7. TaskSound(s)
  BY <1>2, <1>6 DEF TaskSound, Moving
<1>8. PromptsSound'
  <2>1. asking' \in [Dirs -> Ids \cup {NoId}]
    BY <1>4 DEF IInv, PromptsSound
  <2>2. \A d \in Dirs : asking'[d] # NoId => prompt'[asking'[d]].dir = d
    BY <1>4 DEF IInv, PromptsSound
  <2>3. ASSUME NEW i \in Ids, prompt'[i].state = "open"
        PROVE  asking'[prompt'[i].dir] = i \/ \E v \in Workers : i \in work'[v].removed
    <3>1. asking[prompt[i].dir] = i \/ \E v \in Workers : i \in work[v].removed
      BY <1>4, <2>3 DEF IInv, PromptsSound, PromptsCount
    <3>2. prompt[i].dir \in Dirs
      BY <1>4, <2>3, PromptTyped DEF IInv
    <3>3. CASE \E v \in Workers : i \in work[v].removed
      BY <1>4, <1>5, <3>3, RemovedStays DEF IInv
    <3>4. CASE asking[prompt[i].dir] = i /\ prompt[i].dir \in gone
      <4>1. i \in removed
        BY <3>4
      <4>2. work'[w] = s
        BY <1>4 DEF IInv, WorkSound
      <4> QED
        BY <1>6, <4>1, <4>2
    <3>5. CASE asking[prompt[i].dir] = i /\ prompt[i].dir \notin gone
      BY <1>4, <3>2, <3>5
    <3> QED
      BY <3>1, <3>3, <3>4, <3>5
  <2> QED
    BY <1>4, <2>1, <2>2, <2>3 DEF IInv, PromptsSound, PromptsCount
<1> HIDE DEF t, removed, gone
<1> QED
  BY <1>2, <1>4, <1>5, <1>7, <1>8, KeepsPrompts

LEMMA DeniesKeeps ==
  ASSUME IInv, NEW w \in Workers, Denies(w)
  PROVE  IInv'
<1> DEFINE t == work[w]
           answers(i) == i \in t.removed /\ prompt[i].state = "open"
<1>1. t \in Task /\ TaskSound(t) /\ t.pc = "denies"
  BY TaskTyped DEF IInv, Denies
<1>2. t.pc \notin Moving /\ t.at \in Channels /\ editor # w
      /\ (t.dir \in Dirs \/ t.todo = {})
  BY <1>1, HoldsEditor DEF TaskSound, Moving, Editing
<1> PICK s : s = [t EXCEPT !.pc = "ask", !.removed = {}]
  OBVIOUS
<1>3. /\ UNCHANGED <<disk, saved, trust, logged, channel, asking, editor>> /\ UNCHANGED bounds
      /\ prompt' = [i \in Ids |-> IF answers(i) THEN [prompt[i] EXCEPT !.state = "deny"] ELSE prompt[i]]
      /\ work' = [work EXCEPT ![w] = s]
  BY DEF Denies, Does, trusted
<1>4. s \in Task /\ s.pc = "ask" /\ s.at = t.at /\ s.removed = {}
      /\ s.dir = t.dir /\ s.todo = t.todo
  BY <1>1 DEF Task
<1>5. TaskSound(s)
  BY <1>2, <1>4 DEF TaskSound, Moving
<1>6. ASSUME NEW i \in Ids
      PROVE  /\ prompt'[i] \in Prompt \cup {NoPrompt}
             /\ prompt[i] # NoPrompt => prompt'[i].dir = prompt[i].dir
             /\ prompt'[i].state = "open" => prompt[i].state = "open" /\ i \notin t.removed
  <2>1. CASE answers(i)
    <3>1. prompt[i] \in Prompt
      BY <2>1, PromptTyped DEF IInv
    <3>2. prompt'[i] = [prompt[i] EXCEPT !.state = "deny"]
      BY <1>3, <2>1
    <3> QED
      BY <3>1, <3>2 DEF Prompt
  <2>2. CASE ~answers(i)
    <3>1. prompt'[i] = prompt[i]
      BY <1>3, <2>2
    <3> QED
      BY <2>2, <3>1, PromptTyped DEF IInv
  <2> QED
    BY <2>1, <2>2
<1>7. prompt' \in [Ids -> Prompt \cup {NoPrompt}]
  <2>1. prompt' = [i \in Ids |-> prompt'[i]]
    BY <1>3
  <2> QED
    BY <1>6, <2>1
<1>8. \A i \in Ids, v \in Workers :
        i \in work[v].removed => i \in work'[v].removed \/ prompt'[i].state # "open"
  <2>1. ASSUME NEW i \in Ids, NEW v \in Workers, i \in work[v].removed
        PROVE  i \in work'[v].removed \/ prompt'[i].state # "open"
    <3>1. CASE v = w
      BY <1>6, <2>1, <3>1
    <3>2. CASE v # w
      BY <1>3, <2>1, <3>2 DEF IInv, WorkSound
    <3> QED
      BY <3>1, <3>2
  <2> QED
    BY <2>1
<1>9. PromptsSound'
  BY <1>3, <1>6, <1>7, <1>8, Answered DEF IInv
<1>10. work[w].pc \notin Moving
  BY <1>2
<1> HIDE DEF t
<1> QED
  BY <1>2, <1>3, <1>5, <1>9, <1>10, KeepsPrompts

\* A new prompt of a directory takes the place of the one it had.
LEMMA AsksKeeps ==
  ASSUME IInv, NEW w \in Workers, Asks(w)
  PROVE  IInv'
<1> DEFINE t == work[w]
           cfg == channel[t.at].config
           d == cfg.dir
           prior == asking[d]
           new == [state |-> "open", dir |-> d, hash |-> cfg.hash, channel |-> t.at]
           id == CHOOSE i \in Unused : TRUE
           ps == IF prior = NoId THEN prompt ELSE Resolve(prompt, prior, "deny")
<1>1. t \in Task /\ TaskSound(t) /\ t.pc = "ask"
  BY TaskTyped DEF IInv, Asks
<1>2. t.removed = {} /\ t.pc \notin Moving /\ t.at \in Channels
      /\ (editor = w => t.back = "edit")
  BY <1>1, HoldsEditor DEF TaskSound, Moving, Editing
<1>3. d \in Dirs /\ cfg.hash \in Hashes
  BY <1>2, ChannelTyped DEF Sound, Config, Hashes
<1>4. /\ UNCHANGED <<disk, saved, trust, logged, channel>> /\ UNCHANGED bounds /\ Continues(w, t)
      /\ \/ UNCHANGED <<prompt, asking>>
         \/ /\ Unused # {} /\ prompt' = [ps EXCEPT ![id] = new]
            /\ asking' = [asking EXCEPT ![d] = id]
  BY DEF Asks, trusted, asked
<1>5. PICK s : /\ TaskSound(s) /\ work' = [work EXCEPT ![w] = s]
               /\ editor' = editor \/ editor' = None
               /\ editor' = w => Editing(s)
  <2>1. t.dir \in Dirs \/ t.todo = {}
    BY <1>1 DEF TaskSound
  <2> QED
    BY <1>1, <1>2, <1>4, <2>1, ContinuesSound DEF Stepped
<1>6. work[w].removed = {} /\ work[w].pc \notin Moving
  BY <1>2
<1>7. PromptsSound'
  <2>1. CASE UNCHANGED <<prompt, asking>>
    BY <1>5, <1>6, <2>1, PromptsAlone DEF IInv
  <2>2. CASE /\ Unused # {} /\ prompt' = [ps EXCEPT ![id] = new]
             /\ asking' = [asking EXCEPT ![d] = id]
    <3>1. id \in Ids /\ prompt[id] = NoPrompt /\ NoId \notin Ids
      BY <2>2, ProjectTrustAssumption DEF Unused
    <3>2. new \in Prompt /\ new.dir = d
      BY <1>2, <1>3 DEF Prompt
    <3>3. PromptsSound /\ prompt \in [Ids -> Prompt \cup {NoPrompt}]
          /\ asking \in [Dirs -> Ids \cup {NoId}]
      BY DEF IInv, PromptsSound
    <3>4. \A e \in Dirs : asking[e] # id
      <4>1. ASSUME NEW e \in Dirs, asking[e] = id PROVE FALSE
        <5>1. prompt[id].dir = e
          BY <3>1, <3>3, <4>1 DEF PromptsSound
        <5> QED
          BY <3>1, <3>3, <5>1, PromptTyped
      <4> QED
        BY <4>1
    <3> PICK qs : qs = ps
      OBVIOUS
    <3> HIDE DEF id, new
    <3>5. /\ qs \in [Ids -> Prompt \cup {NoPrompt}]
          /\ \A j \in Ids : /\ prompt[j] # NoPrompt => qs[j].dir = prompt[j].dir
                            /\ qs[j].state = "open" => prompt[j].state = "open" /\ j # prior
      <4>1. CASE prior = NoId
        BY <3>1, <3>3, <4>1
      <4>2. CASE prior # NoId
        <5>1. prior \in Ids
          BY <1>3, <3>3, <4>2
        <5>2. qs = Resolve(prompt, prior, "deny")
          BY <4>2
        <5> HIDE DEF prior
        <5>3. /\ qs \in [Ids -> Prompt \cup {NoPrompt}]
              /\ \A j \in Ids : /\ j # prior => qs[j] = prompt[j]
                                /\ prompt[j] # NoPrompt => qs[j].dir = prompt[j].dir
              /\ qs[prior].state # "open"
          BY <3>3, <5>1, <5>2, ResolveTyped
        <5> QED
          BY <5>3
      <4> QED
        BY <4>1, <4>2
    <3>6. prompt' = [qs EXCEPT ![id] = new]
      BY <2>2
    <3>7. \A j \in Ids : prompt'[j] = IF j = id THEN new ELSE qs[j]
      BY <3>5, <3>6
    <3>8. \A e \in Dirs : asking'[e] = IF e = d THEN id ELSE asking[e]
      BY <2>2, <3>3
    <3>9. prompt' \in [Ids -> Prompt \cup {NoPrompt}] /\ asking' \in [Dirs -> Ids \cup {NoId}]
      BY ZenonT(40), <1>3, <2>2, <3>1, <3>2, <3>3, <3>5, <3>6
    <3>10. ASSUME NEW e \in Dirs, asking'[e] # NoId PROVE prompt'[asking'[e]].dir = e
      <4>1. CASE e = d
        BY <3>1, <3>2, <3>7, <3>8, <4>1
      <4>2. CASE e # d
        <5>1. asking'[e] = asking[e] /\ asking[e] \in Ids /\ asking[e] # id
              /\ prompt[asking[e]].dir = e
          BY <3>3, <3>4, <3>8, <3>10, <4>2 DEF PromptsSound
        <5>2. prompt[asking[e]] # NoPrompt
          BY <3>3, <5>1, PromptTyped
        <5>3. qs[asking[e]].dir = e
          BY <3>5, <5>1, <5>2
        <5>4. prompt'[asking[e]] = qs[asking[e]]
          BY <3>7, <5>1
        <5> QED
          BY <5>1, <5>3, <5>4
      <4> QED
        BY <4>1, <4>2
    <3>11. ASSUME NEW i \in Ids, prompt'[i].state = "open"
           PROVE  asking'[prompt'[i].dir] = i \/ \E v \in Workers : i \in work'[v].removed
      <4>1. CASE i = id
        BY <1>3, <3>2, <3>7, <3>8, <4>1
      <4>2. CASE i # id
        <5>1. prompt[i].state = "open" /\ i # prior /\ prompt'[i].dir = prompt[i].dir
              /\ prompt[i].dir \in Dirs
          BY ZenonT(40), <3>3, <3>5, <3>7, <3>11, <4>2, PromptTyped
        <5>2. asking[prompt[i].dir] = i \/ \E v \in Workers : i \in work[v].removed
          BY <3>3, <5>1 DEF PromptsSound, PromptsCount
        <5>3. CASE asking[prompt[i].dir] = i
          <6>1. prompt[i].dir # d
            BY <5>1, <5>3
          <6> QED
            BY <3>8, <5>1, <5>3, <6>1
        <5>4. CASE \E v \in Workers : i \in work[v].removed
          BY <1>5, <1>6, <5>4, RemovedStays DEF IInv
        <5> QED
          BY <5>2, <5>3, <5>4
      <4> QED
        BY <4>1, <4>2
    <3> QED
      BY <3>9, <3>10, <3>11 DEF PromptsSound, PromptsCount
  <2> QED
    BY <1>4, <2>1, <2>2
<1> HIDE DEF t
<1> QED
  BY <1>4, <1>5, <1>6, <1>7, KeepsPrompts

\* An answered prompt is acted upon, and gone.
LEMMA ActedSound ==
  ASSUME PromptsSound, NEW i \in Ids, Acted(i), prompt[i].state \in {"allow", "deny"},
         \A v \in Workers, j \in Ids : j \in work[v].removed => j \in work'[v].removed
  PROVE  PromptsSound'
<1> DEFINE d == prompt[i].dir
<1>1. prompt \in [Ids -> Prompt \cup {NoPrompt}] /\ asking \in [Dirs -> Ids \cup {NoId}]
      /\ NoId \notin Ids
  BY ProjectTrustAssumption DEF PromptsSound
<1>2. prompt[i] \in Prompt /\ d \in Dirs
  BY PromptTyped
<1>3. prompt' = [prompt EXCEPT ![i] = NoPrompt]
      /\ asking' = IF asking[d] = i THEN [asking EXCEPT ![d] = NoId] ELSE asking
  BY DEF Acted, Owned
<1>4. prompt' \in [Ids -> Prompt \cup {NoPrompt}] /\ asking' \in [Dirs -> Ids \cup {NoId}]
  BY <1>1, <1>2, <1>3
<1>5. \A j \in Ids : j # i => prompt'[j] = prompt[j]
  BY <1>1, <1>3
<1>6. prompt'[i].state = "none"
  BY <1>1, <1>3 DEF NoPrompt
<1>7. \A e \in Dirs : \/ asking'[e] = asking[e] /\ (asking[e] = i => e # d)
                      \/ asking'[e] = NoId /\ e = d /\ asking[e] = i
  BY <1>1, <1>3
<1>8. ASSUME NEW e \in Dirs, asking'[e] # NoId PROVE prompt'[asking'[e]].dir = e
  <2>1. asking'[e] = asking[e] /\ asking[e] \in Ids /\ prompt[asking[e]].dir = e
        /\ (asking[e] = i => e # d)
    BY <1>1, <1>7, <1>8 DEF PromptsSound
  <2>2. asking[e] # i
    BY <2>1
  <2> QED
    BY <1>5, <2>1, <2>2
<1>9. ASSUME NEW j \in Ids, prompt'[j].state = "open"
      PROVE  asking'[prompt'[j].dir] = j \/ \E v \in Workers : j \in work'[v].removed
  <2>1. j # i /\ prompt'[j] = prompt[j]
    BY <1>5, <1>6, <1>9
  <2>2. prompt[j].dir \in Dirs
    BY <1>9, <2>1, PromptTyped
  <2>3. asking[prompt[j].dir] = j \/ \E v \in Workers : j \in work[v].removed
    BY <1>9, <2>1 DEF PromptsSound, PromptsCount
  <2> QED
    BY <1>7, <2>1, <2>2, <2>3
<1> QED
  BY <1>4, <1>8, <1>9 DEF PromptsSound, PromptsCount

LEMMA AllowedKeeps ==
  ASSUME IInv, NEW w \in Workers, NEW i \in Ids, Allowed(i, w)
  PROVE  IInv'
<1> DEFINE p == prompt[i]
           t == [Idle EXCEPT !.pc = "trust", !.dir = p.dir, !.hash = p.hash, !.allow = TRUE]
<1>1. p \in Prompt /\ p.dir \in Dirs /\ p.hash \in Hashes /\ p.state = "allow"
  BY PromptTyped DEF IInv, Allowed
<1>2. work[w].removed = {} /\ work[w].pc \notin Moving /\ editor # w
  BY FreeTask DEF Allowed
<1>3. work' = [work EXCEPT ![w] = t] /\ Acted(i)
      /\ UNCHANGED <<disk, saved, trust, logged, channel, editor>> /\ UNCHANGED bounds
  BY DEF Allowed, Acted, Does, trusted
<1>4. PromptsSound'
  <2>1. \A v \in Workers, j \in Ids : j \in work[v].removed => j \in work'[v].removed
    BY <1>2, <1>3, RemovedStays DEF IInv
  <2> QED
    BY <1>1, <1>3, <2>1, ActedSound DEF IInv
<1> HIDE DEF p
<1>5. t \in Task /\ t.pc = "trust" /\ t.dir = p.dir /\ t.removed = {}
  BY <1>1, IdleTask DEF Task
<1> HIDE DEF t
<1>6. TaskSound(t)
  BY <1>1, <1>5 DEF TaskSound, Moving
<1> QED
  BY <1>2, <1>3, <1>4, <1>6, KeepsPrompts

LEMMA ForgottenKeeps ==
  ASSUME IInv, NEW i \in Ids, Forgotten(i)
  PROVE  IInv'
<1>1. Acted(i) /\ UNCHANGED work /\ prompt[i].state \in {"allow", "deny"}
  BY DEF Forgotten
<1>2. PromptsSound'
  BY <1>1, ActedSound DEF IInv
<1>3. UNCHANGED <<disk, saved, trust, logged, channel, editor, events, changes>>
  BY <1>1 DEF Acted, trusted, bounds
<1>4. KnownIsLogged' /\ ChannelsSound'
  BY <1>3, KnownAlone, ChannelsAlone DEF IInv
<1>5. WorkSound' /\ MovesOwned' /\ EditorHeld' /\ Bounded'
  BY <1>1, <1>3, TaskStays DEF IInv, WorkSound, MovesOwned, EditorHeld, Bounded, Editing
<1> QED
  BY <1>2, <1>4, <1>5 DEF IInv

-----------------------------------------------------------------------------
(* The editor, the files and a new start                                   *)

LEMMA EditBeginsKeeps ==
  ASSUME IInv, NEW w \in Workers, NEW c \in Channels, NEW content \in Edits,
         EditBegins(w, c, content)
  PROVE  IInv'
<1> DEFINE d == channel[c].dir
           h == disk[d]
           allow == ~Pending(d)
<1> PICK t : t = [Idle EXCEPT !.pc = "edit", !.dir = d, !.hash = h, !.allow = allow, !.edit = content]
  OBVIOUS
<1>1. d \in Dirs /\ content \in Contents
  BY ChannelTyped, ProjectTrustAssumption DEF Channel
<1>2. h \in Hashes /\ allow \in BOOLEAN
  BY <1>1 DEF IInv, KnownIsLogged, Hashes, Pending
<1>3. work[w].removed = {} /\ work[w].pc \notin Moving
  BY FreeTask DEF EditBegins
<1>4. /\ work' = [work EXCEPT ![w] = t] /\ editor' = w /\ Call /\ channel[c].here
      /\ UNCHANGED <<disk, saved, trust, logged, channel, prompt, asking>>
  BY DEF EditBegins, Does, trusted, asked
<1> HIDE DEF d, h, allow
<1>5. t \in Task /\ t.pc = "edit" /\ t.dir = d /\ t.edit = content /\ t.removed = {}
  BY <1>1, <1>2, IdleTask DEF Task, Hashes
<1>6. TaskSound(t) /\ Editing(t)
  BY <1>1, <1>5 DEF TaskSound, Moving, Editing
<1>7. KnownIsLogged' /\ ChannelsSound' /\ PromptsSound' /\ MovesOwned' /\ Bounded'
  BY <1>3, <1>4, KnownAlone, ChannelsAlone, PromptsAlone, MovesAlone, BoundsAlone DEF IInv
<1>8. WorkSound'
  <2>1. TaskSound(t)'
    BY <1>4, <1>6, TaskStays
  <2> QED
    BY <1>4, <2>1, WorkStep DEF IInv
<1>9. EditorHeld'
  <2>1. work'[w] = t
    BY <1>4 DEF IInv, WorkSound
  <2>2. Editing(work'[w])
    BY <1>6, <2>1
  <2> QED
    BY <1>4, <2>2 DEF EditorHeld, Editing
<1> QED
  BY <1>7, <1>8, <1>9 DEF IInv

LEMMA EditCommitsKeeps ==
  ASSUME IInv, NEW w \in Workers, EditCommits(w)
  PROVE  IInv'
<1> DEFINE t == work[w]
           r == [t EXCEPT !.pc = "retrust"]
<1>1. t \in Task /\ TaskSound(t) /\ t.pc = "edit"
  BY TaskTyped DEF IInv, EditCommits
<1>2. t.removed = {} /\ t.pc \notin Moving /\ t.dir \in Dirs /\ t.edit \in Contents
      /\ (editor = w => \E c \in Channels : channel[c].here)
  BY <1>1, HoldsEditor DEF TaskSound, Moving
<1>3. UNCHANGED <<saved, trust, logged, channel, prompt, asking>> /\ UNCHANGED bounds
  BY DEF EditCommits, trusted, asked
<1>4. work[w].removed = {} /\ work[w].pc \notin Moving
  BY <1>2
<1>5. KnownIsLogged'
  <2>1. disk' = disk \/ disk' = [disk EXCEPT ![t.dir] = t.edit]
    BY DEF EditCommits
  <2>2. disk' \in [Dirs -> Contents]
    BY <1>2, <2>1 DEF IInv, KnownIsLogged
  <2> QED
    BY <1>3, <2>2 DEF IInv, KnownIsLogged
<1>6. TaskSound(r) /\ Editing(r)
  <2>1. r \in Task /\ r.pc = "retrust" /\ r.dir = t.dir /\ r.removed = {}
    BY <1>1, <1>2 DEF Task
  <2> HIDE DEF r, t
  <2> QED
    BY <1>2, <2>1 DEF TaskSound, Moving, Editing
<1>7. Stepped(w)
  <2>1. CASE disk[t.dir] # t.hash
    <3>1. work' = [work EXCEPT ![w] = Idle] /\ editor' = None
      BY <2>1 DEF EditCommits, Does
    <3> QED
      BY <3>1, IdleTask, ProjectTrustAssumption DEF Stepped
  <2>2. CASE disk[t.dir] = t.hash /\ t.allow
    <3>1. work' = [work EXCEPT ![w] = r] /\ editor' = editor
      BY <2>2 DEF EditCommits, Does
    <3> HIDE DEF r
    <3> QED
      BY <1>6, <3>1 DEF Stepped
  <2>3. CASE disk[t.dir] = t.hash /\ ~t.allow
    <3>1. work' = [work EXCEPT ![w] = Walk("edit", t.dir)] /\ editor' = editor
      BY <2>3 DEF EditCommits, Does
    <3>2. TaskSound(Walk("edit", t.dir))
      BY <1>2, WalkTask
    <3>3. editor' = w => Editing(Walk("edit", t.dir))
      BY <1>2, <3>1, WalkTask DEF Editing
    <3> QED
      BY <3>1, <3>2, <3>3 DEF Stepped
  <2> QED
    BY <2>1, <2>2, <2>3
<1>8. ChannelsSound'
  BY <1>3, ChannelsAlone DEF IInv
<1> HIDE DEF t, r
<1> QED
  BY <1>3, <1>4, <1>5, <1>7, <1>8, KeepsStep

LEMMA EditTrustsKeeps ==
  ASSUME IInv, NEW w \in Workers, EditTrusts(w)
  PROVE  IInv'
<1> DEFINE t == work[w]
           h == disk[t.dir]
           l == [t EXCEPT !.pc = "log", !.back = "edit", !.hash = h, !.edit = None]
<1>1. t \in Task /\ TaskSound(t) /\ t.pc = "retrust"
  BY TaskTyped DEF IInv, EditTrusts
<1>2. t.removed = {} /\ t.pc \notin Moving /\ t.dir \in Dirs
      /\ (editor = w => \E c \in Channels : channel[c].here)
  BY <1>1, HoldsEditor DEF TaskSound, Moving
<1>3. UNCHANGED <<disk, saved, trust, logged, channel, prompt, asking, editor>> /\ UNCHANGED bounds
      /\ work' = [work EXCEPT ![w] = IF h = Empty THEN Walk("edit", t.dir) ELSE l]
  BY DEF EditTrusts, Does, trusted, asked
<1>4. h \in Hashes
  BY <1>2 DEF IInv, KnownIsLogged, Hashes
<1>5. TaskSound(l) /\ Editing(l)
  <2> HIDE DEF h
  <2>1. l \in Task /\ l.pc = "log" /\ l.back = "edit" /\ l.dir = t.dir /\ l.removed = {}
    BY <1>1, <1>2, <1>4 DEF Task, Hashes
  <2> HIDE DEF l, t
  <2> QED
    BY <1>2, <2>1 DEF TaskSound, Moving, Editing
<1>6. TaskSound(Walk("edit", t.dir)) /\ (editor = w => Editing(Walk("edit", t.dir)))
  BY <1>2, WalkTask DEF Editing
<1>7. Stepped(w)
  BY <1>3, <1>5, <1>6 DEF Stepped
<1>8. work[w].removed = {} /\ work[w].pc \notin Moving
  BY <1>2
<1> QED
  BY <1>3, <1>7, <1>8, QuietStep

LEMMA ChangeKeeps ==
  ASSUME IInv, NEW d \in Dirs, NEW content \in Contents, Change(d, content)
  PROVE  IInv'
<1>1. /\ disk' = [disk EXCEPT ![d] = content] /\ changes' \in 0 .. MaxChanges
      /\ UNCHANGED <<saved, trust, logged, channel, prompt, asking, work, editor, events>>
  BY ProjectTrustAssumption DEF Change, trusted, asked, IInv, Bounded
<1>2. KnownIsLogged'
  BY <1>1 DEF IInv, KnownIsLogged
<1>3. ChannelsSound'
  BY <1>1, ChannelsAlone DEF IInv
<1>4. WorkSound' /\ MovesOwned' /\ EditorHeld' /\ Bounded'
  BY <1>1, TaskStays DEF IInv, WorkSound, MovesOwned, EditorHeld, Bounded, Editing
<1>5. PromptsSound'
  BY <1>1 DEF IInv, PromptsSound, PromptsCount
<1> QED
  BY <1>2, <1>3, <1>4, <1>5 DEF IInv

\* A new start: no call, no prompt, nobody edits.
LEMMA Fresh ==
  ASSUME ChannelsSound, \A c \in Channels : ~channel[c].reconfiguring,
         prompt = [i \in Ids |-> NoPrompt], asking = [d \in Dirs |-> NoId],
         work = [w \in Workers |-> Idle], editor = None
  PROVE  WorkSound /\ PromptsSound /\ MovesOwned /\ EditorHeld
<1>1. WorkSound
  BY IdleTask DEF WorkSound
<1>2. PromptsSound
  BY DEF PromptsSound, PromptsCount, NoPrompt
<1> QED
  BY <1>1, <1>2 DEF MovesOwned, EditorHeld

LEMMA RestartKeeps ==
  ASSUME IInv, Restart
  PROVE  IInv'
<1> DEFINE there == [c \in {c \in Channels : Live(c)} |-> channel[c].dir]
<1>1. /\ trust' = saved /\ channel' = Recovered(there, saved)
      /\ prompt' = [i \in Ids |-> NoPrompt] /\ asking' = [d \in Dirs |-> NoId]
      /\ work' = [w \in Workers |-> Idle] /\ editor' = None
      /\ UNCHANGED <<disk, saved, logged>> /\ Call
  BY DEF Restart
<1>2. KnownIsLogged'
  BY <1>1 DEF IInv, KnownIsLogged
<1>3. \A c \in DOMAIN there : there[c] \in Dirs
  BY ChannelTyped DEF Channel
<1>4. PICK ks : ks = Recovered(there, saved)
  OBVIOUS
<1>5. /\ ks \in [Channels -> Channel]
      /\ \A c \in Channels : Sound(ks[c].config) /\ ks[c].config.dir = ks[c].dir /\ ~ks[c].reconfiguring
  <2> HIDE DEF there
  <2> QED
    BY <1>3, <1>4, RecoveredSound DEF IInv
<1>6. channel' = ks
  BY <1>1, <1>4
<1>7. ChannelsSound' /\ \A c \in Channels : ~channel'[c].reconfiguring
  <2>1. ASSUME NEW c \in Channels PROVE Sound(channel[c].config)'
    <3>1. PICK x : x = ks[c].config
      OBVIOUS
    <3>2. Sound(x)'
      BY <1>1, <1>5, <3>1, SoundStays
    <3> QED
      BY <1>6, <3>1, <3>2
  <2> QED
    BY <1>5, <1>6, <2>1 DEF ChannelsSound
<1>8. WorkSound' /\ PromptsSound' /\ MovesOwned' /\ EditorHeld'
  <2>1. WorkSound'
    <3>1. ASSUME NEW w \in Workers PROVE TaskSound(work[w])'
      <4>1. TaskSound(Idle)'
        BY <1>1, IdleTask, TaskStays
      <4> QED
        BY <1>1, <4>1
    <3> QED
      BY <1>1, <3>1, IdleTask DEF WorkSound
  <2>2. PromptsSound'
    BY <1>1 DEF PromptsSound, PromptsCount, NoPrompt
  <2> QED
    BY <1>1, <1>7, <2>1, <2>2 DEF MovesOwned, EditorHeld
<1> QED
  BY <1>1, <1>2, <1>7, <1>8, BoundsAlone DEF IInv

-----------------------------------------------------------------------------
(* The theorems                                                            *)

LEMMA Initially ==
  ASSUME Init
  PROVE  IInv
<1>1. KnownIsLogged
  <2>1. Home \in Dirs /\ Empty \in Contents /\ Saved \subseteq Hashes
    BY ProjectTrustAssumption DEF Hashes
  <2>2. disk \in [Dirs -> Contents] /\ saved \in [Dirs -> Hashes] /\ trust = saved
    BY <2>1 DEF Init, Hashes
  <2>3. ASSUME NEW d \in Dirs, saved[d] # None PROVE <<d, saved[d]>> \in logged
    <3>1. saved[d] \in Contents
      BY <2>2, <2>3 DEF Hashes
    <3>2. <<d, saved[d]>> \in Dirs \X Contents
      BY <3>1
    <3> QED
      BY <3>2 DEF Init
  <2> QED
    BY <2>2, <2>3 DEF KnownIsLogged
<1>2. ChannelsSound /\ \A c \in Channels : ~channel[c].reconfiguring
  <2>1. PICK there \in There : channel = Recovered([c \in there |-> Home], saved)
    BY DEF Init
  <2>2. \A c \in DOMAIN [k \in there |-> Home] : [k \in there |-> Home][c] \in Dirs
    BY ProjectTrustAssumption
  <2> DEFINE homes == [c \in there |-> Home]
  <2> HIDE DEF homes
  <2>3. /\ Recovered(homes, saved) \in [Channels -> Channel]
        /\ \A c \in Channels : LET k == Recovered(homes, saved)[c] IN
             Sound(k.config) /\ k.config.dir = k.dir /\ ~k.reconfiguring
    BY <1>1, <2>2, RecoveredSound DEF homes
  <2> QED
    BY <2>1, <2>3 DEF ChannelsSound, homes
<1>3. WorkSound /\ PromptsSound /\ MovesOwned /\ EditorHeld
  BY <1>2, Fresh DEF Init
<1>4. Bounded
  BY ProjectTrustAssumption DEF Init, Bounded
<1> QED
  BY <1>1, <1>2, <1>3, <1>4 DEF IInv

LEMMA StepsKeep ==
  ASSUME IInv, NEW w \in Workers, Steps(w) \/ Calls(w) \/ \E i \in Ids : Allowed(i, w)
  PROVE  IInv'
<1>1. CASE Steps(w)
  BY <1>1, TrustChecksKeeps, TrustLoggedKeeps, TrustRememberedKeeps, TrustResolvesKeeps,
     WalkLoadsKeeps, SetsKeeps, AsksKeeps, StartKeeps, MoveLoadsKeeps, MoveCommitsKeeps,
     WithdrawsKeeps, DeniesKeeps, EditCommitsKeeps, EditTrustsKeeps DEF Steps
<1>2. CASE Calls(w)
  BY <1>2, TrustKeeps, WalkKeeps, ArchiveKeeps, CreateKeeps, MoveBeginsKeeps, EditBeginsKeeps
     DEF Calls
<1> QED
  BY <1>1, <1>2, AllowedKeeps

LEMMA Inductive ==
  ASSUME IInv, [Next]_vars
  PROVE  IInv'
<1>1. CASE UNCHANGED vars
  <2>1. UNCHANGED <<disk, saved, trust, channel, prompt, asking, work, editor, logged, events, changes>>
    BY <1>1 DEF vars
  <2>2. KnownIsLogged' /\ ChannelsSound'
    BY <2>1, KnownAlone, ChannelsAlone DEF IInv
  <2>3. WorkSound' /\ MovesOwned' /\ EditorHeld' /\ Bounded'
    BY <2>1, TaskStays DEF IInv, WorkSound, MovesOwned, EditorHeld, Bounded, Editing
  <2>4. PromptsSound'
    BY <2>1 DEF IInv, PromptsSound, PromptsCount
  <2> QED
    BY <2>2, <2>3, <2>4 DEF IInv
<1>2. CASE \E w \in Workers : Steps(w) \/ Calls(w) \/ \E i \in Ids : Allowed(i, w)
  BY <1>2, StepsKeep
<1>3. CASE \E i \in Ids : Forgotten(i)
  BY <1>3, ForgottenKeeps
<1>4. CASE \E d \in Dirs, content \in Contents : Change(d, content)
  BY <1>4, ChangeKeeps
<1>5. CASE \E i \in Ids, value \in {"allow", "deny"} : Reply(i, value)
  BY <1>5, ReplyKeeps
<1>6. CASE Restart
  BY <1>6, RestartKeeps
<1> QED
  BY <1>1, <1>2, <1>3, <1>4, <1>5, <1>6 DEF Next

THEOREM Always == Spec => []IInv
<1>1. Init => IInv
  BY Initially
<1>2. IInv /\ [Next]_vars => IInv'
  BY Inductive
<1> QED
  BY <1>1, <1>2, PTL DEF Spec

\* The state of the daemon and of its channels is of its types; a channel
\* that is being moved belongs to the call that moves it, and the editor to
\* one that edits (src/daemon/owner.rs, src/daemon/configuration.rs).
THEOREM TypeCorrect == Spec => []TypeOK
<1>1. IInv => TypeOK
  <2>1. SUFFICES ASSUME IInv PROVE TypeOK
    OBVIOUS
  <2>2. disk \in [Dirs -> Contents] /\ {saved, trust} \subseteq [Dirs -> Contents \cup {None}]
    BY <2>1 DEF IInv, KnownIsLogged, Hashes
  <2>3. ASSUME NEW c \in Channels
        PROVE  LET k == channel[c] IN
               /\ k.dir \in Dirs /\ k.config \in Config
               /\ k.config.pending => ~k.config.trusted
               /\ k.reconfiguring => \E w \in Workers :
                    work[w].at = c /\ work[w].pc \in {"moveload", "movecommit"}
    <3>1. channel[c].dir \in Dirs /\ Sound(channel[c].config)
      BY <2>1, ChannelTyped DEF Channel
    <3> QED
      BY <2>1, <3>1 DEF IInv, MovesOwned, Moving, Sound
  <2>4. \A i \in Ids : prompt[i].state \in {"none", "open", "allow", "deny"}
    BY <2>1, PromptTyped DEF IInv, Prompt
  <2>5. \A d \in Dirs : asking[d] # NoId => prompt[asking[d]].dir = d
    BY <2>1 DEF IInv, PromptsSound
  <2>6. editor # None =>
          work[editor].pc \in {"edit", "retrust", "log", "remember", "walk", "set", "ask"}
    BY <2>1 DEF IInv, EditorHeld, Editing
  <2> QED
    BY <2>1, <2>2, <2>3, <2>4, <2>5, <2>6 DEF IInv, Bounded, TypeOK
<1> QED
  BY <1>1, Always, PTL

\* A channel uses the layers of its own directory, and only if exactly those
\* bytes were trusted and can be read (src/config/snapshot.rs:49); an open
\* prompt can still be acted upon, or is about to be withdrawn.
THEOREM TrustCorrect == Spec => []TrustIsKept
<1>1. IInv => OnlyTrustedBytes /\ OfItsDirectory
  BY DEF IInv, ChannelsSound, Sound, OnlyTrustedBytes, OfItsDirectory
<1>2. IInv => PromptsCount
  BY DEF IInv, PromptsSound
<1> QED
  BY <1>1, <1>2, Always, PTL DEF TrustIsKept
=============================================================================

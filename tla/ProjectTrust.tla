---------------------------- MODULE ProjectTrust ----------------------------
(***************************************************************************)
(* The configuration that a project brings (src/config/snapshot.rs,        *)
(* src/config/effective.rs), who trusts it (src/daemon/owner.rs), the      *)
(* editor of its files (src/daemon/configuration.rs, src/config/editor.rs) *)
(* and the channels that use it (src/agent/runtime/settings.rs).           *)
(*                                                                         *)
(* A load reads the files once and looks up whether that content is        *)
(* trusted; it is set on a channel later.  People answer prompts, give and *)
(* refuse trust by command, edit files through the daemon, and change them *)
(* behind its back.  All of these run on the daemon's workers at once.     *)
(*                                                                         *)
(* The content of a project is a version of each of its files; its hash is *)
(* the content itself.  What layers, roles, skills and commands define is  *)
(* left out: a configuration is that of the user alone, or with the        *)
(* project's layers.  Errors of disks and the global files are left out.   *)
(***************************************************************************)
EXTENDS Naturals, FiniteSets

CONSTANTS Dirs, Channels, Workers, Home, None, NoId,
          Files,       \* project files: configuration, skills, instructions
          Notes,       \* those of Files that are nested instructions
          Contents,    \* the contents that the files of a directory may have
          Broken,      \* contents that do not load
          Edits,       \* contents that owners write with the editor
          Ids,         \* ids of prompts
          There, Saved, \* which channels there may be at first, and what is trusted
          MaxChanges,  \* bound of the model: changes behind the daemon's back
          MaxCommands  \* bound of the model: calls of owners, restarts

Empty == [f \in Files |-> 0]

ASSUME ProjectTrustAssumption ==
  /\ Home \in Dirs /\ Notes \subseteq Files /\ None \notin Dirs \cup Contents \cup Workers
  /\ Contents \subseteq [Files -> Nat] /\ Empty \in Contents
  /\ Broken \subseteq Contents \ {Empty} /\ Edits \subseteq Contents \ Broken
  /\ NoId \notin Ids /\ IsFiniteSet(Ids)
  /\ There \subseteq SUBSET Channels /\ Saved \subseteq (Contents \ {Empty}) \cup {None}
  /\ MaxChanges \in Nat /\ MaxCommands \in Nat

VARIABLES
  disk,      \* the content of each directory
  saved,     \* the table of trusted hashes; None
  trust,     \* the same in memory
  channel,   \* channel[c]: where it is, and the configuration it uses
  prompt,    \* prompt[i]: an open or answered prompt about trust
  asking,    \* Daemon.trust_prompts: the prompt of each directory
  work,      \* what each worker is doing
  editor,    \* the worker that holds Daemon.editor
  logged,    \* history: what was ever saved
  events, changes

vars == <<disk, saved, trust, channel, prompt, asking, work, editor, logged, events, changes>>

Names(content) == {f \in Files : content[f] # 0}
Config == [dir : Dirs, hash : Contents \cup {None}, pending : BOOLEAN, trusted : BOOLEAN]

\* control::trust_stamp: the files that a configuration was loaded from, now.
FilesOf(cfg) == IF cfg.hash = None THEN {} ELSE Names(cfg.hash)
Stamp(cfg) == [f \in FilesOf(cfg) |-> disk[cfg.dir][f]]

\* The user's own configuration, for a directory.
Global(d) == [dir |-> d, hash |-> None, pending |-> FALSE, trusted |-> FALSE]
\* Loader::load: the project's layers, if exactly what was read is trusted.
Trusts(known, d, content) == known[d] = content
Load(known, d) ==
  IF disk[d] = Empty THEN Global(d)
  ELSE LET t == Trusts(known, d, disk[d])
       IN [dir |-> d, hash |-> disk[d], pending |-> ~t, trusted |-> t]
\* Layers that are broken are read only when they are trusted.
Fails(known, d) == disk[d] \in Broken /\ Trusts(known, d, disk[d])
Loaded(known, d) == IF Fails(known, d) THEN Global(d) ELSE Load(known, d)

\* trust_status: something is there, and it is not what is trusted.
Pending(d) == disk[d] # Empty /\ trust[d] # disk[d]

\* pc: "idle", or the next step of the call; back: what the walk belongs to.
Idle == [pc |-> "idle", back |-> "none", dir |-> None, hash |-> None, allow |-> FALSE,
         todo |-> {}, at |-> None, cfg |-> None, removed |-> {}, edit |-> None]
NoPrompt == [state |-> "none", dir |-> None, hash |-> None, channel |-> None]
Nowhere == [here |-> FALSE, dir |-> Home, archived |-> FALSE, reconfiguring |-> FALSE,
            config |-> Global(Home), stamp |-> [f \in {} |-> 0]]

\* recover: the channels of the log load what is there.
Recovered(there, known) ==
  [c \in Channels |->
     IF c \notin DOMAIN there THEN Nowhere
     ELSE LET cfg == Loaded(known, there[c])
          IN [Nowhere EXCEPT !.here = TRUE, !.dir = there[c], !.config = cfg, !.stamp = Stamp(cfg)]]

Init ==
  /\ \E content \in Contents : disk = [d \in Dirs |-> IF d = Home THEN content ELSE Empty]
  /\ \E hash \in Saved : saved = [d \in Dirs |-> IF d = Home THEN hash ELSE None]
  /\ trust = saved
  /\ \E there \in There : channel = Recovered([c \in there |-> Home], saved)
  /\ prompt = [i \in Ids |-> NoPrompt]
  /\ asking = [d \in Dirs |-> NoId]
  /\ work = [w \in Workers |-> Idle]
  /\ editor = None
  /\ logged = {e \in Dirs \X Contents : saved[e[1]] = e[2]}
  /\ events = 0 /\ changes = 0

-----------------------------------------------------------------------------
trusted == <<saved, trust, logged>>
asked == <<prompt, asking>>
bounds == <<events, changes>>
Does(w, t) == work' = [work EXCEPT ![w] = t]
Then(w, pc) == Does(w, [work[w] EXCEPT !.pc = pc])
Call == events < MaxCommands /\ events' = events + 1 /\ UNCHANGED changes
\* The workers are alike: the first that is idle takes the next call.
Free(w) == work[w] = Idle /\ w = CHOOSE v \in Workers : work[v] = Idle
Live(c) == channel[c].here /\ ~channel[c].archived
\* project_changed, reload_configuration: every channel of the directory.
Walk(back, d) ==
  LET todo == {c \in Channels : channel[c].here}
  IN IF todo = {} THEN Idle
     ELSE [Idle EXCEPT !.pc = "walk", !.back = back, !.dir = d, !.todo = todo]

-----------------------------------------------------------------------------
(* Files change, people answer                                             *)

Change(d, content) ==
  /\ changes < MaxChanges /\ changes' = changes + 1
  /\ content # disk[d]
  /\ disk' = [disk EXCEPT ![d] = content]
  /\ UNCHANGED <<trusted, channel, asked, work, editor, events>>

\* A reply to a prompt; "skip" and the answers of a withdrawal are "deny".
Reply(i, value) ==
  /\ prompt[i].state = "open"
  /\ prompt' = [prompt EXCEPT ![i].state = value]
  /\ UNCHANGED <<disk, trusted, channel, asking, work, editor, bounds>>

\* The task that waits for an answer: a prompt that was replaced or withdrawn
\* meanwhile gives no trust.
OwnedByAny(i) == asking[prompt[i].dir] # NoId
Owned(i) == asking[prompt[i].dir] = i
Acted(i) ==
  /\ prompt' = [prompt EXCEPT ![i] = NoPrompt]
  /\ asking' = IF Owned(i) THEN [asking EXCEPT ![prompt[i].dir] = NoId] ELSE asking
  /\ UNCHANGED <<disk, trusted, channel, editor, bounds>>
AllowedLate(i, w) ==
  /\ prompt[i].state = "allow" /\ Free(w)
  /\ Acted(i)
  /\ IF asking'[prompt[i].dir] = i
     THEN Does(w, [Idle EXCEPT !.pc = "trust", !.dir = prompt[i].dir, !.hash = prompt[i].hash, !.allow = TRUE])
     ELSE UNCHANGED work
Allowed(i, w) ==
  LET p == prompt[i]
  IN /\ p.state = "allow" /\ Owned(i) /\ Free(w)
     /\ Does(w, [Idle EXCEPT !.pc = "trust", !.dir = p.dir, !.hash = p.hash, !.allow = TRUE])
     /\ Acted(i)
Forgotten(i) ==
  /\ prompt[i].state \in {"allow", "deny"}
  /\ prompt[i].state = "allow" => ~Owned(i)
  /\ Acted(i) /\ UNCHANGED work

-----------------------------------------------------------------------------
(* Trust                                                                   *)

\* A person gives or refuses trust by command, for the content that is shown.
Trust(w, d, hash, allow) ==
  /\ Call
  /\ Free(w)
  /\ allow => hash # Empty
  /\ Does(w, [Idle EXCEPT !.pc = "trust", !.dir = d, !.hash = hash, !.allow = allow])
  /\ UNCHANGED <<disk, trusted, channel, asked, editor>>

\* Only what is there now can be trusted.
TrustChecks(w) ==
  LET t == work[w]
  IN /\ t.pc = "trust"
     /\ IF ~t.allow THEN Then(w, "resolve")
        ELSE IF t.hash = disk[t.dir] THEN Then(w, "log") ELSE Does(w, Idle)
     /\ UNCHANGED <<disk, trusted, channel, asked, editor, bounds>>

\* Log::set_trust returns when the writer has saved it.
TrustLogged(w) ==
  LET t == work[w]
  IN /\ t.pc = "log"
     /\ saved' = [saved EXCEPT ![t.dir] = t.hash]
     /\ logged' = logged \cup {<<t.dir, t.hash>>}
     /\ Then(w, "remember")
     /\ UNCHANGED <<disk, trust, channel, asked, editor, bounds>>
TrustRemembered(w) ==
  LET t == work[w]
  IN /\ t.pc = "remember"
     /\ trust' = [trust EXCEPT ![t.dir] = t.hash]
     /\ Does(w, IF t.back = "edit" THEN Walk("edit", t.dir) ELSE [t EXCEPT !.pc = "resolve"])
     /\ UNCHANGED <<disk, saved, logged, channel, asked, editor, bounds>>

\* Whatever prompt the directory has by now gets the same answer.
Resolve(states, i, value) ==
  IF states[i].state # "open" THEN states ELSE [states EXCEPT ![i].state = value]
TrustResolves(w) ==
  LET t == work[w]
      i == asking[t.dir]
  IN /\ t.pc = "resolve"
     /\ prompt' = IF i = NoId THEN prompt
                  ELSE Resolve(prompt, i, IF t.allow THEN "allow" ELSE "deny")
     /\ Does(w, IF t.allow THEN Walk("trust", t.dir) ELSE Idle)
     /\ UNCHANGED <<disk, trusted, channel, asking, editor, bounds>>

-----------------------------------------------------------------------------
(* Channels load what is there                                             *)

ContinuesLocked(w, t) ==
  /\ Does(w, IF t.todo = {} THEN Idle ELSE [t EXCEPT !.pc = "walk", !.at = None, !.cfg = None])
  /\ UNCHANGED editor
\* A call ends, and gives the editor back, with the last of its channels.
Continues(w, t) ==
  /\ Does(w, IF t.todo = {} THEN Idle ELSE [t EXCEPT !.pc = "walk", !.at = None, !.cfg = None])
  /\ editor' = IF t.todo = {} /\ editor = w THEN None ELSE editor

\* The next channel of a walk: it is passed over unless it is in the directory.
WalkLoads(w, c) ==
  LET t == work[w]
      rest == [t EXCEPT !.todo = @ \ {c}]
      loads == channel[c].dir = t.dir
      keeps == t.back # "trust" /\ Fails(trust, t.dir)
  IN /\ t.pc = "walk" /\ c \in t.todo
     /\ IF ~loads \/ keeps THEN Continues(w, rest)
        ELSE /\ Does(w, [rest EXCEPT !.pc = IF Fails(trust, t.dir) THEN "fallback" ELSE "set",
                                     !.at = c, !.cfg = Loaded(trust, t.dir)])
             /\ UNCHANGED editor
     /\ UNCHANGED <<disk, trusted, channel, asked, bounds>>

\* set_configuration: unless the channel is moving or has moved.
Lands(c, cfg) == ~channel[c].reconfiguring /\ cfg.dir = channel[c].dir
Sets(w) ==
  LET t == work[w]
  IN /\ t.pc \in {"set", "fallback"}
     /\ channel' = IF Lands(t.at, t.cfg)
                   THEN [channel EXCEPT ![t.at].config = t.cfg, ![t.at].stamp = Stamp(t.cfg)]
                   ELSE channel
     /\ CASE t.pc = "fallback" -> Continues(w, t)
          [] t.pc = "set" /\ t.back = "command" /\ channel[t.at].dir # t.dir -> Continues(w, t)
          [] OTHER -> Then(w, "ask") /\ UNCHANGED editor
     /\ UNCHANGED <<disk, trusted, asked, bounds>>

\* maybe_trust_prompt: one prompt of each directory, for its latest content.
Unused == {i \in Ids : prompt[i] = NoPrompt /\ \A w \in Workers : i \notin work[w].removed}
Asks(w) ==
  LET t == work[w]
      cfg == channel[t.at].config
      prior == asking[cfg.dir]
      new == [state |-> "open", dir |-> cfg.dir, hash |-> cfg.hash, channel |-> t.at]
      known == prior # NoId /\ prompt[prior].hash = cfg.hash
      id == CHOOSE i \in Unused : TRUE
  IN /\ t.pc = "ask"
     /\ IF ~cfg.pending \/ ~Live(t.at) \/ known THEN UNCHANGED asked
        ELSE /\ Unused # {}
             /\ prompt' = [(IF prior = NoId THEN prompt ELSE Resolve(prompt, prior, "deny"))
                            EXCEPT ![id] = new]
             /\ asking' = [asking EXCEPT ![cfg.dir] = id]
     /\ Continues(w, t)
     /\ UNCHANGED <<disk, trusted, channel, bounds>>

\* check_project, before each call of the model; and a tool that meets
\* instructions the configuration does not know.
Stale(c) ==
  LET k == channel[c]
  IN /\ Live(c) /\ ~k.reconfiguring /\ FilesOf(k.config) # {}
     /\ \/ Stamp(k.config) # k.stamp
        \/ k.config.trusted /\ (Names(disk[k.dir]) \cap Notes) \ FilesOf(k.config) # {}
Turn(w, c) ==
  /\ Free(w) /\ Stale(c)
  /\ Does(w, Walk("trust", channel[c].dir))
  /\ UNCHANGED <<disk, trusted, channel, asked, editor, bounds>>

\* A command of the channel reloads its configuration first.
Command(w, c) ==
  /\ Call
  /\ Free(w) /\ Live(c)
  /\ Does(w, [Walk("command", channel[c].dir) EXCEPT !.todo = {c}])
  /\ UNCHANGED <<disk, trusted, channel, asked, editor>>

-----------------------------------------------------------------------------
(* Channels come, move and go                                              *)

\* create: the configuration is loaded before the others can see the channel.
Create(w, c, d) ==
  /\ Call
  /\ Free(w) /\ ~channel[c].here
  /\ \A v \in Workers : work[v].at # c  \* each has an id of its own
  /\ ~Fails(trust, d)
  /\ Does(w, [Idle EXCEPT !.pc = "start", !.at = c, !.dir = d, !.cfg = Load(trust, d)])
  /\ UNCHANGED <<disk, trusted, channel, asked, editor>>
Start(w) ==
  LET t == work[w]
  IN /\ t.pc = "start"
     /\ channel' = [channel EXCEPT ![t.at] =
          [here |-> TRUE, dir |-> t.dir, archived |-> FALSE, reconfiguring |-> FALSE,
           config |-> t.cfg, stamp |-> Stamp(t.cfg)]]
     /\ Then(w, "ask")
     /\ UNCHANGED <<disk, trusted, asked, editor, bounds>>

MoveBegins(w, c, d) ==
  /\ Call
  /\ Free(w) /\ Live(c) /\ ~channel[c].reconfiguring
  /\ d # channel[c].dir
  /\ channel' = [channel EXCEPT ![c].reconfiguring = TRUE]
  /\ Does(w, [Idle EXCEPT !.pc = "moveload", !.at = c, !.dir = d])
  /\ UNCHANGED <<disk, trusted, asked, editor>>
MoveLoads(w) ==
  LET t == work[w]
  IN /\ t.pc = "moveload"
     /\ IF Fails(trust, t.dir)
        THEN /\ channel' = [channel EXCEPT ![t.at].reconfiguring = FALSE]
             /\ Does(w, Idle)
        ELSE /\ Does(w, [t EXCEPT !.pc = "movecommit", !.cfg = Load(trust, t.dir)])
             /\ UNCHANGED channel
     /\ UNCHANGED <<disk, trusted, asked, editor, bounds>>
MoveCommits(w) ==
  LET t == work[w]
  IN /\ t.pc = "movecommit"
     /\ channel' = [channel EXCEPT ![t.at] = [@ EXCEPT !.dir = t.dir, !.reconfiguring = FALSE,
                                                      !.config = t.cfg, !.stamp = Stamp(t.cfg)]]
     /\ Then(w, "withdraw")
     /\ UNCHANGED <<disk, trusted, asked, editor, bounds>>

Archive(w, c) ==
  /\ Call
  /\ Free(w) /\ Live(c)
  /\ channel' = [channel EXCEPT ![c].archived = TRUE]
  /\ Does(w, [Idle EXCEPT !.pc = "withdraw", !.at = c])
  /\ UNCHANGED <<disk, trusted, asked, editor>>

\* withdraw_trust forgets the prompts of the channel, then resolves them.
Withdraws(w) ==
  LET t == work[w]
      gone == {d \in Dirs : asking[d] # NoId /\ prompt[asking[d]].channel = t.at}
  IN /\ t.pc = "withdraw"
     /\ asking' = [d \in Dirs |-> IF d \in gone THEN NoId ELSE asking[d]]
     /\ Does(w, [t EXCEPT !.pc = "denies", !.removed = {asking[d] : d \in gone}])
     /\ UNCHANGED <<disk, trusted, channel, prompt, editor, bounds>>
Denies(w) ==
  LET t == work[w]
  IN /\ t.pc = "denies"
     /\ prompt' = [i \in Ids |-> IF i \in t.removed /\ prompt[i].state = "open"
                                 THEN [prompt[i] EXCEPT !.state = "deny"] ELSE prompt[i]]
     /\ Does(w, [t EXCEPT !.pc = "ask", !.removed = {}])
     /\ UNCHANGED <<disk, trusted, channel, asking, editor, bounds>>

-----------------------------------------------------------------------------
(* The editor of a project's files                                         *)

\* config_edit: a project that is trusted, or empty, stays so.
EditBegins(w, c, content) ==
  /\ Call
  /\ Free(w) /\ channel[c].here /\ editor = None
  /\ content # disk[channel[c].dir]
  /\ editor' = w
  /\ Does(w, [Idle EXCEPT !.pc = "edit", !.dir = channel[c].dir, !.hash = disk[channel[c].dir],
                          !.allow = ~Pending(channel[c].dir), !.edit = content])
  /\ UNCHANGED <<disk, trusted, channel, asked>>

\* apply(): refused when the files are not those that the owner was shown.
EditCommits(w) ==
  LET t == work[w]
  IN /\ t.pc = "edit"
     /\ IF disk[t.dir] # t.hash
        THEN Does(w, Idle) /\ editor' = None /\ UNCHANGED <<disk>>
        ELSE /\ disk' = [disk EXCEPT ![t.dir] = t.edit]
             /\ Does(w, IF t.allow THEN [t EXCEPT !.pc = "retrust"] ELSE Walk("edit", t.dir))
             /\ UNCHANGED editor
     /\ UNCHANGED <<trusted, channel, asked, bounds>>
\* What is there by now is trusted, if anything is.
EditTrusts(w) ==
  LET t == work[w]
  IN /\ t.pc = "retrust"
     /\ Does(w, IF disk[t.dir] = Empty THEN Walk("edit", t.dir)
                ELSE [t EXCEPT !.pc = "log", !.back = "edit", !.hash = disk[t.dir], !.edit = None])
     /\ UNCHANGED <<disk, trusted, channel, asked, editor, bounds>>

-----------------------------------------------------------------------------
\* Channels that are not archived are recovered; archived ones leave memory.
Restart ==
  /\ Call
  /\ trust' = saved
  /\ channel' = Recovered([c \in {c \in Channels : Live(c)} |-> channel[c].dir], saved)
  /\ prompt' = [i \in Ids |-> NoPrompt] /\ asking' = [d \in Dirs |-> NoId]
  /\ work' = [w \in Workers |-> Idle] /\ editor' = None
  /\ UNCHANGED <<disk, saved, logged>>

Steps(w) ==
  \/ TrustChecks(w) \/ TrustLogged(w) \/ TrustRemembered(w) \/ TrustResolves(w)
  \/ (\E c \in Channels : WalkLoads(w, c)) \/ Sets(w) \/ Asks(w)
  \/ Start(w) \/ MoveLoads(w) \/ MoveCommits(w) \/ Withdraws(w) \/ Denies(w)
  \/ EditCommits(w) \/ EditTrusts(w)
Calls(w) ==
  \/ \E d \in Dirs, allow \in BOOLEAN : Trust(w, d, disk[d], allow)
  \/ \E c \in Channels : \/ Command(w, c) \/ Archive(w, c) \/ Turn(w, c)
                         \/ \E d \in Dirs : Create(w, c, d) \/ MoveBegins(w, c, d)
                         \/ \E content \in Edits : EditBegins(w, c, content)
Next ==
  \/ \E w \in Workers : Steps(w) \/ Calls(w) \/ \E i \in Ids : Allowed(i, w)
  \/ \E i \in Ids : Forgotten(i)
  \/ \E d \in Dirs, content \in Contents : Change(d, content)
  \/ \E i \in Ids, value \in {"allow", "deny"} : Reply(i, value)
  \/ Restart

Spec == Init /\ [][Next]_vars
\* The runtime polls its tasks.
Fair ==
  /\ \A w \in Workers : WF_vars(Steps(w))
  /\ \A i \in Ids : WF_vars(Forgotten(i) \/ \E w \in Workers : Allowed(i, w))
FairSpec == Spec /\ Fair

-----------------------------------------------------------------------------
(* Properties                                                              *)

TypeOK ==
  /\ disk \in [Dirs -> Contents]
  /\ {saved, trust} \subseteq [Dirs -> Contents \cup {None}]
  /\ \A c \in Channels : LET k == channel[c] IN
       /\ k.dir \in Dirs /\ k.config \in Config
       /\ k.config.pending => ~k.config.trusted
       /\ k.reconfiguring => \E w \in Workers :
            work[w].at = c /\ work[w].pc \in {"moveload", "movecommit"}
  /\ \A i \in Ids : prompt[i].state \in {"none", "open", "allow", "deny"}
  /\ \A d \in Dirs : asking[d] # NoId => prompt[asking[d]].dir = d
  /\ editor # None => work[editor].pc \in {"edit", "retrust", "log", "remember", "walk", "set", "ask"}
  /\ events \in 0 .. MaxCommands /\ changes \in 0 .. MaxChanges

\* The bytes that were trusted are the only ones that are used
\* (src/config/snapshot.rs:49): whatever loads overtake each other, a channel
\* uses the project's layers only as somebody's trust was saved for them.
OnlyTrustedBytes ==
  \A c \in Channels : LET cfg == channel[c].config IN
    channel[c].here /\ cfg.trusted => <<cfg.dir, cfg.hash>> \in logged /\ cfg.hash \notin Broken

\* A channel never uses what was loaded for the directory it has left.
OfItsDirectory == \A c \in Channels : channel[c].here => channel[c].config.dir = channel[c].dir

\* An open prompt can still be acted upon: it is the one of its directory, or
\* about to be withdrawn; nobody is asked to no effect.
PromptsCount ==
  \A i \in Ids : prompt[i].state = "open" =>
    \/ asking[prompt[i].dir] = i
    \/ \E w \in Workers : i \in work[w].removed

TrustIsKept == OnlyTrustedBytes /\ OfItsDirectory /\ PromptsCount

Deciding(d, h) ==
  \/ asking[d] # NoId /\ prompt[asking[d]].state = "allow" /\ prompt[asking[d]].hash = h
  \/ \E w \in Workers : LET t == work[w] IN
       t.pc \in {"trust", "log"} /\ t.allow /\ t.dir = d /\ t.hash = h

\* Once owners call no more (and nobody restarts the daemon): who allowed what
\* a prompt shows has trusted it, unless that changes, or the prompt is
\* withdrawn or replaced, before it is saved.
Overtaken(d, h) ==
  \/ disk[d] # h
  \/ asking[d] # NoId /\ prompt[asking[d]].hash # h
  \/ \E w \in Workers : work[w].pc = "denies" /\ work[w].removed # {}
AllowActs(d, h) == 
  Deciding(d, h) /\ events = MaxCommands ~> (<<d, h>> \in logged \/ Overtaken(d, h))

\* No call is stuck: not on the editor, on a prompt, or on another call.
CallEnds(w) == work[w].pc # "idle" ~> work[w].pc = "idle"
=============================================================================

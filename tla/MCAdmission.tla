---------------------------- MODULE MCAdmission ----------------------------
(* A project of one directory, a second directory beside it and one that is  *)
(* hidden; files, a file that configures agents, a credential and a host.    *)
EXTENDS Admission

CONSTANTS root, kid, src, other, f, k, g, u, key, cargo, site

MCContent == [d \in Dirs |-> CASE d = src -> {f, k, u, key} [] OTHER -> {g}]
MCGrantDir == [t \in Targets |-> IF t \in {f, k, u, key} THEN src ELSE other]
MCFamily == [t \in Targets |-> IF t = u THEN site ELSE IF t = g THEN cargo ELSE NoFamily]

Call(op, kind, t) == [op |-> op, kind |-> kind, values |-> {t}, first |-> t, compound |-> FALSE]
ReadOut == Call("read", "path", g)
EditIn == Call("patch", "path", f)
EditControl == Call("patch", "path", k)
Fetch == Call("fetch", "url", u)
RunOut == Call("shell", "command", g)
ReadKey == Call("read", "path", key)
MCCalls == {ReadOut, ReadKey, EditIn, EditControl, Fetch, RunOut}
MCMakes == [a \in Agents |-> IF a = root THEN {ReadOut, ReadKey, EditControl, RunOut, Fetch} ELSE {EditIn}]

Rules(ops, ts, n, v) == [ops |-> ops, targets |-> ts, literal |-> n, verb |-> v]
Usual == [base |-> {Rules({"read"}, Targets, 0, "allow"), Rules({"patch"}, {k}, 1, "allow")},
          overlays |-> {}, dirs |-> {}, hosts |-> {}, sandbox |-> TRUE, default |-> "deny"]
Strict == [Usual EXCEPT !.overlays = {{Rules({"patch"}, Targets, 0, "deny")}}, !.default = "allow"]
MCConfigs == {Usual, Strict}

\* Agents meet only through the channel, so one turn at a time.
InTurns == Cardinality({a \in Agents : agent[a].stage # "out"}) <= 1
=============================================================================

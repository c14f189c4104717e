----------------------------- MODULE OrderedLog -----------------------------
(***************************************************************************)
(* What the journal of src/eventlog.rs promises to its clients, whatever   *)
(* its batches, transactions and retries: an append-only log in submission *)
(* order, gapless per channel, whose requests enter it whole and at most   *)
(* once; rows are published in log order; answers come in submission       *)
(* order, and a success only for what is logged and published.             *)
(***************************************************************************)
EXTENDS Naturals, Sequences, FiniteSets

VARIABLES
  asked,      \* asked[r]: the channels of the events of the r-th request
  told,       \* told[r]: "pending", "ok" or "error"
  log,        \* the rows, in commit order
  published   \* the rows this process has published

vars == <<asked, told, log, published>>

Init == asked = <<>> /\ told = <<>> /\ log = <<>> /\ published = {}

Pending == {r \in 1 .. Len(told) : told[r] = "pending"}
Logged(r) == \E i \in 1 .. Len(log) : log[i].req = r

Submit ==
  /\ Len(asked') = Len(asked) + 1 /\ Len(told') = Len(asked')
  /\ \A r \in 1 .. Len(asked) : asked'[r] = asked[r] /\ told'[r] = told[r]
  /\ told'[Len(told')] = "pending"
  /\ UNCHANGED <<log, published>>

Answer(R, o) ==
  told' = [r \in 1 .. Len(told) |-> IF r \in R THEN o ELSE told[r]]

\* The rows at positions i and j of l, i < j, are in order: by submission, then
\* by place in their request, and counting up within a channel.
Ordered(l, i, j) ==
  /\ l[i].req < l[j].req \/ (l[i].req = l[j].req /\ l[i].pos < l[j].pos)
  /\ l[i].channel = l[j].channel => l[i].seq < l[j].seq

Numbered(l, i) ==
  \/ l[i].seq = 1
  \/ \E j \in 1 .. i - 1 : l[j].channel = l[i].channel /\ l[j].seq + 1 = l[i].seq

\* The requests R enter the log, whole and in order.
Extend(R) ==
  /\ Len(log') >= Len(log)
  /\ \A i \in 1 .. Len(log) : log'[i] = log[i]
  /\ \A j \in Len(log) + 1 .. Len(log') :
       /\ \A i \in 1 .. j - 1 : Ordered(log', i, j)
       /\ Numbered(log', j)
       /\ log'[j].channel = asked[log'[j].req][log'[j].pos]
  /\ {<<log'[j].req, log'[j].pos>> : j \in Len(log) + 1 .. Len(log')}
       = UNION {{r} \X (1 .. Len(asked[r])) : r \in R}

\* A commit that is acknowledged later, or that cannot be acknowledged.
Write ==
  \E R \in SUBSET {r \in Pending : ~Logged(r)} :
    /\ Extend(R)
    /\ UNCHANGED told \/ Answer(R, "error")
    /\ UNCHANGED <<asked, published>>

\* Rows still to be acknowledged are published, after those published before.
Publish ==
  /\ \E I \in SUBSET {i \in 1 .. Len(log) : log[i].req \in Pending} :
       /\ published' = published \cup {log[i] : i \in I}
       /\ \A i \in I, j \in 1 .. Len(log) : j >= i => log[j] \notin published
  /\ UNCHANGED <<asked, told, log>>

\* Answers come in submission order.
InTurn(R) ==
  \A r \in R, q \in Pending : q < r => q \in R

Succeed ==
  \E R \in SUBSET Pending :
    /\ InTurn(R)
    /\ \A r \in R : \A i \in 1 .. Len(asked[r]) :
         \E row \in published : row.req = r /\ row.pos = i
    /\ Answer(R, "ok")
    /\ UNCHANGED <<asked, log, published>>

Fail ==
  \E R \in SUBSET {r \in Pending : ~Logged(r)} :
    /\ InTurn(R)
    /\ Answer(R, "error")
    /\ UNCHANGED <<asked, log, published>>

\* The process ends: its callers are gone and nothing is published yet.
Restart ==
  /\ Answer(Pending, "error")
  /\ published' = {}
  /\ UNCHANGED <<asked, log>>

Next == Submit \/ Write \/ Publish \/ Succeed \/ Fail \/ Restart

Spec == Init /\ [][Next]_vars
=============================================================================

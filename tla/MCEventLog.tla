----------------------------- MODULE MCEventLog -----------------------------
EXTENDS EventLog

CONSTANTS c1, c2, n1, n2

Ev(c, k, n) == [channel |-> c, kind |-> k, name |-> n]

\* Two channels that want one name, one of them in an append that also writes
\* to the other channel; a pair over both; and a rename to the name.
MCPayloads ==
  {<<Ev(c1, "created", n1), Ev(c1, "other", NoName)>>,
   <<Ev(c1, "other", NoName), Ev(c2, "created", n1)>>,
   <<Ev(c2, "created", n2), Ev(c2, "updated", n1)>>}
MCNames == {n1, n2}
MCChannels == {c1, c2}
=============================================================================

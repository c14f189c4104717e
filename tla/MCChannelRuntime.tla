-------------------------- MODULE MCChannelRuntime --------------------------
EXTENDS ChannelRuntime

CONSTANTS main, child, j1

MCAgents == {main, child}
MCParent == [a \in {child} |-> main]
MCAlone == {main}
MCNoParent == [a \in {} |-> main]

\* One run over two kinds of history: an agent alone, with at most three in all
\* of inputs, failed appends, restarts and moves; and an agent with a child,
\* where nothing else is at its bound.
Together ==
  \/ child \notin mem.spawned
     /\ spent.inputs + spent.faults + spent.crashes + mem.dir <= 3
  \/ process[j1] = "unused" /\ spent.inputs <= 1 /\ spent.faults = 0 /\ spent.crashes = 0
     /\ \A a \in Agents : maintenance[a] = "none"
=============================================================================

--------------------------- MODULE MCProjectTrust ---------------------------
(* Two directories, up to two channels; a file of configuration in three     *)
(* versions, one of them broken, and an instruction file.                    *)
EXTENDS ProjectTrust

CONSTANTS conf, note, other, c1, c2

Content(a, b) == [x \in Files |-> IF x = conf THEN a ELSE b]
First == Content(1, 0)
Noted == Content(1, 1)
Second == Content(2, 0)
MCContents == {Empty, First, Noted, Second}
MCBroken == {Second}
MCEdits == {Noted}
MCSaved == {First, None}
MCThere == {{c1}, {c1, c2}}

MCInit == /\ Init /\ disk[Home] \in {Empty, First}
          /\ channel[c2].here => disk[Home] = First /\ saved[Home] = None
MCSpec == MCInit /\ [][Next]_vars /\ Fair

\* Files change in one directory; channels go to the other, and come back.
\* With one channel, two calls of owners or changes; with two, two calls,
\* neither a move.
Small == /\ disk[other] = Empty
         /\ events + changes <= 2
         /\ (\A c \in Channels : channel[c].here) =>
              changes = 0 /\ \A w \in Workers : work[w].pc # "moveload"

\* One directory and one content stand for all.
TrustActs == AllowActs(Home, First) /\ \A w \in Workers : CallEnds(w)
=============================================================================

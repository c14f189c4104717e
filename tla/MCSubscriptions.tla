--------------------------- MODULE MCSubscriptions ---------------------------
EXTENDS Subscriptions

CONSTANTS c1, c2

MCChannels == {c1, c2}
\* Two rows of one channel in one commit, and rows of two channels.
MCGroups == {<<c1>>, <<c1, c1>>, <<c2, c1>>}

MCOneChannel == {<<c1>>, <<c1, c1>>}
=============================================================================

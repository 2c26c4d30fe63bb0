----------------------------- MODULE MCCommunity -----------------------------
\* Two agents, the clock of the second ahead of every entry of the first.
EXTENDS Community

CONSTANTS here, elsewhere

MCSkew == <<0, 3>>
OneNetwork == [n \in Agents |-> {here}]
=============================================================================

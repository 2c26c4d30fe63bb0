----------------------------- MODULE MCTornLines -----------------------------
\* Five attempts to write with two faults: a line cut short, the one lost in
\* it, one that links to the lost one, a second cut, and one after it.
EXTENDS TornLines
=============================================================================

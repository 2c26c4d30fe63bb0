-------------------------- MODULE MCClawCommunity --------------------------
(***************************************************************************)
(* Two processes on one community file.  The seedboxes hold one agent.     *)
(***************************************************************************)
EXTENDS ClawCommunity

CONSTANTS f, a, b, p, q

MCCatalogs == {[id \in FileIds |-> [hashed |-> TRUE]]}
MCSymmetry == Permutations(Agents) \cup Permutations(Processes)
=============================================================================

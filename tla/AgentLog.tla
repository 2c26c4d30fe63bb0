------------------------------- MODULE AgentLog -------------------------------
(***************************************************************************)
(* What the models of an agent's log share (SignedLog, TornLines): entries *)
(* are numbered, and the number of an entry is its hash.                   *)
(***************************************************************************)
EXTENDS Naturals

CONSTANTS
  MaxEntries,   \* bound on the entries, written or attempted
  None          \* Python's None

ASSUME LogAssumption == MaxEntries \in Nat /\ None \notin Nat

\* previous_hash of the first entry
GENESIS == 0
=============================================================================

---------------------------- MODULE LogReplication ----------------------------
(***************************************************************************)
(* What pulling peer logs promises, whatever the transport does: a node    *)
(* knows only entries its peers have written and that verify, and it never *)
(* forgets one.  PeerSync is shown to implement this specification.        *)
(***************************************************************************)
EXTENDS Integers

CONSTANTS
  Peers,         \* the peers whose logs are replicated
  Unverifiable   \* <<p, k>>: the k-th entry of p does not verify

VARIABLES
  log,           \* entries in each peer's own log, numbered from 1
  known          \* entries of each peer the node has

Verifies(p, k) == <<p, k>> \notin Unverifiable

Init ==
  /\ log = [p \in Peers |-> 0]
  /\ known = [p \in Peers |-> {}]

Write(p) ==
  /\ log' = [log EXCEPT ![p] = @ + 1]
  /\ UNCHANGED known

Learn(p) ==
  \E S \in SUBSET {k \in 1..log[p] : Verifies(p, k)} :
    /\ known' = [known EXCEPT ![p] = @ \cup S]
    /\ UNCHANGED log

Next == \E p \in Peers : Write(p) \/ Learn(p)

Spec == Init /\ [][Next]_<<log, known>>
=============================================================================

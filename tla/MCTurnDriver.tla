---------------------------- MODULE MCTurnDriver ----------------------------
(***************************************************************************)
(* A watchdog w, the MCP process s beside it and two keys.  A unit of time *)
(* is 60 s; w waits for a payment.                                        *)
(***************************************************************************)
EXTENDS TurnDriver, MCEcho

CONSTANTS w, s, home

MCNodes == {w, s}
\* The one answer that compiles.
OneReply == {Source(<<"H", "varlenH">>, {"len"})}
MCStopSpec == [a \in {w} |-> Spelled("wallet_received_sats", 1)]
MCAtBoot == {x \in Snapshots({0}, {0}, {0}, {0}, {Absent}) : x.balance = 0}
MCTaken ==
  {x \in Snapshots({0}, {0, 1}, {0}, {0}, {Absent}) : x.progress = {} /\ x.community = Absent}
MCDirOf == [n \in MCNodes |-> home]
=============================================================================

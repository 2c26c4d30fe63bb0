---------------------------- MODULE NetworkNodes ----------------------------
(***************************************************************************)
(* What the modules about the processes of a network have in common.       *)
(***************************************************************************)
CONSTANTS
  Nodes,     \* processes, one SeedboxCommunity and one registry each
  Overlays,  \* ids of overlay descriptors
  None
=============================================================================

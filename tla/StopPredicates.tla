--------------------------- MODULE StopPredicates ---------------------------
(***************************************************************************)
(* The stop predicates of the watchdog (deploy/stop_predicates.py) over    *)
(* the snapshots it takes (deploy/state_snapshot.py).  A snapshot is the   *)
(* record of what the predicates read: progress is that of the torrents,   *)
(* in whole downloads; Absent stands for what a section does not give.     *)
(***************************************************************************)
EXTENDS Integers, FiniteSets

CONSTANT Absent

Layers == {"layer1", "layer2", "layer3"}

\* The security section before any layer ran, or when its file is not JSON.
NoEvidence == [ok |-> FALSE, checklist |-> {}]

\* What collect_state may report: no balance when the wallet cannot tell,
\* no community before a manifest is loaded, no security section without an
\* evidence path.
Snapshots(peers, balances, seedboxes, members, securities) ==
  [peers : peers, progress : SUBSET {0, 1},
   balance : balances \cup {Absent},
   community : [seedboxes : seedboxes, members : members] \cup {Absent},
   security : securities]

\* set_baseline keeps a balance that is a number.
set_baseline(snapshot) == snapshot.balance

\* A spec is the name of a predicate and its argument: a number, the key of a
\* layer, another word, or Absent when it is the bare name.
Spelled(name, arg) == [name |-> name, arg |-> arg]

Bare == {"never", "torrent_progress_gte_1", "security_all_done",
         "integrated_security_done"}
Numeric == {"peer_count_gte_N", "wallet_received_sats",
            "community_seedbox_count_gte_N", "community_member_count_gte_N"}

\* resolve refuses an unknown name and an argument nothing takes; what the
\* argument is it does not look at.
Resolves(spec) ==
  \/ spec.name \in Bare /\ spec.arg = Absent
  \/ spec.name \in Numeric \cup {"security_layer_done"}

\* The numbers of these default to 1.
Least(spec) == IF spec.arg = Absent THEN 1 ELSE spec.arg

\* A word as the number raises where the predicate comes to compare with it.
Raised(spec, snapshot) ==
  /\ spec.name \in Numeric
  /\ spec.arg \notin Int \cup {Absent}
  /\ spec.name = "wallet_received_sats" => snapshot.balance # Absent
  /\ spec.name \notin {"peer_count_gte_N", "wallet_received_sats"} =>
       snapshot.community # Absent

wallet_received_sats(min, baseline, snapshot) ==
  /\ snapshot.balance # Absent
  /\ LET since == IF baseline = Absent THEN snapshot.balance ELSE baseline
     IN snapshot.balance - since >= min

InChecklist(key, snapshot) ==
  snapshot.security # Absent /\ key \in snapshot.security.checklist

predicate(spec, baseline, snapshot) ==
  CASE spec.name = "never" -> FALSE
    [] spec.name = "torrent_progress_gte_1" -> 1 \in snapshot.progress
    [] spec.name = "peer_count_gte_N" -> snapshot.peers >= Least(spec)
    [] spec.name = "wallet_received_sats" ->
         wallet_received_sats(Least(spec), baseline, snapshot)
    [] spec.name = "community_seedbox_count_gte_N" ->
         /\ snapshot.community # Absent
         /\ snapshot.community.seedboxes >= Least(spec)
    [] spec.name = "community_member_count_gte_N" ->
         /\ snapshot.community # Absent
         /\ snapshot.community.members >= Least(spec)
    [] spec.name = "security_layer_done" -> InChecklist(spec.arg, snapshot)
    [] spec.name = "security_all_done" ->
         snapshot.security # Absent /\ snapshot.security.ok
    [] spec.name = "integrated_security_done" -> InChecklist("integrated", snapshot)
=============================================================================

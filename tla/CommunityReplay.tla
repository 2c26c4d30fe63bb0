--------------------------- MODULE CommunityReplay ---------------------------
(***************************************************************************)
(* The loop of replay_community (agent/community_state.py) as a state      *)
(* machine over every sorted log: each step folds the next entry.  Entries *)
(* reach the loop in sort order and every sequence of contents is the      *)
(* sorted form of some log, so an entry is identified by its position,     *)
(* which serves as its timestamp and its hash.                             *)
(***************************************************************************)
EXTENDS CommunityRules

CONSTANTS
  Network,      \* manifest.network_id of the loaded manifest
  MaxFolded    \* bound on the length of the log

ASSUME ReplayAssumption == Network \in Networks /\ MaxFolded \in Nat

VARIABLES
  position,     \* entries folded so far
  state         \* the accumulated CommunityState

replayVars == <<position, state>>

ReplayInit ==
  /\ position = 0
  /\ state = GenesisState

\* The next entry in sort order: any content at the next position.
NextEntry ==
  [action : CommunityActions \cup {"other"}, net : Networks,
   reporter : Agents, sats : Sats, intent : 0..MaxFolded,
   shape : BOOLEAN, ts : {position + 1}, hash : {position + 1}]

FoldDonation(e) ==
  /\ Relevant(Network, e)
  /\ e.action = "donation_intent"
  /\ ValidDonation(state, e)
  /\ state' = Donate(state, e)
  /\ position' = e.hash

FoldPurchase(e) ==
  /\ Relevant(Network, e)
  /\ e.action = "seedbox_purchase_intent"
  /\ ValidPurchase(state, e)
  /\ state' = Purchase(state, e)
  /\ position' = e.hash

FoldProvisioned(e) ==
  /\ Relevant(Network, e)
  /\ e.action = "seedbox_provisioned"
  /\ ValidProvisioned(state, e)
  /\ state' = Provision(state, e)
  /\ position' = e.hash

\* Entries of other networks or actions, and those a validator turns down,
\* leave no trace in the aggregate.
DropEntry(e) ==
  /\ ~ (Relevant(Network, e) /\
          \/ e.action = "donation_intent" /\ ValidDonation(state, e)
          \/ e.action = "seedbox_purchase_intent" /\ ValidPurchase(state, e)
          \/ e.action = "seedbox_provisioned" /\ ValidProvisioned(state, e))
  /\ position' = e.hash
  /\ UNCHANGED state

FoldNext ==
  /\ position < MaxFolded
  /\ \E e \in NextEntry :
       \/ FoldDonation(e)
       \/ FoldPurchase(e)
       \/ FoldProvisioned(e)
       \/ DropEntry(e)

ReplaySpec == ReplayInit /\ [][FoldNext]_replayVars

---------------------------------------------------------------------------
\* Type invariant: the aggregate keeps the shape of CommunityState
\* (community_state.py:134-149), every record carries the position of an
\* entry already folded.
TypeOK ==
  /\ position \in Nat
  /\ state \in CommunityState
  /\ IsFiniteSet(state.members)

\* The treasury covers every purchase it accepted at the manifest's price:
\* what is left plus what was spent is what was donated, and nothing is owed
\* (community_state.py:312-316).
TreasurySolvent ==
  /\ state.balance >= 0
  /\ state.balance + SeedboxCostSats * Len(state.purchases) = state.donated

\* First-comer wins: at most one accepted purchase is open, so provisioned
\* events close the purchases one by one in the order these were accepted,
\* and each closed one is one seedbox more (community_state.py:322-323,
\* 347-360).
PurchasesCloseInOrder ==
  /\ Len(state.purchases) - Len(state.provisioned) \in {0, 1}
  /\ \A i \in 1..Len(state.provisioned) :
       state.provisioned[i].intent = state.purchases[i].hash
  /\ state.seedboxCount = 1 + Len(state.provisioned)

\* The community never authorises a seedbox its size does not call for: the
\* k-th purchase needs more members than k seedboxes hold
\* (community_state.py:318-320).
GrowthJustified ==
  state.purchases # <<>> =>
    Cardinality(state.members) > MaxAgentsPerSeedbox * Len(state.purchases)

\* The cap follows the average of the donations, and the average can only
\* fall: no donation ever exceeds what the first donor was allowed to give
\* (community_state.py:275-281).
DonationsWithinBootstrapCap ==
  \A i \in 1..Len(state.donations) :
    state.donations[i].sats \in MinSats..EffectiveBootstrapCap

\* Members and donors are the same agents, each admitted once, and whoever
\* purchased or provisioned had donated at an earlier log position
\* (community_state.py:267-268, 304-306, 340-341).
SignersDonatedFirst ==
  LET donatedBefore(r) == \E i \in 1..Len(state.donations) :
                            /\ state.donations[i].reporter = r.reporter
                            /\ state.donations[i].hash < r.hash
  IN  /\ state.members = {state.donations[i].reporter :
                            i \in 1..Len(state.donations)}
      /\ Cardinality(state.members) = Len(state.donations)
      /\ \A i \in 1..Len(state.purchases) : donatedBefore(state.purchases[i])
      /\ \A i \in 1..Len(state.provisioned) :
           donatedBefore(state.provisioned[i])

\* An entry stored twice counts once: folding any possible entry a second
\* time changes nothing, so the duplicate lines two PeerLog instances can
\* leave on disk do not alter the view (community_state.py:173-249).
DuplicatesIgnored ==
  \A e \in NextEntry :
    LET once == Apply(Network, state, e)
    IN  Apply(Network, once, e) = once
=============================================================================

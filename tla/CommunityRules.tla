--------------------------- MODULE CommunityRules ---------------------------
(***************************************************************************)
(* The admission and seedbox-growth rules of agent/community_state.py: the *)
(* three validators, the effect of an accepted entry on the aggregate, and *)
(* the replay of a set of log entries in (timestamp, reporter_id,          *)
(* entry_hash) order.                                                      *)
(*                                                                         *)
(* Abstracted data: reporter ids, timestamps and hashes are only compared, *)
(* so each is a number or a model value; `shape' stands for every          *)
(* isinstance and non-empty-string check of the entry's validator, which   *)
(* drop what fails them.                                                   *)
(*                                                                         *)
(* Entries are those append_event builds: details is a dict, timestamp a   *)
(* string.  The replay checks neither (195-200, 211-212), and an entry of  *)
(* another making would not be dropped but raise out of the whole replay.  *)
(***************************************************************************)
EXTENDS Integers, Sequences, FiniteSets

CONSTANTS
  Agents,               \* reporter ids
  Networks,             \* network ids an entry can carry
  Sats,                 \* amounts and costs an entry can carry
  MinSats,              \* manifest.admission.min_sats
  BootstrapCapSats,     \* manifest.admission.bootstrap_cap_sats, 0: default
  MaxAgentsPerSeedbox,  \* manifest.admission.max_agents_per_seedbox, 0: off
  SeedboxCostSats       \* manifest.admission.seedbox_cost_sats, 0: off

\* What _parse_admission guarantees of every manifest it returns.
ASSUME PolicyAssumption ==
  /\ Sats \subseteq Int
  /\ MinSats \in Nat \ {0}
  /\ BootstrapCapSats \in Nat
  /\ BootstrapCapSats # 0 => BootstrapCapSats >= MinSats
  /\ MaxAgentsPerSeedbox \in Nat
  /\ SeedboxCostSats \in Nat

EffectiveBootstrapCap ==
  IF BootstrapCapSats > 0 THEN BootstrapCapSats ELSE 10 * MinSats

SeedboxGrowthEnabled == MaxAgentsPerSeedbox > 0 /\ SeedboxCostSats > 0

CommunityActions ==
  {"donation_intent", "seedbox_purchase_intent", "seedbox_provisioned"}

\* A signed-log entry. `sats' is details.amount_sats or details.cost_sats,
\* `intent' is details.purchase_intent_hash.
Entry == [action : CommunityActions \cup {"other"}, net : Networks,
          reporter : Agents, sats : Sats, intent : Nat, shape : BOOLEAN,
          ts : Nat, hash : Nat]

DonationIntent        == [reporter : Agents, sats : Int, hash : Nat]
SeedboxPurchaseIntent == [reporter : Agents, sats : Int, hash : Nat]
SeedboxProvisioned    == [reporter : Agents, intent : Nat, hash : Nat]

\* The aggregate. `donated' is sum(d.amount_sats for d in donations): the
\* validator recomputes that sum for each entry, the model carries it.
CommunityState ==
  [members : SUBSET Agents, donations : Seq(DonationIntent),
   purchases : Seq(SeedboxPurchaseIntent),
   provisioned : Seq(SeedboxProvisioned),
   donated : Int, balance : Int, seedboxCount : Nat]

GenesisState ==
  [members |-> {}, donations |-> <<>>, purchases |-> <<>>,
   provisioned |-> <<>>, donated |-> 0, balance |-> 0, seedboxCount |-> 1]

PendingPurchases(s) == Len(s.purchases) - Len(s.provisioned)

ThresholdActive(s) ==
  /\ SeedboxGrowthEnabled
  /\ Cardinality(s.members) > MaxAgentsPerSeedbox * s.seedboxCount

Larger(a, b) == IF a >= b THEN a ELSE b

\* Mutant: the cap is the sum of the earlier donations, not their average.
DonationCapOfTotal(s) ==
  IF s.donations = <<>> THEN EffectiveBootstrapCap
  ELSE Larger(MinSats, s.donated)

\* The most a donor may give now: the bootstrap cap for the first one, then
\* the floor of the running average, never below the minimum.
DonationCap(s) ==
  IF s.donations = <<>> THEN EffectiveBootstrapCap
  ELSE Larger(MinSats, s.donated \div Len(s.donations))

---------------------------------------------------------------------------
\* The validators: may entry e extend state s?

\* Mutant: a member may donate again.
ValidSecondDonation(s, e) ==
  e.shape /\ e.sats >= MinSats /\ e.sats <= DonationCap(s)

ValidDonation(s, e) ==
  /\ e.shape
  /\ e.reporter \notin s.members
  /\ e.sats >= MinSats
  /\ e.sats <= DonationCap(s)

\* Mutant: the balance is not compared with the cost.
ValidOverspend(s, e) ==
  /\ SeedboxGrowthEnabled /\ e.shape /\ e.reporter \in s.members
  /\ e.sats = SeedboxCostSats
  /\ Cardinality(s.members) > MaxAgentsPerSeedbox * s.seedboxCount
  /\ PendingPurchases(s) = 0

\* Mutant: a purchase may follow one that is still open.
ValidSecondPurchase(s, e) ==
  /\ SeedboxGrowthEnabled /\ e.shape /\ e.reporter \in s.members
  /\ e.sats = SeedboxCostSats /\ s.balance >= e.sats
  /\ Cardinality(s.members) > MaxAgentsPerSeedbox * s.seedboxCount

\* Mutant: a full community already counts as too large.
ValidEarlyPurchase(s, e) ==
  /\ SeedboxGrowthEnabled /\ e.shape /\ e.reporter \in s.members
  /\ e.sats = SeedboxCostSats /\ s.balance >= e.sats
  /\ Cardinality(s.members) >= MaxAgentsPerSeedbox * s.seedboxCount
  /\ PendingPurchases(s) = 0

ValidPurchase(s, e) ==
  /\ SeedboxGrowthEnabled
  /\ e.shape
  /\ e.reporter \in s.members
  /\ e.sats = SeedboxCostSats
  /\ s.balance >= e.sats
  /\ Cardinality(s.members) > MaxAgentsPerSeedbox * s.seedboxCount
  /\ PendingPurchases(s) = 0

\* Mutant: an intent already closed can be closed again.
ValidSecondClose(s, e) ==
  /\ e.shape /\ e.reporter \in s.members
  /\ \E i \in 1..Len(s.purchases) : s.purchases[i].hash = e.intent

ValidProvisioned(s, e) ==
  /\ e.shape
  /\ e.reporter \in s.members
  /\ \E i \in 1..Len(s.purchases) : s.purchases[i].hash = e.intent
  /\ \A i \in 1..Len(s.provisioned) : s.provisioned[i].intent # e.intent

---------------------------------------------------------------------------
\* The effect of an accepted entry.

Donate(s, e) ==
  [s EXCEPT !.members = @ \cup {e.reporter},
            !.donations = Append(@, [reporter |-> e.reporter,
                                     sats |-> e.sats, hash |-> e.hash]),
            !.donated = @ + e.sats,
            !.balance = @ + e.sats]

Purchase(s, e) ==
  [s EXCEPT !.purchases = Append(@, [reporter |-> e.reporter,
                                     sats |-> e.sats, hash |-> e.hash]),
            !.balance = @ - e.sats]

Provision(s, e) ==
  [s EXCEPT !.provisioned = Append(@, [reporter |-> e.reporter,
                                       intent |-> e.intent,
                                       hash |-> e.hash]),
            !.seedboxCount = @ + 1]

\* Entries the replay looks at: community actions of the loaded network.
Relevant(net, e) == e.action \in CommunityActions /\ e.net = net

\* One turn of the replay loop.
Apply(net, s, e) ==
  CASE Relevant(net, e) /\ e.action = "donation_intent"
         /\ ValidDonation(s, e) -> Donate(s, e)
    [] Relevant(net, e) /\ e.action = "seedbox_purchase_intent"
         /\ ValidPurchase(s, e) -> Purchase(s, e)
    [] Relevant(net, e) /\ e.action = "seedbox_provisioned"
         /\ ValidProvisioned(s, e) -> Provision(s, e)
    [] OTHER -> s

---------------------------------------------------------------------------
\* The sort key of the replay.
Before(a, b) ==
  \/ a.ts < b.ts
  \/ a.ts = b.ts /\ a.reporter < b.reporter
  \/ a.ts = b.ts /\ a.reporter = b.reporter /\ a.hash < b.hash

\* replay_community: the state after folding the entries in key order, that
\* is, the latest entry applied to the replay of all the others.
Replay(net, entries) ==
  LET latest(E) == CHOOSE e \in E : \A f \in E \ {e} : Before(f, e)
      replay[E \in SUBSET entries] ==
        IF E = {} THEN GenesisState
        ELSE Apply(net, replay[E \ {latest(E)}], latest(E))
  IN  replay[entries]
=============================================================================

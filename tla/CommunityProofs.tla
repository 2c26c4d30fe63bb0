--------------------------- MODULE CommunityProofs ---------------------------
(***************************************************************************)
(* Theorems about the replay and about the agents that replay each other's *)
(* logs, for every set of agents, every admission policy and every log.    *)
(*                                                                         *)
(* The first part is about the loop of one replay (CommunityReplay): its   *)
(* safety properties rest on one inductive invariant, ReplayInv.  Two of   *)
(* its conjuncts are there only to make it inductive: AverageBounded (the  *)
(* cap of a later donor is the average, so the average must be known to    *)
(* stay under the bootstrap cap) and RecordsPast (a record never carries   *)
(* the position of an entry still to come).                                *)
(*                                                                         *)
(* The second part is about Replay as a function of a set of entries: it   *)
(* is an instance of the module Recursion, which gives induction over the  *)
(* subsets of the set, so that ReplayGrows can say that entries sorted     *)
(* after others never take a member away nor raise the cap.                *)
(*                                                                         *)
(* The third part is about the machine of Community.  EntriesInv keeps the *)
(* logs in the shape the second part asks for; MemoInv adds what the memo  *)
(* is keyed by, PaidInv what the wallets were debited for.                 *)
(***************************************************************************)
EXTENDS CommunityReplay, Community, FiniteSetTheorems, TLAPS

AverageBounded ==
  state.donated <= EffectiveBootstrapCap * Len(state.donations)

RecordsPast ==
  \A i \in 1..Len(state.donations) : state.donations[i].hash <= position

ReplayInv ==
  /\ TypeOK
  /\ TreasurySolvent
  /\ PurchasesCloseInOrder
  /\ GrowthJustified
  /\ DonationsWithinBootstrapCap
  /\ SignersDonatedFirst
  /\ AverageBounded
  /\ RecordsPast

---------------------------------------------------------------------------
\* The operators the model is built from.

\* What an entry at the next position looks like.
LEMMA NextEntryType ==
  ASSUME NEW e \in NextEntry, position \in Nat
  PROVE  /\ e.reporter \in Agents
         /\ e.sats \in Int
         /\ e.intent \in Nat
         /\ e.hash = position + 1
         /\ e.hash \in Nat
  <1>1. e.reporter \in Agents /\ e.sats \in Sats
    BY DEF NextEntry
  <1>2. e.intent \in 0..MaxFolded
    BY DEF NextEntry
  <1>3. e.hash \in {position + 1}
    BY DEF NextEntry
  <1>4. e.sats \in Int
    BY <1>1, PolicyAssumption
  <1>5. e.intent \in Nat
    BY <1>2, ReplayAssumption
  <1>6. e.hash = position + 1 /\ e.hash \in Nat
    BY <1>3
  <1> QED
    BY <1>1, <1>4, <1>5, <1>6

LEMMA CapPositive ==
  /\ EffectiveBootstrapCap \in Nat
  /\ EffectiveBootstrapCap >= MinSats
  BY PolicyAssumption DEF EffectiveBootstrapCap

\* Each field of a state after an accepted entry, and the state's type.
LEMMA DonateFields ==
  ASSUME NEW s \in CommunityState, NEW e
  PROVE  /\ Donate(s, e).members = s.members \cup {e.reporter}
         /\ Donate(s, e).donations =
              Append(s.donations, [reporter |-> e.reporter,
                                   sats |-> e.sats, hash |-> e.hash])
         /\ Donate(s, e).purchases = s.purchases
         /\ Donate(s, e).provisioned = s.provisioned
         /\ Donate(s, e).donated = s.donated + e.sats
         /\ Donate(s, e).balance = s.balance + e.sats
         /\ Donate(s, e).seedboxCount = s.seedboxCount
  BY DEF Donate, CommunityState

LEMMA DonateType ==
  ASSUME NEW s \in CommunityState, NEW e,
         e.reporter \in Agents, e.sats \in Int, e.hash \in Nat
  PROVE  Donate(s, e) \in CommunityState
  <1>1. Append(s.donations, [reporter |-> e.reporter, sats |-> e.sats,
                             hash |-> e.hash]) \in Seq(DonationIntent)
    BY DEF CommunityState, DonationIntent
  <1>2. s.balance + e.sats \in Int /\ s.donated + e.sats \in Int
    BY DEF CommunityState
  <1> QED
    BY <1>1, <1>2 DEF CommunityState, Donate

LEMMA PurchaseFields ==
  ASSUME NEW s \in CommunityState, NEW e
  PROVE  /\ Purchase(s, e).members = s.members
         /\ Purchase(s, e).donations = s.donations
         /\ Purchase(s, e).purchases =
              Append(s.purchases, [reporter |-> e.reporter,
                                   sats |-> e.sats, hash |-> e.hash])
         /\ Purchase(s, e).provisioned = s.provisioned
         /\ Purchase(s, e).donated = s.donated
         /\ Purchase(s, e).balance = s.balance - e.sats
         /\ Purchase(s, e).seedboxCount = s.seedboxCount
  BY DEF Purchase, CommunityState

LEMMA PurchaseType ==
  ASSUME NEW s \in CommunityState, NEW e,
         e.reporter \in Agents, e.sats \in Int, e.hash \in Nat
  PROVE  Purchase(s, e) \in CommunityState
  <1>1. Append(s.purchases, [reporter |-> e.reporter, sats |-> e.sats,
                             hash |-> e.hash]) \in Seq(SeedboxPurchaseIntent)
    BY DEF CommunityState, SeedboxPurchaseIntent
  <1>2. s.balance - e.sats \in Int
    BY DEF CommunityState
  <1> QED
    BY <1>1, <1>2 DEF CommunityState, Purchase

LEMMA ProvisionFields ==
  ASSUME NEW s \in CommunityState, NEW e
  PROVE  /\ Provision(s, e).members = s.members
         /\ Provision(s, e).donations = s.donations
         /\ Provision(s, e).purchases = s.purchases
         /\ Provision(s, e).provisioned =
              Append(s.provisioned, [reporter |-> e.reporter,
                                     intent |-> e.intent, hash |-> e.hash])
         /\ Provision(s, e).donated = s.donated
         /\ Provision(s, e).balance = s.balance
         /\ Provision(s, e).seedboxCount = s.seedboxCount + 1
  BY DEF Provision, CommunityState

LEMMA ProvisionType ==
  ASSUME NEW s \in CommunityState, NEW e,
         e.reporter \in Agents, e.intent \in Nat, e.hash \in Nat
  PROVE  Provision(s, e) \in CommunityState
  <1>1. Append(s.provisioned, [reporter |-> e.reporter, intent |-> e.intent,
                               hash |-> e.hash]) \in Seq(SeedboxProvisioned)
    BY DEF CommunityState, SeedboxProvisioned
  <1>2. s.seedboxCount + 1 \in Nat
    BY DEF CommunityState
  <1> QED
    BY <1>1, <1>2 DEF CommunityState, Provision

LEMMA StateFields ==
  ASSUME NEW s \in CommunityState
  PROVE  /\ s.members \in SUBSET Agents
         /\ s.donations \in Seq(DonationIntent)
         /\ s.purchases \in Seq(SeedboxPurchaseIntent)
         /\ s.provisioned \in Seq(SeedboxProvisioned)
         /\ s.donated \in Int
         /\ s.balance \in Int
         /\ s.seedboxCount \in Nat
  BY DEF CommunityState

\* An average of amounts bounded by c is bounded by c.
LEMMA FloorAverage ==
  ASSUME NEW total \in Int, NEW n \in Nat \ {0}, NEW c \in Int,
         total <= c * n
  PROVE  total \div n \in Int /\ total \div n <= c
  <1> DEFINE q == total \div n
  <1>1. q \in Int
    OBVIOUS
  <1>2. n * q <= total
    OBVIOUS
  <1>3. CASE q >= c + 1
    <2>1. n * q >= n * (c + 1)
      BY <1>1, <1>3
    <2>2. n * (c + 1) = c * n + n
      OBVIOUS
    <2>3. n * q \in Int /\ n * (c + 1) \in Int /\ c * n \in Int
      BY <1>1
    <2> HIDE DEF q
    <2> QED
      BY <1>2, <2>1, <2>2, <2>3
  <1> QED
    BY <1>1, <1>3

\* No donor is asked to stay under more than the bootstrap cap.
LEMMA CapBounded ==
  ASSUME TypeOK, AverageBounded
  PROVE  DonationCap(state) <= EffectiveBootstrapCap
  <1>1. CASE state.donations = <<>>
    BY <1>1, CapPositive DEF DonationCap
  <1>2. CASE state.donations # <<>>
    <2>1. Len(state.donations) \in Nat \ {0}
      BY <1>2, StateFields DEF TypeOK
    <2>2. state.donated \in Int
      BY StateFields DEF TypeOK
    <2>3. state.donated \div Len(state.donations) <= EffectiveBootstrapCap
      BY <2>1, <2>2, FloorAverage, CapPositive DEF AverageBounded
    <2> QED
      BY <1>2, <2>3, CapPositive DEF DonationCap, Larger
  <1> QED
    BY <1>1, <1>2

---------------------------------------------------------------------------
\* Type correctness.

LEMMA TypeInductive ==
  ASSUME TypeOK, [FoldNext]_replayVars
  PROVE  TypeOK'
  <1>1. CASE UNCHANGED replayVars
    BY <1>1 DEF TypeOK, replayVars
  <1>2. ASSUME NEW e \in NextEntry, FoldDonation(e)
        PROVE  TypeOK'
    <2>1. position' \in Nat /\ state' \in CommunityState
      BY <1>2, NextEntryType, DonateType DEF TypeOK, FoldDonation
    <2>2. IsFiniteSet(state.members \cup {e.reporter})
      BY FS_AddElement DEF TypeOK
    <2>3. state'.members = state.members \cup {e.reporter}
      BY <1>2, DonateFields DEF TypeOK, FoldDonation
    <2> QED
      BY <2>1, <2>2, <2>3 DEF TypeOK
  <1>3. ASSUME NEW e \in NextEntry, FoldPurchase(e)
        PROVE  TypeOK'
    <2>1. position' \in Nat /\ state' \in CommunityState
      BY <1>3, NextEntryType, PurchaseType DEF TypeOK, FoldPurchase
    <2>2. state'.members = state.members
      BY <1>3, PurchaseFields DEF TypeOK, FoldPurchase
    <2> QED
      BY <2>1, <2>2 DEF TypeOK
  <1>4. ASSUME NEW e \in NextEntry, FoldProvisioned(e)
        PROVE  TypeOK'
    <2>1. position' \in Nat /\ state' \in CommunityState
      BY <1>4, NextEntryType, ProvisionType DEF TypeOK, FoldProvisioned
    <2>2. state'.members = state.members
      BY <1>4, ProvisionFields DEF TypeOK, FoldProvisioned
    <2> QED
      BY <2>1, <2>2 DEF TypeOK
  <1>5. ASSUME NEW e \in NextEntry, DropEntry(e)
        PROVE  TypeOK'
    BY <1>5, NextEntryType DEF DropEntry, TypeOK
  <1> QED
    BY <1>1, <1>2, <1>3, <1>4, <1>5 DEF FoldNext

LEMMA TypeInitial == ReplayInit => TypeOK
  <1> SUFFICES ASSUME ReplayInit PROVE TypeOK
    OBVIOUS
  <1>1. GenesisState \in CommunityState
    BY DEF GenesisState, CommunityState
  <1>2. GenesisState.members = {}
    BY DEF GenesisState
  <1> QED
    BY <1>1, <1>2, FS_EmptySet DEF ReplayInit, TypeOK

\* The replay of any log is a well-formed CommunityState
\* (agent/community_state.py:134-149).
THEOREM TypeCorrect == ReplaySpec => []TypeOK
  <1>1. TypeOK /\ [FoldNext]_replayVars => TypeOK'
    BY TypeInductive
  <1> QED
    BY <1>1, TypeInitial, PTL DEF ReplaySpec

---------------------------------------------------------------------------
\* Safety: each kind of step preserves the inductive invariant.

\* Donation records stay behind the next position.
LEMMA RecordsStayPast ==
  ASSUME ReplayInv
  PROVE  \A i \in 1..Len(state.donations) :
           state.donations[i].hash <= position + 1
  <1> SUFFICES ASSUME NEW i \in 1..Len(state.donations)
               PROVE  state.donations[i].hash <= position + 1
    OBVIOUS
  <1>1. state.donations[i] \in DonationIntent /\ position \in Nat
    BY StateFields DEF ReplayInv, TypeOK
  <1>2. state.donations[i].hash \in Nat
    BY <1>1 DEF DonationIntent
  <1> QED
    BY <1>1, <1>2 DEF ReplayInv, RecordsPast

\* Every member has a donation behind the next position.
LEMMA DonorsCameFirst ==
  ASSUME ReplayInv, NEW r \in state.members
  PROVE  \E i \in 1..Len(state.donations) :
           /\ state.donations[i].reporter = r
           /\ state.donations[i].hash < position + 1
  <1>1. PICK i \in 1..Len(state.donations) : state.donations[i].reporter = r
    BY DEF ReplayInv, SignersDonatedFirst
  <1>2. state.donations[i] \in DonationIntent /\ position \in Nat
    BY StateFields DEF ReplayInv, TypeOK
  <1>3. state.donations[i].hash \in Nat
    BY <1>2 DEF DonationIntent
  <1>4. state.donations[i].hash < position + 1
    BY <1>2, <1>3 DEF ReplayInv, RecordsPast
  <1> QED
    BY <1>1, <1>4

LEMMA DonationPreserves ==
  ASSUME ReplayInv, TypeOK', NEW e \in NextEntry, FoldDonation(e)
  PROVE  ReplayInv'
  <1> DEFINE d == [reporter |-> e.reporter, sats |-> e.sats, hash |-> e.hash]
  <1> DEFINE n == Len(state.donations)
  <1>1. /\ state \in CommunityState /\ IsFiniteSet(state.members)
        /\ e.reporter \in Agents /\ e.sats \in Int
        /\ e.hash = position + 1 /\ position' = position + 1
        /\ position \in Nat
    BY NextEntryType DEF ReplayInv, TypeOK, FoldDonation
  <1>2. /\ state'.members = state.members \cup {e.reporter}
        /\ state'.donations = Append(state.donations, d)
        /\ state'.purchases = state.purchases
        /\ state'.provisioned = state.provisioned
        /\ state'.donated = state.donated + e.sats
        /\ state'.balance = state.balance + e.sats
        /\ state'.seedboxCount = state.seedboxCount
    BY <1>1, DonateFields DEF FoldDonation
  <1>3. /\ e.reporter \notin state.members
        /\ e.sats >= MinSats
        /\ e.sats <= DonationCap(state)
    BY DEF FoldDonation, ValidDonation
  <1>4. /\ n \in Nat
        /\ Len(state'.donations) = n + 1
        /\ \A i \in 1..n : state'.donations[i] = state.donations[i]
        /\ state'.donations[n + 1] = d
    BY <1>1, <1>2, StateFields
  <1>5. e.sats <= EffectiveBootstrapCap /\ e.sats \in Nat
    <2>1. DonationCap(state) <= EffectiveBootstrapCap
      BY CapBounded DEF ReplayInv
    <2>2. DonationCap(state) \in Int
      <3>1. CASE state.donations = <<>>
        BY <3>1, CapPositive DEF DonationCap
      <3>2. CASE state.donations # <<>>
        <4>1. n \in Nat \ {0} /\ state.donated \in Int
          BY <3>2, <1>1, StateFields
        <4>2. state.donated \div n \in Int
          BY <4>1
        <4> QED
          BY <3>2, <4>2, PolicyAssumption DEF DonationCap, Larger
      <3> QED
        BY <3>1, <3>2
    <2> QED
      BY <1>1, <1>3, <2>1, <2>2, CapPositive, PolicyAssumption
  <1>6. Cardinality(state'.members) = Cardinality(state.members) + 1
    BY <1>1, <1>2, <1>3, FS_AddElement
  <1>7. Cardinality(state.members) \in Nat
    BY <1>1, FS_CardinalityType
  <1>8. TreasurySolvent'
    <2>1. SeedboxCostSats * Len(state.purchases) \in Int
      BY <1>1, StateFields, PolicyAssumption
    <2> QED
      BY <1>1, <1>2, <1>5, <2>1, StateFields DEF ReplayInv, TreasurySolvent
  <1>9. PurchasesCloseInOrder'
    BY <1>2 DEF ReplayInv, PurchasesCloseInOrder
  <1>10. GrowthJustified'
    <2>1. MaxAgentsPerSeedbox * Len(state.purchases) \in Int
      BY <1>1, StateFields, PolicyAssumption
    <2> QED
      BY <1>2, <1>6, <1>7, <2>1 DEF ReplayInv, GrowthJustified
  <1>11. DonationsWithinBootstrapCap'
    <2> SUFFICES ASSUME NEW i \in 1..Len(state'.donations)
                 PROVE  state'.donations[i].sats \in MinSats..EffectiveBootstrapCap
      BY DEF DonationsWithinBootstrapCap, EffectiveBootstrapCap
    <2>1. CASE i \in 1..n
      BY <1>4, <2>1 DEF ReplayInv, DonationsWithinBootstrapCap
    <2>2. CASE i = n + 1
      BY <1>3, <1>4, <1>5, <2>2, CapPositive, PolicyAssumption
    <2> QED
      BY <1>4, <2>1, <2>2
  <1>12. SignersDonatedFirst'
    <2>1. state'.members = {state'.donations[i].reporter :
                              i \in 1..Len(state'.donations)}
      <3>1. state.members = {state.donations[i].reporter : i \in 1..n}
        BY DEF ReplayInv, SignersDonatedFirst
      <3>2. 1..(n + 1) = (1..n) \cup {n + 1}
        BY <1>4
      <3>3. d.reporter = e.reporter
        OBVIOUS
      <3> QED
        BY <1>2, <1>4, <3>1, <3>2, <3>3
    <2>2. Cardinality(state'.members) = Len(state'.donations)
      BY <1>4, <1>6 DEF ReplayInv, SignersDonatedFirst
    <2>3. \A r : (\E i \in 1..n : /\ state.donations[i].reporter = r.reporter
                                  /\ state.donations[i].hash < r.hash)
             => (\E i \in 1..Len(state'.donations) :
                   /\ state'.donations[i].reporter = r.reporter
                   /\ state'.donations[i].hash < r.hash)
      BY <1>4
    <2> QED
      BY <1>2, <2>1, <2>2, <2>3 DEF ReplayInv, SignersDonatedFirst
  <1>13. AverageBounded'
    <2>1. EffectiveBootstrapCap * (n + 1)
            = EffectiveBootstrapCap * n + EffectiveBootstrapCap
      BY <1>4, CapPositive
    <2>2. EffectiveBootstrapCap * n \in Int
      BY <1>4, CapPositive
    <2>3. state.donated \in Int
      BY <1>1, StateFields
    <2>4. state.donated + e.sats <= EffectiveBootstrapCap * (n + 1)
      BY <1>5, <2>1, <2>2, <2>3, CapPositive DEF ReplayInv, AverageBounded
    <2> QED
      BY <1>2, <1>4, <2>4 DEF AverageBounded, EffectiveBootstrapCap
  <1>14. RecordsPast'
    <2> SUFFICES ASSUME NEW i \in 1..Len(state'.donations)
                 PROVE  state'.donations[i].hash <= position'
      BY DEF RecordsPast
    <2>1. CASE i \in 1..n
      <3>1. state.donations[i].hash \in Int
        <4>1. state.donations[i] \in DonationIntent
          BY <1>1, <2>1, StateFields
        <4> QED
          BY <4>1 DEF DonationIntent
      <3> QED
        BY <1>1, <1>4, <2>1, <3>1 DEF ReplayInv, RecordsPast
    <2>2. CASE i = n + 1
      BY <1>1, <1>4, <2>2
    <2> QED
      BY <1>4, <2>1, <2>2
  <1> QED
    BY <1>8, <1>9, <1>10, <1>11, <1>12, <1>13, <1>14 DEF ReplayInv

LEMMA PurchasePreserves ==
  ASSUME ReplayInv, TypeOK', NEW e \in NextEntry, FoldPurchase(e)
  PROVE  ReplayInv'
  <1> DEFINE p == [reporter |-> e.reporter, sats |-> e.sats, hash |-> e.hash]
  <1> DEFINE n == Len(state.purchases)
  <1>1. /\ state \in CommunityState
        /\ e.reporter \in Agents /\ e.sats \in Int
        /\ e.hash = position + 1 /\ position' = position + 1
        /\ position \in Nat
    BY NextEntryType DEF ReplayInv, TypeOK, FoldPurchase
  <1>2. /\ state'.members = state.members
        /\ state'.donations = state.donations
        /\ state'.purchases = Append(state.purchases, p)
        /\ state'.provisioned = state.provisioned
        /\ state'.donated = state.donated
        /\ state'.balance = state.balance - e.sats
        /\ state'.seedboxCount = state.seedboxCount
    BY <1>1, PurchaseFields DEF FoldPurchase
  <1>3. /\ e.reporter \in state.members
        /\ e.sats = SeedboxCostSats
        /\ state.balance >= e.sats
        /\ Cardinality(state.members)
             > MaxAgentsPerSeedbox * state.seedboxCount
        /\ Len(state.purchases) - Len(state.provisioned) = 0
    BY DEF FoldPurchase, ValidPurchase, PendingPurchases
  <1>4. /\ n \in Nat
        /\ Len(state'.purchases) = n + 1
        /\ \A i \in 1..n : state'.purchases[i] = state.purchases[i]
        /\ state'.purchases[n + 1] = p
        /\ Len(state.provisioned) = n
    BY <1>1, <1>2, <1>3, StateFields
  <1>5. TreasurySolvent'
    <2>1. SeedboxCostSats * (n + 1) = SeedboxCostSats * n + SeedboxCostSats
      BY <1>4, PolicyAssumption
    <2>2. SeedboxCostSats * n \in Int
      BY <1>4, PolicyAssumption
    <2>3. state.balance \in Int /\ state.donated \in Int
      BY <1>1, StateFields
    <2>4. state.balance + SeedboxCostSats * n = state.donated
      BY DEF ReplayInv, TreasurySolvent
    <2>5. state.balance - SeedboxCostSats + SeedboxCostSats * (n + 1)
            = state.donated
      BY <2>1, <2>2, <2>3, <2>4, PolicyAssumption
    <2> QED
      BY <1>1, <1>2, <1>3, <1>4, <2>3, <2>5 DEF TreasurySolvent
  <1>6. PurchasesCloseInOrder'
    BY <1>2, <1>4 DEF ReplayInv, PurchasesCloseInOrder
  <1>7. GrowthJustified'
    <2>1. state.seedboxCount = n + 1
      BY <1>4 DEF ReplayInv, PurchasesCloseInOrder
    <2> QED
      BY <1>2, <1>3, <1>4, <2>1 DEF GrowthJustified
  <1>8. DonationsWithinBootstrapCap'
    BY <1>2 DEF ReplayInv, DonationsWithinBootstrapCap, EffectiveBootstrapCap
  <1>9. SignersDonatedFirst'
    <2>1. \E i \in 1..Len(state.donations) :
            /\ state.donations[i].reporter = e.reporter
            /\ state.donations[i].hash < e.hash
      BY <1>1, <1>3, DonorsCameFirst
    <2>2. /\ p.reporter = e.reporter
          /\ p.hash = e.hash
      OBVIOUS
    <2> HIDE DEF p
    <2> QED
      BY <1>2, <1>4, <2>1, <2>2 DEF ReplayInv, SignersDonatedFirst
  <1>10. AverageBounded'
    BY <1>2 DEF ReplayInv, AverageBounded, EffectiveBootstrapCap
  <1>11. RecordsPast'
    BY <1>1, <1>2, RecordsStayPast DEF RecordsPast
  <1> QED
    BY <1>5, <1>6, <1>7, <1>8, <1>9, <1>10, <1>11 DEF ReplayInv

LEMMA ProvisionPreserves ==
  ASSUME ReplayInv, TypeOK', NEW e \in NextEntry, FoldProvisioned(e)
  PROVE  ReplayInv'
  <1> DEFINE v == [reporter |-> e.reporter, intent |-> e.intent, hash |-> e.hash]
  <1> DEFINE n == Len(state.provisioned)
  <1>1. /\ state \in CommunityState
        /\ e.reporter \in Agents /\ e.intent \in Nat
        /\ e.hash = position + 1 /\ position' = position + 1
        /\ position \in Nat
    BY NextEntryType DEF ReplayInv, TypeOK, FoldProvisioned
  <1>2. /\ state'.members = state.members
        /\ state'.donations = state.donations
        /\ state'.purchases = state.purchases
        /\ state'.provisioned = Append(state.provisioned, v)
        /\ state'.donated = state.donated
        /\ state'.balance = state.balance
        /\ state'.seedboxCount = state.seedboxCount + 1
    BY <1>1, ProvisionFields DEF FoldProvisioned
  <1>3. /\ e.reporter \in state.members
        /\ \E i \in 1..Len(state.purchases) :
             state.purchases[i].hash = e.intent
        /\ \A i \in 1..n : state.provisioned[i].intent # e.intent
    BY DEF FoldProvisioned, ValidProvisioned
  <1>4. /\ n \in Nat
        /\ Len(state'.provisioned) = n + 1
        /\ \A i \in 1..n : state'.provisioned[i] = state.provisioned[i]
        /\ state'.provisioned[n + 1] = v
        /\ Len(state.purchases) \in Nat
    BY <1>1, <1>2, StateFields
  <1>5. TreasurySolvent'
    BY <1>2 DEF ReplayInv, TreasurySolvent
  <1>6. PurchasesCloseInOrder'
    \* The intent is some accepted purchase, not one of the first n, which
    \* the n provisioned events already closed: it is the one still open.
    <2>1. PICK k \in 1..Len(state.purchases) :
                 state.purchases[k].hash = e.intent
      BY <1>3
    <2>2. k \notin 1..n
      BY <1>3, <2>1 DEF ReplayInv, PurchasesCloseInOrder
    <2>3. Len(state.purchases) = n + 1 /\ k = n + 1
      BY <1>4, <2>1, <2>2 DEF ReplayInv, PurchasesCloseInOrder
    <2>4. v.intent = e.intent
      OBVIOUS
    <2>5. state.seedboxCount = 1 + n
      BY DEF ReplayInv, PurchasesCloseInOrder
    <2> HIDE DEF v
    <2>6. \A i \in 1..(n + 1) :
            state'.provisioned[i].intent = state.purchases[i].hash
      BY <1>4, <2>1, <2>3, <2>4 DEF ReplayInv, PurchasesCloseInOrder
    <2> QED
      BY <1>2, <1>4, <2>3, <2>5, <2>6 DEF PurchasesCloseInOrder
  <1>7. GrowthJustified'
    BY <1>2 DEF ReplayInv, GrowthJustified
  <1>8. DonationsWithinBootstrapCap'
    BY <1>2 DEF ReplayInv, DonationsWithinBootstrapCap, EffectiveBootstrapCap
  <1>9. SignersDonatedFirst'
    <2>1. \E i \in 1..Len(state.donations) :
            /\ state.donations[i].reporter = e.reporter
            /\ state.donations[i].hash < e.hash
      BY <1>1, <1>3, DonorsCameFirst
    <2>2. v.reporter = e.reporter /\ v.hash = e.hash
      OBVIOUS
    <2> HIDE DEF v
    <2>3. ASSUME NEW k \in 1..(n + 1)
          PROVE  \E i \in 1..Len(state.donations) :
              /\ state.donations[i].reporter = state'.provisioned[k].reporter
              /\ state.donations[i].hash < state'.provisioned[k].hash
      <3>1. CASE k \in 1..n
        BY <1>4, <3>1 DEF ReplayInv, SignersDonatedFirst
      <3>2. CASE k = n + 1
        BY <1>4, <2>1, <2>2, <3>2
      <3> QED
        BY <1>4, <3>1, <3>2
    <2> QED
      BY <1>2, <1>4, <2>3 DEF ReplayInv, SignersDonatedFirst
  <1>10. AverageBounded'
    BY <1>2 DEF ReplayInv, AverageBounded, EffectiveBootstrapCap
  <1>11. RecordsPast'
    BY <1>1, <1>2, RecordsStayPast DEF RecordsPast
  <1> QED
    BY <1>5, <1>6, <1>7, <1>8, <1>9, <1>10, <1>11 DEF ReplayInv

LEMMA DropPreserves ==
  ASSUME ReplayInv, TypeOK', NEW e \in NextEntry, DropEntry(e)
  PROVE  ReplayInv'
  <1>1. state' = state
    BY DEF DropEntry
  <1>2. position' = position + 1
    BY NextEntryType DEF ReplayInv, TypeOK, DropEntry
  <1>3. RecordsPast'
    BY <1>1, <1>2, RecordsStayPast DEF RecordsPast
  <1> QED
    BY <1>1, <1>3
    DEF ReplayInv, TreasurySolvent, PurchasesCloseInOrder, GrowthJustified,
        DonationsWithinBootstrapCap, SignersDonatedFirst, AverageBounded,
        EffectiveBootstrapCap

LEMMA ReplayInvInitial == ReplayInit => ReplayInv
  <1> SUFFICES ASSUME ReplayInit PROVE ReplayInv
    OBVIOUS
  <1>1. /\ state.members = {} /\ state.donations = <<>>
        /\ state.purchases = <<>> /\ state.provisioned = <<>>
        /\ state.donated = 0 /\ state.balance = 0 /\ state.seedboxCount = 1
    BY DEF ReplayInit, GenesisState
  <1>2. TypeOK
    BY TypeInitial
  <1>3. TreasurySolvent /\ PurchasesCloseInOrder /\ GrowthJustified
    BY <1>1, PolicyAssumption
    DEF TreasurySolvent, PurchasesCloseInOrder, GrowthJustified
  <1>4. DonationsWithinBootstrapCap /\ RecordsPast
    BY <1>1 DEF DonationsWithinBootstrapCap, RecordsPast
  <1>5. SignersDonatedFirst
    BY <1>1, FS_EmptySet DEF SignersDonatedFirst
  <1>6. AverageBounded
    BY <1>1, CapPositive DEF AverageBounded
  <1> QED
    BY <1>2, <1>3, <1>4, <1>5, <1>6 DEF ReplayInv

THEOREM ReplayInvariant == ReplaySpec => []ReplayInv
  <1>1. ReplayInv /\ [FoldNext]_replayVars => ReplayInv'
    <2> SUFFICES ASSUME ReplayInv, [FoldNext]_replayVars PROVE ReplayInv'
      OBVIOUS
    <2>1. TypeOK'
      BY TypeInductive DEF ReplayInv
    <2>2. CASE UNCHANGED replayVars
      BY <2>1, <2>2
      DEF replayVars, ReplayInv, TreasurySolvent, PurchasesCloseInOrder,
          GrowthJustified, DonationsWithinBootstrapCap, SignersDonatedFirst,
          AverageBounded, RecordsPast, EffectiveBootstrapCap
    <2>3. CASE FoldNext
      BY <2>1, <2>3, DonationPreserves, PurchasePreserves,
         ProvisionPreserves, DropPreserves DEF FoldNext
    <2> QED
      BY <2>2, <2>3
  <1> QED
    BY <1>1, ReplayInvInitial, PTL DEF ReplaySpec

\* No order of entries spends more than the members donated
\* (agent/community_state.py:312-316).
THEOREM Solvency == ReplaySpec => []TreasurySolvent
  <1>1. ReplayInv => TreasurySolvent
    BY DEF ReplayInv
  <1> QED
    BY <1>1, ReplayInvariant, PTL

\* First-comer wins: at most one purchase is open and the provisioned events
\* close purchases in the order of acceptance (community_state.py:322-323).
THEOREM FirstComerWins == ReplaySpec => []PurchasesCloseInOrder
  <1>1. ReplayInv => PurchasesCloseInOrder
    BY DEF ReplayInv
  <1> QED
    BY <1>1, ReplayInvariant, PTL

\* The k-th purchase is authorised only by more members than k seedboxes
\* hold (community_state.py:318-320).
THEOREM GrowthIsJustified == ReplaySpec => []GrowthJustified
  <1>1. ReplayInv => GrowthJustified
    BY DEF ReplayInv
  <1> QED
    BY <1>1, ReplayInvariant, PTL

\* The running-average cap never lets a later donor give more than the first
\* one could (community_state.py:275-281).
THEOREM BootstrapCapBounds == ReplaySpec => []DonationsWithinBootstrapCap
  <1>1. ReplayInv => DonationsWithinBootstrapCap
    BY DEF ReplayInv
  <1> QED
    BY <1>1, ReplayInvariant, PTL

\* Whoever spent or provisioned had been admitted by a donation at an
\* earlier log position (community_state.py:304-306, 340-341).
THEOREM SignersWereDonors == ReplaySpec => []SignersDonatedFirst
  <1>1. ReplayInv => SignersDonatedFirst
    BY DEF ReplayInv
  <1> QED
    BY <1>1, ReplayInvariant, PTL

---------------------------------------------------------------------------
\* Duplicates.

\* What Apply does with each kind of entry.
LEMMA ApplyCases ==
  ASSUME NEW net, NEW s, NEW e
  PROVE  /\ Relevant(net, e) /\ e.action = "donation_intent"
              /\ ValidDonation(s, e) => Apply(net, s, e) = Donate(s, e)
         /\ Relevant(net, e) /\ e.action = "seedbox_purchase_intent"
              /\ ValidPurchase(s, e) => Apply(net, s, e) = Purchase(s, e)
         /\ Relevant(net, e) /\ e.action = "seedbox_provisioned"
              /\ ValidProvisioned(s, e) => Apply(net, s, e) = Provision(s, e)
         /\ ~ (Relevant(net, e) /\
                 \/ e.action = "donation_intent" /\ ValidDonation(s, e)
                 \/ e.action = "seedbox_purchase_intent" /\ ValidPurchase(s, e)
                 \/ e.action = "seedbox_provisioned" /\ ValidProvisioned(s, e))
            => Apply(net, s, e) = s
  BY DEF Apply

LEMMA ApplyIdempotent ==
  ASSUME NEW net, NEW s \in CommunityState, NEW e
  PROVE  Apply(net, Apply(net, s, e), e) = Apply(net, s, e)
  <1>1. CASE /\ Relevant(net, e) /\ e.action = "donation_intent"
             /\ ValidDonation(s, e)
    <2>1. Apply(net, s, e) = Donate(s, e)
      BY <1>1, ApplyCases
    <2>2. e.reporter \in Donate(s, e).members
      BY DonateFields
    <2>3. ~ ValidDonation(Donate(s, e), e)
      BY <2>2 DEF ValidDonation
    <2> QED
      BY <1>1, <2>1, <2>3, ApplyCases
  <1>2. CASE /\ Relevant(net, e) /\ e.action = "seedbox_purchase_intent"
             /\ ValidPurchase(s, e)
    <2>1. Apply(net, s, e) = Purchase(s, e)
      BY <1>2, ApplyCases
    <2>2. PendingPurchases(s) = 0
      BY <1>2 DEF ValidPurchase
    <2>3. PendingPurchases(Purchase(s, e)) = 1
      <3>1. /\ s.purchases \in Seq(SeedboxPurchaseIntent)
            /\ s.provisioned \in Seq(SeedboxProvisioned)
        BY StateFields
      <3>2. Len(Purchase(s, e).purchases) = Len(s.purchases) + 1
        <4> DEFINE p == [reporter |-> e.reporter, sats |-> e.sats,
                         hash |-> e.hash]
        <4>1. Purchase(s, e).purchases = Append(s.purchases, p)
          BY PurchaseFields
        <4> HIDE DEF p
        <4> QED
          BY <3>1, <4>1
      <3>3. Purchase(s, e).provisioned = s.provisioned
        BY PurchaseFields
      <3> QED
        BY <2>2, <3>1, <3>2, <3>3 DEF PendingPurchases
    <2>4. ~ ValidPurchase(Purchase(s, e), e)
      BY <2>3 DEF ValidPurchase
    <2> QED
      BY <1>2, <2>1, <2>4, ApplyCases
  <1>3. CASE /\ Relevant(net, e) /\ e.action = "seedbox_provisioned"
             /\ ValidProvisioned(s, e)
    <2>1. Apply(net, s, e) = Provision(s, e)
      BY <1>3, ApplyCases
    <2>2. \E i \in 1..Len(Provision(s, e).provisioned) :
            Provision(s, e).provisioned[i].intent = e.intent
      <3> DEFINE n == Len(s.provisioned)
      <3> DEFINE v == [reporter |-> e.reporter, intent |-> e.intent,
                       hash |-> e.hash]
      <3>1. s.provisioned \in Seq(SeedboxProvisioned) /\ n \in Nat
        BY StateFields
      <3>2. Provision(s, e).provisioned = Append(s.provisioned, v)
        BY ProvisionFields
      <3>3. /\ Len(Append(s.provisioned, v)) = n + 1
            /\ Append(s.provisioned, v)[n + 1] = v
        BY <3>1
      <3>4. v.intent = e.intent
        OBVIOUS
      <3>5. n + 1 \in 1..(n + 1)
        BY <3>1
      <3> HIDE DEF v, n
      <3> QED
        BY <3>2, <3>3, <3>4, <3>5
    <2>3. ~ ValidProvisioned(Provision(s, e), e)
      BY <2>2 DEF ValidProvisioned
    <2> QED
      BY <1>3, <2>1, <2>3, ApplyCases
  <1> QED
    BY <1>1, <1>2, <1>3, ApplyCases

\* An entry that is stored twice counts once (community_state.py:173-249).
THEOREM DuplicatesAreIgnored == ReplaySpec => []DuplicatesIgnored
  <1>1. TypeOK => DuplicatesIgnored
    BY ApplyIdempotent DEF TypeOK, DuplicatesIgnored
  <1> QED
    BY <1>1, TypeCorrect, PTL

---------------------------------------------------------------------------
\* The replay of a set of entries, as a recursion over its subsets.

Latest(E, net) == CHOOSE e \in E : \A f \in E \ {e} : Before(f, e)
ApplyTo(s, e, net) == Apply(net, s, e)
Folding == INSTANCE Recursion WITH Base <- GenesisState, Pick <- Latest, Step <- ApplyTo

EntryTyped(e) ==
  /\ e.reporter \in Agents /\ e.sats \in Int /\ e.intent \in Nat
  /\ e.ts \in Nat /\ e.hash \in Nat
WellFormed(E) ==
  /\ IsFiniteSet(E)
  /\ \A e \in E : EntryTyped(e)
  /\ \A e, f \in E : e.hash = f.hash => e = f

LEMMA SameFinite == \A S : IsFiniteSet(S) <=> Folding!IsFiniteSet(S)
BY DEF IsFiniteSet, Folding!IsFiniteSet

LEMMA WellFormedPart ==
  ASSUME NEW E, WellFormed(E), NEW D \in SUBSET E
  PROVE  WellFormed(D)
<1>1. IsFiniteSet(D)
  BY FS_Subset DEF WellFormed
<1> QED
  BY <1>1 DEF WellFormed

\* Timestamp, reporter and hash put any two entries in an order.
LEMMA BeforeOrders ==
  ASSUME NEW E, WellFormed(E)
  PROVE  /\ \A e, f \in E : e # f => Before(e, f) \/ Before(f, e)
         /\ \A e, f \in E : Before(e, f) => ~ Before(f, e)
         /\ \A e, f, g \in E : Before(e, f) /\ Before(f, g) => Before(e, g)
<1>1. \A e \in E : e.ts \in Int /\ e.reporter \in Int /\ e.hash \in Int
  <2>1. \A x \in Agents : x \in Int
    <3>1. \A x \in Agents : x \in Nat
      BY CommunityAssumption
    <3> QED
      BY <3>1
  <2>2. \A e \in E : e.reporter \in Agents /\ e.ts \in Nat /\ e.hash \in Nat
    BY DEF WellFormed, EntryTyped
  <2>3. ASSUME NEW e \in E
        PROVE  e.ts \in Int /\ e.reporter \in Int /\ e.hash \in Int
    <3>1. e.ts \in Nat /\ e.hash \in Nat /\ e.reporter \in Int
      BY <2>1, <2>2
    <3> QED
      BY <3>1
  <2> QED
    BY <2>3
<1>2. \A e, f \in E : e # f => Before(e, f) \/ Before(f, e)
  BY <1>1 DEF Before, WellFormed
<1>3. \A e, f \in E : Before(e, f) => ~ Before(f, e)
  BY <1>1 DEF Before
<1>4. \A e, f, g \in E : Before(e, f) /\ Before(f, g) => Before(e, g)
  BY <1>1 DEF Before
<1> QED
  BY <1>2, <1>3, <1>4

LEMMA LatestIs ==
  ASSUME NEW E, WellFormed(E), E # {}, NEW net
  PROVE  Latest(E, net) \in E /\ \A f \in E \ {Latest(E, net)} : Before(f, Latest(E, net))
<1> DEFINE Has(D) == \E e \in D : \A f \in D \ {e} : Before(f, e)
           Bad == {D \in SUBSET E : D # {} /\ ~ Has(D)}
<1>1. ASSUME Bad # {}
      PROVE  FALSE
  <2>1. PICK D \in Bad : \A C \in Bad : C \subseteq D => C = D
    <3>1. Bad \subseteq SUBSET E /\ Folding!IsFiniteSet(E)
      BY SameFinite DEF WellFormed
    <3> HIDE DEF Bad
    <3> QED
      BY <1>1, <3>1, Folding!Smallest
  <2>2. PICK x \in D : TRUE
    BY <2>1
  <2>3. CASE D = {x}
    BY <2>1, <2>3
  <2>4. CASE D # {x}
    <3>1. D \ {x} # {} /\ D \ {x} \in SUBSET E /\ D \ {x} # D /\ D \ {x} \subseteq D
      BY <2>1, <2>2, <2>4
    <3>2. Has(D \ {x})
      BY <2>1, <3>1
    <3>3. PICK y \in D \ {x} : \A f \in (D \ {x}) \ {y} : Before(f, y)
      BY <3>2
    <3>4. x \in E /\ y \in E /\ x # y /\ D \subseteq E
      BY <2>1, <3>3
    <3>5. CASE Before(x, y)
      <4>1. \A f \in D \ {y} : Before(f, y)
        BY <3>3, <3>5
      <4> QED
        BY <2>1, <3>3, <4>1
    <3>6. CASE Before(y, x)
      <4>1. \A f \in D \ {x} : Before(f, x)
        BY <3>3, <3>4, <3>6, BeforeOrders
      <4> QED
        BY <2>1, <2>2, <4>1
    <3> QED
      BY <3>4, <3>5, <3>6, BeforeOrders
  <2> QED
    BY <2>3, <2>4
<1>2. Has(E)
  BY <1>1
<1> QED
  BY <1>2 DEF Latest

LEMMA FoldingPicks ==
  ASSUME NEW E, WellFormed(E), NEW net
  PROVE  Folding!Picks(E, net)
BY WellFormedPart, LatestIs DEF Folding!Picks

LEMMA ReplayIs ==
  ASSUME NEW E, NEW net
  PROVE  Replay(net, E) = Folding!Value(E, net)
BY DEF Replay, Folding!Value, Folding!Recursive, ApplyTo, Latest

LEMMA ReplayNone == \A net : Replay(net, {}) = GenesisState
BY ReplayIs, Folding!Empty

LEMMA ReplayLatest ==
  ASSUME NEW E, WellFormed(E), E # {}, NEW net
  PROVE  LET l == Latest(E, net)
         IN Replay(net, E) = Apply(net, Replay(net, E \ {l}), l)
<1> DEFINE C == E \ {Latest(E, net)}
<1>1. Folding!Picks(E, net) /\ Folding!IsFiniteSet(E)
  BY FoldingPicks, SameFinite DEF WellFormed
<1>2. Folding!Value(E, net) = ApplyTo(Folding!Value(C, net), Latest(E, net), net)
  BY <1>1, Folding!OneMore
<1> QED
  BY <1>2, ReplayIs DEF ApplyTo

---------------------------------------------------------------------------
\* What an entry more does to the state a replay has reached: members stay, and
\* the cap on donations only falls.

Replayed(s) ==
  s \in CommunityState /\ (s.donations = <<>> => s.donated = 0)
Grows(s, t) ==
  s.members \subseteq t.members /\ DonationCap(t) <= DonationCap(s)

\* One amount more that the cap allows does not raise the average over it.
LEMMA AverageFalls ==
  ASSUME NEW d \in Int, NEW n \in Nat \ {0}, NEW c \in Int, d \div n <= c,
         NEW x \in Int, x <= c
  PROVE  (d + x) \div (n + 1) \in Int /\ (d + x) \div (n + 1) <= c
<1> DEFINE q == d \div n
           p == (d + x) \div (n + 1)
<1>1. q \in Int /\ d < n * q + n
  OBVIOUS
<1>2. p \in Int /\ (n + 1) * p <= d + x
  OBVIOUS
<1> HIDE DEF q, p
<1>3. n * q <= n * c
  BY <1>1 DEF q
<1>4. d + x < (n + 1) * c + n
  <2>1. (n + 1) * c = n * c + c /\ n * c \in Int /\ n * q \in Int
    BY <1>1
  <2> QED
    BY <1>1, <1>3, <2>1
<1>5. ASSUME p >= c + 1
      PROVE  FALSE
  <2>1. (n + 1) * p >= (n + 1) * (c + 1)
    BY <1>2, <1>5
  <2>2. (n + 1) * (c + 1) = (n + 1) * c + n + 1
    OBVIOUS
  <2>3. (n + 1) * p \in Int /\ (n + 1) * c \in Int /\ (n + 1) * (c + 1) \in Int
    BY <1>2
  <2> QED
    BY <1>2, <1>4, <2>1, <2>2, <2>3
<1> QED
  BY <1>2, <1>5 DEF p

LEMMA CapType ==
  ASSUME NEW s \in CommunityState
  PROVE  DonationCap(s) \in Int
<1>1. CASE s.donations = <<>>
  BY <1>1, CapPositive DEF DonationCap
<1>2. CASE s.donations # <<>>
  <2>1. Len(s.donations) \in Nat \ {0} /\ s.donated \in Int
    BY <1>2, StateFields
  <2>2. s.donated \div Len(s.donations) \in Int
    BY <2>1
  <2> QED
    BY <1>2, <2>2, PolicyAssumption DEF DonationCap, Larger
<1> QED
  BY <1>1, <1>2

LEMMA DonationGrows ==
  ASSUME NEW s, Replayed(s), NEW e, EntryTyped(e), ValidDonation(s, e)
  PROVE  Replayed(Donate(s, e)) /\ Grows(s, Donate(s, e))
<1> DEFINE t == Donate(s, e)
           n == Len(s.donations)
           c == DonationCap(s)
<1>1. s \in CommunityState /\ t \in CommunityState /\ e.sats \in Int
  BY DonateType DEF Replayed, EntryTyped
<1>2. t.members = s.members \cup {e.reporter} /\ t.donated = s.donated + e.sats
  BY <1>1, DonateFields
<1>3. n \in Nat /\ s.donated \in Int /\ c \in Int /\ MinSats \in Nat
  BY <1>1, StateFields, CapType, PolicyAssumption
<1>4. t.donations # <<>> /\ Len(t.donations) = n + 1
  <2> DEFINE d == [reporter |-> e.reporter, sats |-> e.sats, hash |-> e.hash]
  <2>1. t.donations = Append(s.donations, d)
    BY <1>1, DonateFields
  <2>2. s.donations \in Seq(DonationIntent) /\ d \in DonationIntent
    BY <1>1, StateFields DEF EntryTyped, DonationIntent
  <2> HIDE DEF d, t
  <2>3. /\ Append(s.donations, d) # <<>>
        /\ Len(Append(s.donations, d)) = Len(s.donations) + 1
    BY <2>2
  <2> QED
    BY <2>1, <2>3 DEF n
<1>5. e.sats <= c /\ e.sats >= MinSats
  BY DEF ValidDonation
<1> HIDE DEF t
<1>6. DonationCap(t) = Larger(MinSats, (s.donated + e.sats) \div (n + 1))
  BY <1>2, <1>4 DEF DonationCap
<1>7. CASE s.donations = <<>>
  <2>1. s.donated = 0 /\ n = 0 /\ c = EffectiveBootstrapCap
    BY <1>7 DEF Replayed, DonationCap
  <2>2. (0 + e.sats) \div (0 + 1) = e.sats
    BY <1>1
  <2>3. DonationCap(t) <= DonationCap(s)
    BY <1>1, <1>3, <1>5, <1>6, <2>1, <2>2, CapPositive DEF Larger
  <2> QED
    BY <1>1, <1>2, <1>4, <2>3 DEF Replayed, Grows, t
<1>8. CASE s.donations # <<>>
  <2>1. n \in Nat \ {0}
    BY <1>1, <1>8, StateFields
  <2>2. s.donated \div n \in Int /\ c = Larger(MinSats, s.donated \div n)
    BY <1>3, <1>8, <2>1 DEF DonationCap
  <2>3. s.donated \div n <= c /\ MinSats <= c
    BY <1>3, <2>2 DEF Larger
  <2> HIDE DEF c, n
  <2>4. (s.donated + e.sats) \div (n + 1) \in Int /\ (s.donated + e.sats) \div (n + 1) <= c
    BY <1>1, <1>3, <1>5, <2>1, <2>3, AverageFalls
  <2>5. DonationCap(t) <= c
    BY <1>3, <1>6, <2>3, <2>4 DEF Larger
  <2> QED
    BY <1>1, <1>2, <1>4, <2>5 DEF Replayed, Grows, c, t
<1> QED
  BY <1>7, <1>8 DEF t

LEMMA ApplyGrows ==
  ASSUME NEW s, Replayed(s), NEW e, EntryTyped(e), NEW net
  PROVE  Replayed(Apply(net, s, e)) /\ Grows(s, Apply(net, s, e))
<1>1. s \in CommunityState /\ DonationCap(s) \in Int
  BY CapType DEF Replayed
<1>2. Replayed(s) /\ Grows(s, s)
  BY <1>1 DEF Grows
<1>3. Replayed(Purchase(s, e)) /\ Grows(s, Purchase(s, e))
  <2>1. Purchase(s, e) \in CommunityState
    BY <1>1, PurchaseType DEF EntryTyped
  <2>2. /\ Purchase(s, e).members = s.members
        /\ Purchase(s, e).donations = s.donations
        /\ Purchase(s, e).donated = s.donated
    BY <1>1, PurchaseFields
  <2>3. DonationCap(Purchase(s, e)) = DonationCap(s)
    BY <2>2 DEF DonationCap
  <2> QED
    BY <1>1, <2>1, <2>2, <2>3 DEF Replayed, Grows
<1>4. Replayed(Provision(s, e)) /\ Grows(s, Provision(s, e))
  <2>1. Provision(s, e) \in CommunityState
    BY <1>1, ProvisionType DEF EntryTyped
  <2>2. /\ Provision(s, e).members = s.members
        /\ Provision(s, e).donations = s.donations
        /\ Provision(s, e).donated = s.donated
    BY <1>1, ProvisionFields
  <2>3. DonationCap(Provision(s, e)) = DonationCap(s)
    BY <2>2 DEF DonationCap
  <2> QED
    BY <1>1, <2>1, <2>2, <2>3 DEF Replayed, Grows
<1> QED
  BY <1>2, <1>3, <1>4, DonationGrows, ApplyCases

LEMMA ReplayTyped ==
  ASSUME NEW E, WellFormed(E), NEW net
  PROVE  Replayed(Replay(net, E))
<1> DEFINE Bad == {D \in SUBSET E : ~ Replayed(Replay(net, D))}
<1>1. ASSUME Bad # {}
      PROVE  FALSE
  <2>1. PICK D \in Bad : \A C \in Bad : C \subseteq D => C = D
    <3>1. Bad \subseteq SUBSET E /\ Folding!IsFiniteSet(E)
      BY SameFinite DEF WellFormed
    <3> HIDE DEF Bad
    <3> QED
      BY <1>1, <3>1, Folding!Smallest
  <2>2. CASE D = {}
    <3>1. Replayed(GenesisState)
      BY DEF Replayed, GenesisState, CommunityState
    <3> QED
      BY <2>1, <2>2, <3>1, ReplayNone
  <2>3. CASE D # {}
    <3> DEFINE l == Latest(D, net)
    <3>1. WellFormed(D)
      BY <2>1, WellFormedPart
    <3>2. l \in D /\ EntryTyped(l)
      BY <2>3, <3>1, LatestIs DEF WellFormed
    <3>3. D \ {l} \in SUBSET E /\ D \ {l} \notin Bad
      BY <2>1, <3>2
    <3>4. Replayed(Replay(net, D \ {l}))
      BY <3>3
    <3>5. Replay(net, D) = Apply(net, Replay(net, D \ {l}), l)
      BY <2>3, <3>1, ReplayLatest
    <3> HIDE DEF l
    <3>6. Replayed(Replay(net, D))
      BY <3>2, <3>4, <3>5, ApplyGrows
    <3> QED
      BY <2>1, <3>6
  <2> QED
    BY <2>2, <2>3
<1> QED
  BY <1>1

\* Entries later than all of some set add to its replay.
LEMMA ReplayGrows ==
  ASSUME NEW E, WellFormed(E), NEW P \in SUBSET E,
         \A f \in P, g \in E : Before(g, f) => g \in P, NEW net
  PROVE  Grows(Replay(net, P), Replay(net, E))
<1> DEFINE s == Replay(net, P)
           Bad == {D \in SUBSET E : P \subseteq D /\ ~ Grows(s, Replay(net, D))}
<1>0. Replayed(s)
  BY WellFormedPart, ReplayTyped
<1>1. ASSUME Bad # {}
      PROVE  FALSE
  <2>1. PICK D \in Bad : \A C \in Bad : C \subseteq D => C = D
    <3>1. Bad \subseteq SUBSET E /\ Folding!IsFiniteSet(E)
      BY SameFinite DEF WellFormed
    <3> HIDE DEF Bad
    <3> QED
      BY <1>1, <3>1, Folding!Smallest
  <2>2. CASE D = P
    <3>1. Grows(s, s)
      BY <1>0, CapType DEF Replayed, Grows
    <3> QED
      BY <2>1, <2>2, <3>1
  <2>3. CASE D # P
    <3> DEFINE l == Latest(D, net)
    <3>1. WellFormed(D) /\ P \subseteq D /\ D \in SUBSET E
      BY <2>1, WellFormedPart
    <3>2. D # {}
      BY <2>3, <3>1
    <3>3. l \in D /\ EntryTyped(l) /\ \A f \in D \ {l} : Before(f, l)
      BY <3>1, <3>2, LatestIs DEF WellFormed
    <3> HIDE DEF l
    <3>4. l \notin P
      BY <2>3, <3>1, <3>3
    <3>5. D \ {l} \in SUBSET E /\ P \subseteq D \ {l} /\ D \ {l} # D
      BY <3>1, <3>3, <3>4
    <3>6. Grows(s, Replay(net, D \ {l}))
      BY <2>1, <3>5
    <3>7. Replayed(Replay(net, D \ {l}))
      BY <3>5, WellFormedPart, ReplayTyped
    <3>8. Replay(net, D) = Apply(net, Replay(net, D \ {l}), l)
      BY <3>1, <3>2, ReplayLatest DEF l
    <3>9. Grows(Replay(net, D \ {l}), Replay(net, D)) /\ Replayed(Replay(net, D))
      BY <3>3, <3>7, <3>8, ApplyGrows
    <3>10. Grows(s, Replay(net, D))
      <4>1. /\ DonationCap(s) \in Int /\ DonationCap(Replay(net, D)) \in Int
            /\ DonationCap(Replay(net, D \ {l})) \in Int
        BY <1>0, <3>7, <3>9, CapType DEF Replayed
      <4> QED
        BY <3>6, <3>9, <4>1 DEF Grows
    <3> QED
      BY <2>1, <3>10
  <2> QED
    BY <2>2, <2>3
<1> QED
  BY <1>1

\* A donation the replay of some entries has room for is accepted wherever in
\* their order it falls.
LEMMA DonationAccepted ==
  ASSUME NEW E, NEW e, WellFormed(E \cup {e}), e \notin E, NEW net,
         Relevant(net, e), e.action = "donation_intent",
         ValidDonation(Replay(net, E), e)
  PROVE  e.reporter \in Replay(net, E \cup {e}).members
<1> DEFINE P == {f \in E : Before(f, e)}
           Q == P \cup {e}
           A == E \cup {e}
<1>1. WellFormed(E) /\ WellFormed(P) /\ WellFormed(Q) /\ EntryTyped(e)
  <2>1. E \in SUBSET A /\ P \in SUBSET A /\ Q \in SUBSET A /\ e \in A
    OBVIOUS
  <2> QED
    BY <2>1, WellFormedPart DEF WellFormed
<1>2. /\ \A f, g \in A : f # g => Before(f, g) \/ Before(g, f)
      /\ \A f, g \in A : Before(f, g) => ~ Before(g, f)
      /\ \A f, g, h \in A : Before(f, g) /\ Before(g, h) => Before(f, h)
  BY BeforeOrders
<1>3. \A f \in P, g \in E : Before(g, f) => g \in P
  BY <1>2
<1>4. \A f \in Q, g \in A : Before(g, f) => g \in Q
  BY <1>2
<1>5. Latest(Q, net) = e
  <2>1. Latest(Q, net) \in Q /\ \A f \in Q \ {Latest(Q, net)} : Before(f, Latest(Q, net))
    <3>1. Q # {}
      OBVIOUS
    <3> HIDE DEF Q
    <3> QED
      BY <1>1, <3>1, LatestIs
  <2> QED
    BY <1>2, <2>1
<1>6. Q \ {e} = P /\ Q # {} /\ P \in SUBSET E /\ Q \in SUBSET A
  OBVIOUS
<1> HIDE DEF P, Q
<1>7. Grows(Replay(net, P), Replay(net, E)) /\ Grows(Replay(net, Q), Replay(net, A))
  <2>1. Grows(Replay(net, P), Replay(net, E))
    BY <1>1, <1>3, <1>6, ReplayGrows
  <2> HIDE DEF A
  <2>2. Grows(Replay(net, Q), Replay(net, A))
    <3>1. WellFormed(A)
      BY DEF A
    <3> QED
      BY <1>4, <1>6, <3>1, ReplayGrows
  <2> QED
    BY <2>1, <2>2
<1>8. ValidDonation(Replay(net, P), e)
  <2>1. DonationCap(Replay(net, P)) \in Int /\ DonationCap(Replay(net, E)) \in Int
    BY <1>1, ReplayTyped, CapType DEF Replayed
  <2>2. e.sats \in Int
    BY <1>1 DEF EntryTyped
  <2> QED
    BY <1>7, <2>1, <2>2 DEF ValidDonation, Grows
<1>9. Replay(net, Q) = Donate(Replay(net, P), e)
  <2>1. Replay(net, Q) = Apply(net, Replay(net, P), e)
    BY <1>1, <1>5, <1>6, ReplayLatest
  <2> QED
    BY <1>8, <2>1, ApplyCases
<1>10. e.reporter \in Replay(net, Q).members
  <2>1. Replay(net, P) \in CommunityState
    BY <1>1, ReplayTyped DEF Replayed
  <2> QED
    BY <1>9, <2>1, DonateFields
<1> QED
  BY <1>7, <1>10 DEF Grows

---------------------------------------------------------------------------
\* The machine of Community: the entries there are, and who holds which.

EntriesInOrder ==
  /\ WellFormed(entries)
  /\ \A e \in entries : e.hash <= Cardinality(entries)

MemoType(E) == [key : SUBSET E, held : SUBSET E, net : Networks \cup {None}]

EntriesInv ==
  /\ EntriesInOrder
  /\ have \in [Agents -> SUBSET entries]
  /\ known \in [Agents -> SUBSET entries]
  /\ manifest \in [Agents -> Networks \cup {None}]
  /\ memo \in [Agents -> MemoType(entries)]

\* The entry Log(n, action, sats, intent) appends.
NewEntry(n, action, sats, intent) ==
  LET k == Cardinality(entries) + 1
  IN  [action |-> action, net |-> manifest[n], reporter |-> n,
       sats |-> sats, intent |-> intent, shape |-> TRUE,
       ts |-> k + Skew[n], hash |-> k]

LEMMA LogAdds ==
  ASSUME EntriesInv, NEW n \in Agents, NEW action, NEW sats \in Int, NEW intent \in Nat,
         Log(n, action, sats, intent)
  PROVE  LET e == NewEntry(n, action, sats, intent)
         IN  /\ entries' = entries \cup {e} /\ e \notin entries /\ EntryTyped(e)
             /\ have' \in [Agents -> SUBSET entries']
             /\ have'[n] = have[n] \cup {e}
             /\ EntriesInOrder'
<1> DEFINE e == NewEntry(n, action, sats, intent)
           k == Cardinality(entries) + 1
<1>1. IsFiniteSet(entries) /\ k \in Nat
  BY FS_CardinalityType DEF EntriesInv, EntriesInOrder, WellFormed
<1>2. e.hash = k /\ e.reporter = n /\ e.sats = sats /\ e.intent = intent /\ e.ts = k + Skew[n]
  BY DEF NewEntry
<1>3. EntryTyped(e)
  <2>1. Skew[n] \in Nat
    BY CommunityAssumption
  <2>2. k + Skew[n] \in Nat
    BY <1>1, <2>1
  <2> HIDE DEF e, k
  <2> QED
    BY <1>1, <1>2, <2>2 DEF EntryTyped
<1>4. entries' = entries \cup {e} /\ have' = [have EXCEPT ![n] = @ \cup {e}]
  BY DEF Log, NewEntry
<1>5. \A f \in entries : f.hash \in Nat /\ f.hash < k
  <2>1. \A f \in entries : f.hash \in Nat /\ f.hash <= Cardinality(entries)
    BY DEF EntriesInv, EntriesInOrder, WellFormed, EntryTyped
  <2>2. Cardinality(entries) \in Nat
    BY <1>1, FS_CardinalityType
  <2> QED
    BY <2>1, <2>2
<1> HIDE DEF e
<1>6. e \notin entries
  BY <1>1, <1>2, <1>5
<1>7. have' \in [Agents -> SUBSET entries'] /\ have'[n] = have[n] \cup {e}
  <2>1. have \in [Agents -> SUBSET entries]
    BY DEF EntriesInv
  <2> QED
    BY <1>4, <2>1
<1>8. IsFiniteSet(entries') /\ Cardinality(entries') = k
  BY <1>1, <1>4, <1>6, FS_AddElement
<1>9. \A f \in entries' : f.hash <= Cardinality(entries')
  <2>1. \A f \in entries' : f.hash <= k
    BY <1>1, <1>2, <1>4, <1>5
  <2> QED
    BY <1>8, <2>1
<1>10. WellFormed(entries')
  <2>1. \A f \in entries' : EntryTyped(f)
    BY <1>3, <1>4 DEF EntriesInv, EntriesInOrder, WellFormed
  <2>2. \A f, g \in entries : f.hash = g.hash => f = g
    BY DEF EntriesInv, EntriesInOrder, WellFormed
  <2>3. \A f, g \in entries' : f.hash = g.hash => f = g
    BY <1>1, <1>2, <1>4, <1>5, <2>2
  <2> QED
    BY <1>8, <2>1, <2>3 DEF WellFormed
<1>11. EntriesInOrder'
  BY <1>9, <1>10 DEF EntriesInOrder, WellFormed, EntryTyped
<1> QED
  BY <1>3, <1>4, <1>6, <1>7, <1>11 DEF e

LEMMA LookedType ==
  ASSUME EntriesInv, NEW n \in Agents, NEW held \in SUBSET entries, NEW index
  PROVE  LookedAt(n, held, index) \in MemoType(entries) /\ Indexed(n, held, index) \subseteq held
<1>1. memo[n] \in MemoType(entries) /\ manifest[n] \in Networks \cup {None}
  BY DEF EntriesInv
<1>2. Indexed(n, held, index) \subseteq held
  BY DEF Indexed
<1> DEFINE key == Indexed(n, held, index)
<1> HIDE DEF key
<1>3. key \in SUBSET entries
  BY <1>2 DEF key
<1>4. LookedAt(n, held, index) = IF MemoHit(n, key) THEN memo[n]
                                 ELSE [key |-> key, held |-> held, net |-> manifest[n]]
  BY DEF LookedAt, key
<1>5. LookedAt(n, held, index) \in MemoType(entries)
  BY <1>1, <1>3, <1>4 DEF MemoType
<1> QED
  BY <1>2, <1>5

LEMMA RemembersType ==
  ASSUME EntriesInv, NEW n \in Agents, RemembersView(n), entries \subseteq entries'
  PROVE  memo' \in [Agents -> MemoType(entries')] /\ known' \in [Agents -> SUBSET entries']
<1>1. MemoType(entries) \subseteq MemoType(entries')
  BY DEF MemoType
<1>2. /\ memo \in [Agents -> MemoType(entries)] /\ known \in [Agents -> SUBSET entries]
      /\ have[n] \in SUBSET entries
  BY DEF EntriesInv
<1>3. /\ Looked(n) \in MemoType(entries)
      /\ Indexed(n, have[n], known[n]) \in SUBSET entries
  BY <1>2, LookedType DEF Looked
<1>4. /\ memo' = [memo EXCEPT ![n] = Looked(n)]
      /\ known' = [known EXCEPT ![n] = Indexed(n, have[n], known[n])]
  BY <1>2 DEF RemembersView
<1> QED
  BY <1>1, <1>2, <1>3, <1>4

LEMMA ViewTyped ==
  ASSUME EntriesInv, NEW n \in Agents
  PROVE  Replayed(View(n))
<1>1. Looked(n).held \in SUBSET entries
  BY LookedType DEF Looked, MemoType, EntriesInv
<1> QED
  BY <1>1, WellFormedPart, ReplayTyped DEF View, EntriesInv, EntriesInOrder

LEMMA IntentType ==
  ASSUME EntriesInv, NEW n \in Agents, NEW i \in 1..Len(View(n).purchases)
  PROVE  View(n).purchases[i].hash \in Nat
<1> DEFINE s == View(n).purchases
<1>1. s \in Seq(SeedboxPurchaseIntent)
  BY ViewTyped, StateFields DEF Replayed
<1> HIDE DEF s
<1>2. i \in 1..Len(s)
  BY DEF s
<1>3. s[i] \in SeedboxPurchaseIntent
  BY <1>1, <1>2
<1>4. s[i].hash \in Nat
  BY <1>3 DEF SeedboxPurchaseIntent
<1> QED
  BY <1>4 DEF s

\* What every entry a tool appends carries.
LEMMA ToolsLog ==
  ASSUME EntriesInv, NEW n \in Agents, Tool(n)
  PROVE  \/ UNCHANGED <<entries, have>>
         \/ \E action : \E sats \in Int : \E intent \in Nat :
              /\ Log(n, action, sats, intent)
              /\ action = "donation_intent" => DonateAndJoin(n, sats)
<1>1. CASE Look(n)
  BY <1>1 DEF Look, logs
<1>2. CASE Propose(n)
  <2>1. SeedboxCostSats \in Int
    BY PolicyAssumption
  <2>2. Log(n, "seedbox_purchase_intent", SeedboxCostSats, 0)
    BY <1>2 DEF Propose
  <2> QED
    BY <2>1, <2>2
<1>3. CASE Provisioned(n)
  <2>1. PICK i \in 1..Len(View(n).purchases) :
          Log(n, "seedbox_provisioned", 0, View(n).purchases[i].hash)
    BY <1>3 DEF Provisioned
  <2>2. View(n).purchases[i].hash \in Nat
    BY IntentType
  <2> QED
    BY <2>1, <2>2
<1>4. ASSUME NEW sats \in Sats, DonateAndJoin(n, sats)
      PROVE  \E s \in Int : Log(n, "donation_intent", s, 0) /\ DonateAndJoin(n, s)
  BY <1>4, PolicyAssumption DEF DonateAndJoin
<1>5. ASSUME NEW sats \in Sats, DonateFails(n, sats)
      PROVE  UNCHANGED <<entries, have>>
  BY <1>5 DEF DonateFails, logs
<1> QED
  BY <1>1, <1>2, <1>3, <1>4, <1>5 DEF Tool

LEMMA ToolsRemember ==
  ASSUME NEW n, Tool(n)
  PROVE  RemembersView(n) /\ UNCHANGED <<manifest, lives>>
BY DEF Tool, Look, Propose, Provisioned, DonateAndJoin, DonateFails

LEMMA EntriesInitial == Init => EntriesInv
<1> SUFFICES ASSUME Init PROVE EntriesInv
  OBVIOUS
<1>1. IsFiniteSet(entries) /\ entries = {}
  BY FS_EmptySet DEF Init
<1>2. EntriesInOrder
  BY <1>1 DEF EntriesInOrder, WellFormed
<1> QED
  BY <1>2 DEF Init, EntriesInv, MemoType, Forgotten

LEMMA EntriesInductive ==
  ASSUME EntriesInv, [Next]_vars
  PROVE  EntriesInv'
<1>0. /\ have \in [Agents -> SUBSET entries]
      /\ known \in [Agents -> SUBSET entries]
      /\ manifest \in [Agents -> Networks \cup {None}]
      /\ memo \in [Agents -> MemoType(entries)]
  BY DEF EntriesInv
<1>00. entries' = entries => EntriesInOrder'
  BY DEF EntriesInv, EntriesInOrder, WellFormed, EntryTyped
<1>1. ASSUME NEW n \in Agents, Tool(n)
      PROVE  EntriesInv'
  <2>1. EntriesInOrder' /\ have' \in [Agents -> SUBSET entries'] /\ entries \subseteq entries'
    <3>1. CASE UNCHANGED <<entries, have>>
      BY <1>0, <1>00, <3>1
    <3>2. ASSUME NEW action, NEW sats \in Int, NEW intent \in Nat, Log(n, action, sats, intent)
          PROVE  EntriesInOrder' /\ have' \in [Agents -> SUBSET entries'] /\ entries \subseteq entries'
      BY <3>2, LogAdds
    <3> QED
      BY <1>1, <3>1, <3>2, ToolsLog
  <2>2. memo' \in [Agents -> MemoType(entries')] /\ known' \in [Agents -> SUBSET entries']
    BY <1>1, <2>1, ToolsRemember, RemembersType
  <2> QED
    BY <1>0, <1>1, <2>1, <2>2, ToolsRemember DEF EntriesInv
<1>2. ASSUME NEW n \in Agents, LoadManifest(n)
      PROVE  EntriesInv'
  <2>1. Manifests[n] \subseteq Networks
    BY CommunityAssumption
  <2>2. manifest' \in [Agents -> Networks \cup {None}]
    BY <1>0, <1>2, <2>1 DEF LoadManifest
  <2> QED
    BY <1>0, <1>00, <1>2, <2>2 DEF EntriesInv, LoadManifest, logs
<1>3. ASSUME NEW n \in Agents, Restart(n)
      PROVE  EntriesInv'
  <2>1. /\ manifest' \in [Agents -> Networks \cup {None}] /\ memo' \in [Agents -> MemoType(entries)]
        /\ known' \in [Agents -> SUBSET entries]
    BY <1>0, <1>3 DEF Restart, MemoType, Forgotten
  <2> QED
    BY <1>0, <1>00, <1>3, <2>1 DEF EntriesInv, Restart
<1>4. ASSUME NEW n \in Agents, NEW p \in Agents, NEW e \in LogOf(p), Pull(n, p, e)
      PROVE  EntriesInv'
  <2> DEFINE S == {f \in LogOf(p) : f.hash <= e.hash}
  <2>1. S \in SUBSET entries /\ Stored(n, p, S) \in SUBSET entries
    BY <1>0 DEF LogOf, Stored
  <2>2. /\ have' = [have EXCEPT ![n] = @ \cup S] /\ known' = [known EXCEPT ![n] = Stored(n, p, S)]
        /\ UNCHANGED <<logs, manifest, memo>>
    BY <1>4 DEF Pull
  <2> HIDE DEF S
  <2>3. have' \in [Agents -> SUBSET entries] /\ known' \in [Agents -> SUBSET entries]
    BY <1>0, <2>1, <2>2
  <2> QED
    BY <1>0, <1>00, <2>2, <2>3 DEF EntriesInv, logs
<1>5. ASSUME NEW g \in Agents, NEW n \in Agents, JoinRequest(g, n)
      PROVE  EntriesInv'
  <2>1. PICK e \in LogOf(n) :
          /\ have' = [have EXCEPT ![g] = have[g] \cup {e}]
          /\ memo' = [memo EXCEPT ![g] = LookedAt(g, have[g] \cup {e}, Stored(g, n, {e}))]
          /\ known' = [known EXCEPT ![g] = Indexed(g, have[g] \cup {e}, Stored(g, n, {e}))]
    BY <1>5 DEF JoinRequest
  <2>2. UNCHANGED <<entries, manifest>>
    BY <1>5 DEF JoinRequest, logs
  <2> DEFINE held == have[g] \cup {e}
             index == Stored(g, n, {e})
  <2>3. held \in SUBSET entries
    BY <1>0 DEF LogOf
  <2>4. have' = [have EXCEPT ![g] = held]
    BY <2>1
  <2>5. memo' = [memo EXCEPT ![g] = LookedAt(g, held, index)]
    BY <2>1
  <2>6. known' = [known EXCEPT ![g] = Indexed(g, held, index)]
    BY <2>1
  <2> HIDE DEF held, index
  <2>7. LookedAt(g, held, index) \in MemoType(entries) /\ Indexed(g, held, index) \subseteq held
    BY <2>3, LookedType
  <2>8. /\ have' \in [Agents -> SUBSET entries] /\ known' \in [Agents -> SUBSET entries]
        /\ memo' \in [Agents -> MemoType(entries)]
    BY <1>0, <2>3, <2>4, <2>5, <2>6, <2>7
  <2> QED
    BY <1>0, <1>00, <2>2, <2>8 DEF EntriesInv
<1>6. CASE UNCHANGED vars
  BY <1>0, <1>00, <1>6 DEF EntriesInv, vars
<1>7. ASSUME NEW n \in Agents, NEW p \in Agents, NEW e \in LogOf(p), StoreElsewhere(n, e)
      PROVE  EntriesInv'
  <2>1. e \in entries /\ have' = [have EXCEPT ![n] = @ \cup {e}] /\ UNCHANGED <<logs, known, manifest, memo>>
    BY <1>7 DEF StoreElsewhere, LogOf
  <2>2. have' \in [Agents -> SUBSET entries]
    BY <1>0, <2>1
  <2> QED
    BY <1>0, <1>00, <2>1, <2>2 DEF EntriesInv, logs
<1> QED
  BY <1>1, <1>2, <1>3, <1>4, <1>5, <1>6, <1>7 DEF Next

LEMMA EntriesInvariant == Spec => []EntriesInv
<1>1. EntriesInv /\ [Next]_vars => EntriesInv'
  BY EntriesInductive
<1> QED
  BY EntriesInitial, <1>1, PTL DEF Spec

\* Under one network: an agent is told to load one network only, so that no
\* memo outlives the manifest it was made for.
OneNetwork == \A n \in Agents : \A x, y \in Manifests[n] : x = y

MemoInv ==
  /\ EntriesInv
  /\ \A n \in Agents : manifest[n] # None => manifest[n] \in Manifests[n]
  /\ \A n \in Agents :
       memo[n].net # None =>
         /\ memo[n].net = manifest[n]
         /\ memo[n].key \subseteq memo[n].held /\ memo[n].held \subseteq have[n]

\* What a look at these files shows and remembers.
Covering(m, n, key, held) ==
  m.net = manifest[n] /\ m.key = key /\ key \subseteq m.held /\ m.held \subseteq held

LEMMA LookedCovers ==
  ASSUME MemoInv, NEW n \in Agents, NEW held \in SUBSET entries, have[n] \subseteq held, NEW index
  PROVE  Covering(LookedAt(n, held, index), n, Indexed(n, held, index), held)
<1> DEFINE key == Indexed(n, held, index)
<1>1. memo[n] \in MemoType(entries)
  BY DEF MemoInv, EntriesInv
<1>2. key \subseteq held
  BY DEF Indexed
<1>3. LookedAt(n, held, index) = IF MemoHit(n, key) THEN memo[n]
                                 ELSE [key |-> key, held |-> held, net |-> manifest[n]]
  BY DEF LookedAt
<1> HIDE DEF key
<1>4. CASE MemoHit(n, key)
  <2>1. /\ memo[n].net = manifest[n] /\ memo[n].key = key
        /\ memo[n].key \subseteq memo[n].held /\ memo[n].held \subseteq have[n]
    BY <1>4 DEF MemoHit, MemoInv
  <2> QED
    BY <1>3, <1>4, <2>1 DEF Covering, key
<1>5. CASE ~ MemoHit(n, key)
  BY <1>2, <1>3, <1>5 DEF Covering, key
<1> QED
  BY <1>4, <1>5

LEMMA LookCovers ==
  ASSUME MemoInv, NEW n \in Agents
  PROVE  Covering(Looked(n), n, Indexed(n, have[n], known[n]), have[n])
<1>1. have[n] \in SUBSET entries
  BY DEF MemoInv, EntriesInv
<1> QED
  BY <1>1, LookedCovers DEF Looked

LEMMA MemoInductive ==
  ASSUME OneNetwork, MemoInv, [Next]_vars
  PROVE  MemoInv'
<1> DEFINE Told(n) == manifest[n] # None => manifest[n] \in Manifests[n]
           Keyed(n) == memo[n].net # None =>
                         /\ memo[n].net = manifest[n]
                         /\ memo[n].key \subseteq memo[n].held /\ memo[n].held \subseteq have[n]
<1>0. EntriesInv' /\ EntriesInv
  BY EntriesInductive DEF MemoInv
<1>00. /\ \A n \in Agents : Told(n) /\ Keyed(n)
       /\ DOMAIN memo = Agents /\ DOMAIN manifest = Agents /\ DOMAIN have = Agents
       /\ have \in [Agents -> SUBSET entries]
  BY <1>0 DEF MemoInv, EntriesInv
<1>1. ASSUME NEW n \in Agents, Tool(n), NEW m \in Agents
      PROVE  Told(m)' /\ Keyed(m)'
  <2>1. manifest' = manifest /\ memo' = [memo EXCEPT ![n] = Looked(n)]
    BY <1>1, ToolsRemember DEF RemembersView
  <2>2. have[m] \subseteq have'[m]
    <3>1. CASE UNCHANGED have
      BY <3>1
    <3>2. ASSUME NEW action, NEW sats, NEW intent, Log(n, action, sats, intent)
          PROVE  have[m] \subseteq have'[m]
      <4>1. \E e : have' = [have EXCEPT ![n] = @ \cup {e}]
        BY <3>2 DEF Log
      <4> QED
        BY <1>00, <4>1
    <3> QED
      BY <1>0, <1>1, <3>1, <3>2, ToolsLog
  <2>3. memo'[m] = (IF m = n THEN Looked(n) ELSE memo[m])
    BY <1>00, <2>1
  <2>4. CASE m = n
    <3>1. Covering(Looked(n), n, Indexed(n, have[n], known[n]), have[n])
      BY LookCovers
    <3> QED
      BY <1>00, <2>1, <2>2, <2>3, <2>4, <3>1 DEF Covering
  <2>5. CASE m # n
    BY <1>00, <2>1, <2>2, <2>3, <2>5
  <2> QED
    BY <2>4, <2>5
<1>2. ASSUME NEW n \in Agents, LoadManifest(n), NEW m \in Agents
      PROVE  Told(m)' /\ Keyed(m)'
  <2>1. PICK net \in Manifests[n] \ {manifest[n]} : manifest' = [manifest EXCEPT ![n] = net]
    BY <1>2 DEF LoadManifest
  <2>2. memo' = memo /\ have' = have
    BY <1>2 DEF LoadManifest
  <2>3. manifest[n] = None
    BY <1>00, <2>1 DEF OneNetwork
  <2>4. memo[n].net = None
    BY <1>00, <2>3
  <2> QED
    BY <1>00, <2>1, <2>2, <2>4
<1>3. ASSUME NEW n \in Agents, Restart(n), NEW m \in Agents
      PROVE  Told(m)' /\ Keyed(m)'
  BY <1>00, <1>3 DEF Restart, Forgotten
<1>4. ASSUME NEW m \in Agents, UNCHANGED <<manifest, memo>>, have[m] \subseteq have'[m]
      PROVE  Told(m)' /\ Keyed(m)'
  BY <1>00, <1>4
<1>5. ASSUME NEW g \in Agents, NEW n \in Agents, JoinRequest(g, n), NEW m \in Agents
      PROVE  Told(m)' /\ Keyed(m)'
  <2>1. PICK e \in LogOf(n) :
          /\ have' = [have EXCEPT ![g] = have[g] \cup {e}]
          /\ memo' = [memo EXCEPT ![g] = LookedAt(g, have[g] \cup {e}, Stored(g, n, {e}))]
    BY <1>5 DEF JoinRequest
  <2>2. manifest' = manifest
    BY <1>5 DEF JoinRequest
  <2> DEFINE held == have[g] \cup {e}
             index == Stored(g, n, {e})
  <2>3. held \in SUBSET entries /\ have[g] \subseteq held
    BY <1>00 DEF LogOf
  <2>4. have' = [have EXCEPT ![g] = held] /\ memo' = [memo EXCEPT ![g] = LookedAt(g, held, index)]
    BY <2>1
  <2> HIDE DEF held, index
  <2>5. Covering(LookedAt(g, held, index), g, Indexed(g, held, index), held)
    BY <2>3, LookedCovers
  <2>6. CASE m # g
    BY <1>00, <2>2, <2>4, <2>6
  <2>7. CASE m = g
    BY <1>00, <2>2, <2>4, <2>5, <2>7 DEF Covering
  <2> QED
    BY <2>6, <2>7
<1>6. ASSUME NEW m \in Agents, ~ UNCHANGED vars,
             \A n \in Agents : ~ Tool(n) /\ ~ LoadManifest(n) /\ ~ Restart(n),
             \A g, n \in Agents : ~ JoinRequest(g, n)
      PROVE  UNCHANGED <<manifest, memo>> /\ have[m] \subseteq have'[m]
  <2>1. PICK n \in Agents, p \in Agents : \E e \in LogOf(p) : Pull(n, p, e) \/ StoreElsewhere(n, e)
    BY <1>6 DEF Next
  <2>2. UNCHANGED <<manifest, memo>> /\ \E S : have' = [have EXCEPT ![n] = @ \cup S]
    BY <2>1 DEF Pull, StoreElsewhere
  <2> QED
    BY <1>00, <2>2
<1>7. \A m \in Agents : Told(m)' /\ Keyed(m)'
  <2> SUFFICES ASSUME NEW m \in Agents
               PROVE  Told(m)' /\ Keyed(m)'
    OBVIOUS
  <2>1. CASE UNCHANGED vars
    BY <1>4, <2>1 DEF vars
  <2> HIDE DEF Told, Keyed
  <2> QED
    BY <1>1, <1>2, <1>3, <1>4, <1>5, <1>6, <2>1
<1> QED
  BY <1>0, <1>7 DEF MemoInv

LEMMA MemoInitial == Init => MemoInv
BY EntriesInitial DEF Init, MemoInv, Forgotten

\* As long as no agent is told of a second network, the state its tools work on
\* is of the network loaded and has all that stands in the own log and in the
\* index of the runtime's PeerLog, and only what is in the files, whatever other
\* PeerLog objects store meanwhile (runtime.py:472-480); that it need not have
\* what these stored shows the run memo_other_store.  A second network would be
\* shown as the first, as load_manifest does not clear the memo (runtime.py:374).
THEOREM MemoCoversIndex ==
  ASSUME OneNetwork
  PROVE  Spec => []MemoCovers
<1>1. MemoInv /\ [Next]_vars => MemoInv'
  BY MemoInductive
<1>2. MemoInv => MemoCovers
  BY LookCovers DEF MemoCovers, Covering
<1> QED
  BY MemoInitial, <1>1, <1>2, PTL DEF Spec

\* Under the same condition a donation its author's tool let through admits the
\* author in the state the checks were made on, wherever the clocks file it among
\* the entries of that state (tools.py:282-292): those before it only leave it
\* more room than those checked.
THEOREM DonorsAdmitThemselves ==
  ASSUME OneNetwork
  PROVE  Spec => OwnDonationAdmits
<1> DEFINE Admits ==
             \A e \in entries' \ entries :
               e.action = "donation_intent" =>
                 e.reporter \in Replay(e.net, memo'[e.reporter].held \cup {e}).members
<1>1. ASSUME MemoInv, NEW n \in Agents, NEW sats \in Int, DonateAndJoin(n, sats)
      PROVE  Admits
  <2> DEFINE e == NewEntry(n, "donation_intent", sats, 0)
             net == manifest[n]
  <2>1. Log(n, "donation_intent", sats, 0) /\ MayDonate(n, sats)
    BY <1>1 DEF DonateAndJoin
  <2>2. entries' = entries \cup {e} /\ e \notin entries /\ WellFormed(entries')
    BY <1>1, <2>1, LogAdds DEF MemoInv, EntriesInOrder
  <2>3. e.reporter = n /\ e.net = net /\ e.action = "donation_intent" /\ e.shape /\ e.sats = sats
    BY DEF NewEntry
  <2> HIDE DEF e
  <2> DEFINE E == Looked(n).held
  <2>4. E \in SUBSET entries /\ View(n) = Replay(net, E) /\ memo'[n].held = E
    <3>1. Covering(Looked(n), n, Indexed(n, have[n], known[n]), have[n]) /\ have[n] \in SUBSET entries
      BY <1>1, LookCovers DEF MemoInv, EntriesInv
    <3>2. memo' = [memo EXCEPT ![n] = Looked(n)] /\ DOMAIN memo = Agents
      BY <1>1 DEF DonateAndJoin, RemembersView, MemoInv, EntriesInv
    <3>3. memo'[n] = Looked(n)
      BY <3>2
    <3> QED
      BY <3>1, <3>3 DEF View, Covering
  <2> HIDE DEF E
  <2>5. ValidDonation(Replay(net, E), e)
    BY <2>1, <2>3, <2>4 DEF MayDonate, ValidDonation
  <2>6. Relevant(net, e)
    BY <2>3 DEF Relevant, CommunityActions
  <2>7. WellFormed(E \cup {e}) /\ e \notin E
    BY <2>2, <2>4, WellFormedPart
  <2>8. e.reporter \in Replay(net, E \cup {e}).members
    <3> HIDE DEF net
    <3> QED
      BY <2>3, <2>5, <2>6, <2>7, DonationAccepted
  <2> QED
    BY <2>2, <2>3, <2>4, <2>8
<1>2. ASSUME MemoInv, NEW n \in Agents, Tool(n)
      PROVE  Admits
  <2>1. CASE UNCHANGED <<entries, have>>
    BY <2>1
  <2>2. ASSUME NEW action, NEW sats \in Int, NEW intent \in Nat, Log(n, action, sats, intent),
               action # "donation_intent"
        PROVE  Admits
    <3>1. NewEntry(n, action, sats, intent).action # "donation_intent"
      BY <2>2 DEF NewEntry
    <3>2. entries' = entries \cup {NewEntry(n, action, sats, intent)}
      BY <1>2, <2>2, LogAdds DEF MemoInv
    <3> QED
      BY <3>1, <3>2
  <2> HIDE DEF Admits
  <2> QED
    BY <1>1, <1>2, <2>1, <2>2, ToolsLog DEF MemoInv
<1>3. MemoInv /\ [Next]_vars => [Admits]_vars
  <2> SUFFICES ASSUME MemoInv, [Next]_vars, ~ UNCHANGED vars
               PROVE  Admits
    OBVIOUS
  <2>1. (\E n \in Agents : Tool(n)) \/ entries' = entries
    BY DEF Next, LoadManifest, Restart, Pull, StoreElsewhere, JoinRequest, logs
  <2> QED
    BY <1>2, <2>1
<1>4. MemoInv /\ [Next]_vars => MemoInv'
  BY MemoInductive
<1>5. Spec => [][Admits]_vars
  BY MemoInitial, <1>3, <1>4, PTL DEF Spec
<1> QED
  BY <1>5 DEF OwnDonationAdmits

---------------------------------------------------------------------------
\* What the agents' donations come to, as a recursion over the subsets of a
\* set of entries, whatever order its elements are added in.

AnyOf(E, w) == CHOOSE e \in E : TRUE
AddSats(sum, e, w) == e.sats + sum
Sums == INSTANCE Recursion WITH Base <- 0, Pick <- AnyOf, Step <- AddSats

SatsOf(E) == Sums!Value(E, None)

LEMMA SumIs ==
  ASSUME NEW E
  PROVE  MapThenSumSet(LAMBDA e : e.sats, E) = SatsOf(E)
BY DEF MapThenSumSet, MapThenFoldSet, SatsOf, Sums!Value, Sums!Recursive, AddSats, AnyOf

Counted(E) == IsFiniteSet(E) /\ \A e \in E : e.sats \in Int

LEMMA SumsFinite == \A S : IsFiniteSet(S) <=> Sums!IsFiniteSet(S)
BY DEF IsFiniteSet, Sums!IsFiniteSet

LEMMA SumNone == SatsOf({}) = 0
BY Sums!Empty DEF SatsOf

LEMMA SumLast ==
  ASSUME NEW E, IsFiniteSet(E), E # {}
  PROVE  \E l \in E : SatsOf(E) = l.sats + SatsOf(E \ {l})
<1> DEFINE l == AnyOf(E, None)
           C == E \ {AnyOf(E, None)}
<1>1. \A D : D # {} => AnyOf(D, None) \in D
  BY DEF AnyOf
<1>2. Sums!Picks(E, None) /\ Sums!IsFiniteSet(E)
  BY <1>1, SumsFinite DEF Sums!Picks
<1>3. C = E \ {AnyOf(E, None)}
  OBVIOUS
<1> HIDE DEF C
<1>4. Sums!Value(E, None) = AddSats(Sums!Value(C, None), AnyOf(E, None), None)
  BY <1>2, <1>3, Sums!OneMore
<1> QED
  BY <1>1, <1>4 DEF SatsOf, AddSats, C

LEMMA SumType ==
  ASSUME NEW E, Counted(E)
  PROVE  SatsOf(E) \in Int
<1> DEFINE Bad == {D \in SUBSET E : SatsOf(D) \notin Int}
<1>1. ASSUME Bad # {}
      PROVE  FALSE
  <2>1. PICK D \in Bad : \A C \in Bad : C \subseteq D => C = D
    <3>1. Bad \subseteq SUBSET E /\ Sums!IsFiniteSet(E)
      BY SumsFinite DEF Counted
    <3> HIDE DEF Bad
    <3> QED
      BY <1>1, <3>1, Sums!Smallest
  <2>2. IsFiniteSet(D) /\ D \in SUBSET E
    BY <2>1, FS_Subset DEF Counted
  <2>3. D # {}
    <3>1. SatsOf(D) \notin Int
      BY <2>1
    <3>2. SatsOf({}) \in Int
      BY SumNone
    <3> QED
      BY <3>1, <3>2
  <2>4. PICK l \in D : SatsOf(D) = l.sats + SatsOf(D \ {l})
    BY <2>2, <2>3, SumLast
  <2>5. SatsOf(D \ {l}) \in Int
    BY <2>1, <2>4
  <2>6. l.sats \in Int
    BY <2>2, <2>4 DEF Counted
  <2> QED
    BY <2>1, <2>4, <2>5, <2>6
<1> QED
  BY <1>1

\* Any element may be counted last.
LEMMA SumAny ==
  ASSUME NEW E, Counted(E), NEW x \in E
  PROVE  SatsOf(E) = x.sats + SatsOf(E \ {x})
<1> DEFINE Good(D) == \A y \in D : SatsOf(D) = y.sats + SatsOf(D \ {y})
           Bad == {D \in SUBSET E : ~ Good(D)}
<1>1. ASSUME Bad # {}
      PROVE  FALSE
  <2>1. PICK D \in Bad : \A C \in Bad : C \subseteq D => C = D
    <3>1. Bad \subseteq SUBSET E /\ Sums!IsFiniteSet(E)
      BY SumsFinite DEF Counted
    <3> HIDE DEF Bad
    <3> QED
      BY <1>1, <3>1, Sums!Smallest
  <2>2. IsFiniteSet(D) /\ D \in SUBSET E
    BY <2>1, FS_Subset DEF Counted
  <2>3. PICK y \in D : SatsOf(D) # y.sats + SatsOf(D \ {y})
    BY <2>1
  <2>4. PICK l \in D : SatsOf(D) = l.sats + SatsOf(D \ {l})
    BY <2>2, <2>3, SumLast
  <2>5. l # y
    BY <2>3, <2>4
  <2> DEFINE C == D \ {l}
             B == D \ {y}
             A == (D \ {l}) \ {y}
  <2>6. A = B \ {l} /\ y \in C /\ l \in B
    BY <2>3, <2>4, <2>5
  <2>7. Good(C) /\ Good(B)
    <3>1. C \in SUBSET E /\ C \subseteq D /\ C # D /\ B \in SUBSET E /\ B \subseteq D /\ B # D
      BY <2>2, <2>3, <2>4
    <3> HIDE DEF Good, C, B
    <3> QED
      BY <2>1, <3>1
  <2>8. SatsOf(C) = y.sats + SatsOf(A) /\ SatsOf(B) = l.sats + SatsOf(A)
    BY <2>6, <2>7
  <2>9. SatsOf(A) \in Int /\ y.sats \in Int /\ l.sats \in Int
    <3>1. Counted(A)
      BY <2>2, FS_Subset DEF Counted
    <3>2. y \in E /\ l \in E
      BY <2>2, <2>3, <2>4
    <3> HIDE DEF A
    <3> QED
      BY <3>1, <3>2, SumType DEF Counted
  <2> HIDE DEF A, B, C
  <2>10. SatsOf(D) = l.sats + SatsOf(C) /\ SatsOf(D) # y.sats + SatsOf(B)
    BY <2>3, <2>4 DEF B, C
  <2> QED
    BY <2>8, <2>9, <2>10
<1>2. E \notin Bad
  BY <1>1
<1>3. Good(E)
  BY <1>2
<1> QED
  BY <1>3

\* What each agent donated, in all its lives.
Donated(n) == {e \in LogOf(n) : e.action = "donation_intent"}

PaidInv ==
  /\ EntriesInv
  /\ spent \in [Agents -> Int]
  /\ earlier \in [Agents -> Int]
  /\ \A n \in Agents : SatsOf(Donated(n)) <= earlier[n] + spent[n]
  /\ InitialSats > 0 => \A n \in Agents : spent[n] <= InitialSats

LEMMA DonatedType ==
  ASSUME EntriesInv, NEW n
  PROVE  Counted(Donated(n)) /\ SatsOf(Donated(n)) \in Int
<1>1. Donated(n) \in SUBSET entries
  BY DEF Donated, LogOf
<1>2. Counted(Donated(n))
  BY <1>1, FS_Subset DEF EntriesInv, EntriesInOrder, WellFormed, EntryTyped, Counted
<1> QED
  BY <1>2, SumType

\* An entry a tool appends adds its amount to what its author donated, or
\* nothing.
LEMMA LogDonates ==
  ASSUME EntriesInv, NEW n \in Agents, NEW action, NEW sats \in Int, NEW intent \in Nat,
         Log(n, action, sats, intent), NEW m \in Agents
  PROVE  SatsOf(Donated(m)') = SatsOf(Donated(m)) +
           (IF m = n /\ action = "donation_intent" THEN sats ELSE 0)
<1> DEFINE e == NewEntry(n, action, sats, intent)
<1>1. /\ entries' = entries \cup {e} /\ e \notin entries
      /\ EntriesInOrder'
  BY LogAdds
<1>2. e.reporter = n /\ e.action = action /\ e.sats = sats
  BY DEF NewEntry
<1> HIDE DEF e
<1>3. Donated(m)' = {f \in entries' : f.reporter = m /\ f.action = "donation_intent"}
  BY DEF Donated, LogOf
<1>4. Donated(m) = {f \in entries : f.reporter = m /\ f.action = "donation_intent"}
  BY DEF Donated, LogOf
<1>5. SatsOf(Donated(m)) \in Int
  BY DonatedType
<1>6. CASE m = n /\ action = "donation_intent"
  <2> DEFINE D == Donated(m)'
  <2>1. e \in D /\ Donated(m) = D \ {e}
    BY <1>1, <1>2, <1>3, <1>4, <1>6
  <2>2. Counted(D)
    <3>1. D \in SUBSET entries'
      BY <1>3
    <3>2. IsFiniteSet(entries') /\ \A f \in entries' : f.sats \in Int
      BY <1>1 DEF EntriesInOrder, WellFormed, EntryTyped
    <3> HIDE DEF D
    <3> QED
      BY <3>1, <3>2, FS_Subset DEF Counted
  <2> HIDE DEF D
  <2>3. SatsOf(D) = e.sats + SatsOf(D \ {e})
    BY <2>1, <2>2, SumAny
  <2> QED
    BY <1>2, <1>5, <1>6, <2>1, <2>3 DEF D
<1>7. CASE ~ (m = n /\ action = "donation_intent")
  <2>1. Donated(m)' = Donated(m)
    BY <1>1, <1>2, <1>3, <1>4, <1>7
  <2> QED
    BY <1>5, <1>7, <2>1
<1> QED
  BY <1>6, <1>7

LEMMA PaidInitial == Init => PaidInv
<1> SUFFICES ASSUME Init PROVE PaidInv
  OBVIOUS
<1>1. \A n : Donated(n) = {}
  BY DEF Init, Donated, LogOf
<1>2. \A n \in Agents : SatsOf(Donated(n)) <= earlier[n] + spent[n]
  BY <1>1, SumNone DEF Init
<1>3. InitialSats \in Nat
  BY CommunityAssumption
<1> QED
  BY <1>2, <1>3, EntriesInitial DEF Init, PaidInv

LEMMA PaidInductive ==
  ASSUME PaidInv, [Next]_vars
  PROVE  PaidInv'
<1> DEFINE Paid(m) == SatsOf(Donated(m)) <= earlier[m] + spent[m]
           Within(m) == InitialSats > 0 => spent[m] <= InitialSats
           Kept == /\ spent' \in [Agents -> Int] /\ earlier' \in [Agents -> Int]
                   /\ \A m \in Agents : Paid(m)' /\ Within(m)'
<1>0. /\ spent \in [Agents -> Int] /\ earlier \in [Agents -> Int]
      /\ \A m \in Agents : Paid(m) /\ Within(m) /\ SatsOf(Donated(m)) \in Int
      /\ EntriesInv
  BY DonatedType DEF PaidInv
<1>1. ASSUME UNCHANGED <<entries, spent, earlier>>
      PROVE  Kept
  <2>1. \A m : Donated(m)' = Donated(m)
    BY <1>1 DEF Donated, LogOf
  <2> QED
    BY <1>0, <1>1, <2>1
<1>2. ASSUME NEW n \in Agents, NEW sats \in Sats, Send(n, sats), sats >= MinSats,
             UNCHANGED earlier,
             \A m \in Agents : SatsOf(Donated(m)') <=
                                SatsOf(Donated(m)) + (IF m = n THEN sats ELSE 0),
             \A m \in Agents : SatsOf(Donated(m)') \in Int
      PROVE  Kept
  <2>1. sats \in Int /\ InitialSats \in Int
    BY PolicyAssumption, CommunityAssumption
  <2>2. spent' = [spent EXCEPT ![n] = @ + sats] /\ (InitialSats > 0 => sats <= InitialSats - spent[n])
    BY <1>2 DEF Send
  <2>3. ASSUME NEW m \in Agents
        PROVE  spent'[m] = spent[m] + (IF m = n THEN sats ELSE 0) /\ spent'[m] \in Int
    BY <1>0, <2>1, <2>2
  <2>4. spent' \in [Agents -> Int] /\ earlier' \in [Agents -> Int]
    BY <1>0, <1>2, <2>1, <2>2
  <2>5. ASSUME NEW m \in Agents
        PROVE  Within(m)'
    BY <1>0, <2>1, <2>2, <2>3
  <2>6. ASSUME NEW m \in Agents
        PROVE  Paid(m)'
    <3> DEFINE x == IF m = n THEN sats ELSE 0
               old == SatsOf(Donated(m))
               new == SatsOf(Donated(m)')
    <3>1. new <= old + x /\ spent'[m] = spent[m] + x /\ old <= earlier[m] + spent[m]
      BY <1>0, <1>2, <2>3
    <3>2. new \in Int /\ old \in Int /\ x \in Int /\ earlier[m] \in Int /\ spent[m] \in Int
      BY <1>0, <1>2, <2>1
    <3> HIDE DEF x, old, new
    <3>3. new <= earlier[m] + spent'[m]
      BY <3>1, <3>2
    <3> QED
      BY <1>2, <3>3 DEF new
  <2> QED
    BY <2>4, <2>5, <2>6
<1>3. ASSUME NEW n \in Agents, Tool(n)
      PROVE  Kept
  <2>1. CASE Look(n)
    BY <1>1, <2>1 DEF Look, lives, logs
  <2>2. CASE Propose(n)
    <3>1. Log(n, "seedbox_purchase_intent", SeedboxCostSats, 0) /\ SeedboxCostSats \in Int
      BY <2>2, PolicyAssumption DEF Propose
    <3>2. \A m \in Agents : SatsOf(Donated(m)') = SatsOf(Donated(m))
      BY <1>0, <3>1, LogDonates
    <3> QED
      BY <1>0, <2>2, <3>2 DEF Propose, lives
  <2>3. CASE Provisioned(n)
    <3>1. PICK i \in 1..Len(View(n).purchases) :
            Log(n, "seedbox_provisioned", 0, View(n).purchases[i].hash)
      BY <2>3 DEF Provisioned
    <3>2. View(n).purchases[i].hash \in Nat
      BY <1>0, IntentType
    <3>3. \A m \in Agents : SatsOf(Donated(m)') = SatsOf(Donated(m))
      BY <1>0, <3>1, <3>2, LogDonates
    <3> QED
      BY <1>0, <2>3, <3>3 DEF Provisioned, lives
  <2>4. ASSUME NEW sats \in Sats, DonateAndJoin(n, sats)
        PROVE  Kept
    <3>1. /\ Log(n, "donation_intent", sats, 0) /\ Send(n, sats) /\ sats >= MinSats
          /\ UNCHANGED earlier /\ sats \in Int
      BY <2>4, PolicyAssumption DEF DonateAndJoin, MayDonate, lives
    <3>2. \A m \in Agents : SatsOf(Donated(m)') = SatsOf(Donated(m)) + (IF m = n THEN sats ELSE 0)
      BY <1>0, <3>1, LogDonates
    <3>3. \A m \in Agents :
            /\ SatsOf(Donated(m)') \in Int
            /\ SatsOf(Donated(m)') <= SatsOf(Donated(m)) + (IF m = n THEN sats ELSE 0)
      BY <1>0, <3>1, <3>2
    <3> QED
      BY <1>2, <3>1, <3>3
  <2>5. ASSUME NEW sats \in Sats, DonateFails(n, sats)
        PROVE  Kept
    <3>1. /\ Send(n, sats) /\ sats >= MinSats /\ sats \in Int /\ MinSats \in Nat
          /\ UNCHANGED <<earlier, entries>>
      BY <2>5, PolicyAssumption DEF DonateFails, MayDonate, lives, logs
    <3>2. \A m \in Agents : Donated(m)' = Donated(m)
      BY <3>1 DEF Donated, LogOf
    <3>3. \A m \in Agents :
            /\ SatsOf(Donated(m)') \in Int
            /\ SatsOf(Donated(m)') <= SatsOf(Donated(m)) + (IF m = n THEN sats ELSE 0)
      BY <1>0, <3>1, <3>2
    <3> QED
      BY <1>2, <3>1, <3>3
  <2> HIDE DEF Kept
  <2> QED
    BY <1>3, <2>1, <2>2, <2>3, <2>4, <2>5 DEF Tool
<1>4. ASSUME NEW n \in Agents, Restart(n)
      PROVE  Kept
  <2>1. /\ spent' = [spent EXCEPT ![n] = 0] /\ earlier' = [earlier EXCEPT ![n] = @ + spent[n]]
        /\ entries' = entries
    BY <1>4 DEF Restart
  <2>2. \A m : Donated(m)' = Donated(m)
    BY <2>1 DEF Donated, LogOf
  <2>3. InitialSats \in Nat
    BY CommunityAssumption
  <2>4. \A m \in Agents : earlier'[m] + spent'[m] = earlier[m] + spent[m]
    BY <1>0, <2>1
  <2>5. \A m \in Agents : Within(m)'
    BY <1>0, <2>1, <2>3
  <2>6. spent' \in [Agents -> Int] /\ earlier' \in [Agents -> Int]
    BY <1>0, <2>1
  <2> QED
    BY <1>0, <2>2, <2>4, <2>5, <2>6
<1>5. Kept
  <2>1. \/ \E n \in Agents : Tool(n) \/ Restart(n)
        \/ UNCHANGED <<entries, spent, earlier>>
    BY DEF Next, LoadManifest, Pull, StoreElsewhere, JoinRequest, lives, logs, vars
  <2> HIDE DEF Kept
  <2> QED
    BY <1>1, <1>3, <1>4, <2>1
<1> QED
  BY <1>5, EntriesInductive DEF PaidInv

\* No donation reaches a log unpaid, and no wallet pays more in one life than
\* it was given (tools.py:294-300).
THEOREM NoUnpaidDonation == Spec => []DonationsPaid
<1>1. PaidInv /\ [Next]_vars => PaidInv'
  BY PaidInductive
<1>2. PaidInv => DonationsPaid
  <2> SUFFICES ASSUME PaidInv, NEW n \in Agents
               PROVE  /\ MapThenSumSet(LAMBDA e : e.sats, Donated(n)) <= earlier[n] + spent[n]
                      /\ InitialSats > 0 => spent[n] <= InitialSats
    BY DEF DonationsPaid, Donated
  <2> QED
    BY SumIs DEF PaidInv
<1> QED
  BY PaidInitial, <1>1, <1>2, PTL DEF Spec
=============================================================================

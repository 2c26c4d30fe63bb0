------------------------ MODULE AgentServicesProofs ------------------------
(***************************************************************************)
(* Proofs about the wire under the tools of the agents, for any number of  *)
(* nodes, requests, restarts and datagrams.                                *)
(*                                                                         *)
(* Three facts carry them: a slot of the pending dicts names a future of   *)
(* its own key (PendingInv), a datagram that was ever sent says what its   *)
(* sender was entitled to say (MessageSound), and neither the verdicts nor *)
(* the ledger it refers to ever shrink.                                    *)
(*                                                                         *)
(* Then the manifest the nodes start from: one that parses has a policy    *)
(* the community's rules are sound for, and the one that scenario_boot     *)
(* writes parses.  Last, the overlays: what went through the gates of the  *)
(* compiler packs alike on every node.                                     *)
(***************************************************************************)
EXTENDS AgentServices, ScenarioBoot, SequenceTheorems, WellFoundedInduction, TLAPS

Answers == BOOLEAN \cup Overlays \cup ManifestIds \cup {None}
States == {"waiting", "answered", "timed_out", "died"}
Wait ==
  [node : Nodes, kind : JoinKinds \cup FetchKinds,
   of : Nodes \cup Overlays \cup ManifestIds, state : States, answer : Answers]

WaitsInv ==
  /\ waits \in Seq(Wait)
  /\ \A w \in DOMAIN waits :
       <<waits[w].kind, waits[w].of>> \in Keys

PendingInv ==
  /\ pending \in [Nodes -> [Keys -> Nat]]
  /\ \A n \in Nodes, k \in Keys :
       pending[n][k] # 0 =>
         /\ pending[n][k] \in DOMAIN waits
         /\ waits[pending[n][k]].node = n
         /\ <<waits[pending[n][k]].kind, waits[pending[n][k]].of>> = k

FuturesInv ==
  /\ WaitsInv /\ PendingInv
  /\ AcceptedByTheOneAsked /\ FetchedWhatWasAsked /\ NewestWaiterReachable

\* What a datagram says was so when it was sent, and still is.
MessageSound(m) ==
  /\ m.from \in Nodes /\ m.to \in Nodes
  /\ m.type = "request" =>
       /\ m.kind = "join" => m.body \in ledger /\ m.body.from = m.from
       /\ m.kind \in FetchKinds => <<m.kind, m.body>> \in Keys
  /\ m.type = "response" =>
       /\ m.kind \in JoinKinds /\ m.body \in BOOLEAN
       /\ m.body = TRUE => <<m.from, m.kind, m.to>> \in accepted
  /\ m.type = "delivery" =>
       /\ m.kind \in FetchKinds /\ <<m.kind, m.body[1]>> \in Keys

WireInv == \A m \in wire : MessageSound(m)

Tools ==
  {"donate_and_join", "join_via_peer", "network_join", "fetch_and_load", "fetch_manifest"}
CallRecord ==
  [node : Nodes, tool : Tools, peer : Nodes,
   left : Seq(Overlays), wait : Nat, ended : BOOLEAN]
CallsInv == calls \in Seq(CallRecord)

LedgerInv ==
  /\ \A tx \in ledger : tx.enough \in BOOLEAN /\ tx = Donation(tx.from, tx.to, tx.enough)
  /\ AdmittedByDonation

ServicesInv == FuturesInv /\ WireInv /\ CallsInv /\ LedgerInv

---------------------------------------------------------------------------
\* Futures.

LEMMA KeyFacts ==
  /\ \A kind, x : <<kind, x>> \in Keys =>
       /\ kind \in JoinKinds \cup FetchKinds
       /\ x \in Nodes \cup Overlays \cup ManifestIds
       /\ kind \in JoinKinds => x \in Nodes
       /\ kind = "overlay" => x \in Overlays
       /\ kind = "manifest" => x \in ManifestIds
  /\ \A kind \in JoinKinds, x \in Nodes : <<kind, x>> \in Keys
  /\ \A x \in Overlays : <<"overlay", x>> \in Keys
  /\ \A x \in ManifestIds : <<"manifest", x>> \in Keys
BY DEF Keys, JoinKinds, FetchKinds

LEMMA WaitFacts ==
  ASSUME FuturesInv, NEW w \in DOMAIN waits
  PROVE  /\ waits[w] \in Wait
         /\ waits[w].node \in Nodes /\ <<waits[w].kind, waits[w].of>> \in Keys
         /\ w \in Nat /\ w # 0
<1>1. waits \in Seq(Wait)
  BY DEF FuturesInv, WaitsInv
<1>2. waits[w] \in Wait /\ w \in Nat /\ w # 0
  BY <1>1
<1> QED
  BY <1>2 DEF Wait, FuturesInv, WaitsInv

\* What is known of a slot needs only the owners and keys of the futures.
LEMMA SlotsKeep ==
  ASSUME PendingInv, DOMAIN waits' = DOMAIN waits,
         \A v \in DOMAIN waits :
           /\ waits'[v].node = waits[v].node /\ waits'[v].kind = waits[v].kind
           /\ waits'[v].of = waits[v].of,
         pending' \in [Nodes -> [Keys -> Nat]],
         \A p \in Nodes, k \in Keys :
           pending'[p][k] = 0 \/ pending'[p][k] = pending[p][k]
  PROVE  PendingInv'
<1> SUFFICES ASSUME NEW p \in Nodes, NEW k \in Keys, pending'[p][k] # 0
             PROVE  /\ pending'[p][k] \in DOMAIN waits'
                    /\ waits'[pending'[p][k]].node = p
                    /\ <<waits'[pending'[p][k]].kind, waits'[pending'[p][k]].of>> = k
  BY DEF PendingInv
<1>1. pending'[p][k] = pending[p][k] /\ pending[p][k] # 0
  OBVIOUS
<1> QED
  BY <1>1 DEF PendingInv

LEMMA AwaitKeeps ==
  ASSUME FuturesInv, NEW n \in Nodes, NEW kind, NEW x, <<kind, x>> \in Keys,
         Await(n, kind, x), UNCHANGED accepted
  PROVE  FuturesInv'
<1> DEFINE new == [node |-> n, kind |-> kind, of |-> x,
                   state |-> "waiting", answer |-> None]
<1>1. waits \in Seq(Wait) /\ Len(waits) \in Nat
  BY DEF FuturesInv, WaitsInv
<1>2. new \in Wait
  BY KeyFacts DEF Wait, States, Answers
<1>3. /\ waits' \in Seq(Wait)
      /\ Len(waits') = Len(waits) + 1
      /\ \A w \in DOMAIN waits : w \in DOMAIN waits' /\ waits'[w] = waits[w]
      /\ waits'[Len(waits) + 1] = new
      /\ \A w \in DOMAIN waits' : w \in DOMAIN waits \/ w = Len(waits) + 1
  BY <1>1, <1>2 DEF Await
<1>4. None # TRUE
  BY WireAssumption
<1>5. WaitsInv'
  <2>1. <<waits'[Len(waits) + 1].kind, waits'[Len(waits) + 1].of>> \in Keys
    BY <1>3
  <2> QED
    BY <1>3, <2>1 DEF WaitsInv, FuturesInv
<1>6. pending' \in [Nodes -> [Keys -> Nat]]
  BY <1>1 DEF Await, FuturesInv, PendingInv
<1>7. PendingInv'
  <2> SUFFICES ASSUME NEW p \in Nodes, NEW k \in Keys, pending'[p][k] # 0
               PROVE  /\ pending'[p][k] \in DOMAIN waits'
                      /\ waits'[pending'[p][k]].node = p
                      /\ <<waits'[pending'[p][k]].kind, waits'[pending'[p][k]].of>> = k
    BY <1>6 DEF PendingInv
  <2>1. CASE p = n /\ k = <<kind, x>>
    <3>1. pending'[p][k] = Len(waits) + 1
      BY <2>1 DEF Await, FuturesInv, PendingInv
    <3>2. Len(waits) + 1 \in DOMAIN waits'
      BY <1>1, <1>3
    <3> QED
      BY <2>1, <3>1, <3>2, <1>3
  <2>2. CASE ~ (p = n /\ k = <<kind, x>>)
    <3>1. pending'[p][k] = pending[p][k]
      BY <2>2 DEF Await, FuturesInv, PendingInv
    <3> QED
      BY <3>1, <1>3 DEF FuturesInv, PendingInv
  <2> QED
    BY <2>1, <2>2
<1>8. AcceptedByTheOneAsked'
  <2> SUFFICES ASSUME NEW w \in DOMAIN waits', waits'[w].kind \in JoinKinds,
                      waits'[w].answer = TRUE
               PROVE  <<waits'[w].of, waits'[w].kind, waits'[w].node>> \in accepted
    BY DEF AcceptedByTheOneAsked
  <2>1. w # Len(waits) + 1
    <3>1. new.answer = None
      OBVIOUS
    <3> QED
      BY <1>3, <1>4, <3>1
  <2>2. w \in DOMAIN waits /\ waits'[w] = waits[w]
    BY <1>3, <2>1
  <2> QED
    BY <2>2 DEF AcceptedByTheOneAsked, FuturesInv
<1>9. FetchedWhatWasAsked'
  BY <1>3 DEF FetchedWhatWasAsked, FuturesInv
<1>10. NewestWaiterReachable'
  <2> SUFFICES ASSUME NEW w \in DOMAIN waits', waits'[w].state = "waiting",
                      \A v \in DOMAIN waits' :
                        v > w => waits'[v].node # waits'[w].node
                                   \/ <<waits'[v].kind, waits'[v].of>>
                                        # <<waits'[w].kind, waits'[w].of>>
               PROVE  pending'[waits'[w].node][<<waits'[w].kind, waits'[w].of>>] = w
    BY DEF NewestWaiterReachable
  <2>1. CASE w = Len(waits) + 1
    <3>1. waits'[w].node = n /\ waits'[w].kind = kind /\ waits'[w].of = x
      BY <1>3, <2>1
    <3>2. pending'[n][<<kind, x>>] = Len(waits) + 1
      BY DEF Await, FuturesInv, PendingInv
    <3> QED
      BY <2>1, <3>1, <3>2
  <2>2. CASE w \in DOMAIN waits
    <3>1. Len(waits) + 1 \in DOMAIN waits' /\ Len(waits) + 1 > w
      BY <1>1, <1>3, <2>2
    <3>2. waits[w].node # n \/ <<waits[w].kind, waits[w].of>> # <<kind, x>>
      BY <1>3, <2>2, <3>1
    <3>3. pending[waits[w].node][<<waits[w].kind, waits[w].of>>] = w
      <4>1. waits'[w] = waits[w]
        BY <1>3, <2>2
      <4>2. ASSUME NEW v \in DOMAIN waits, v > w
            PROVE  waits[v].node # waits[w].node
                     \/ <<waits[v].kind, waits[v].of>> # <<waits[w].kind, waits[w].of>>
        <5>1. v \in DOMAIN waits' /\ waits'[v] = waits[v]
          BY <1>3
        <5> QED
          BY <4>1, <4>2, <5>1
      <4>3. waits[w].state = "waiting"
        BY <4>1
      <4> QED
        BY <2>2, <4>2, <4>3 DEF FuturesInv, NewestWaiterReachable
    <3>4. pending'[waits[w].node][<<waits[w].kind, waits[w].of>>]
            = pending[waits[w].node][<<waits[w].kind, waits[w].of>>]
      BY <1>1, <2>2, <3>2 DEF Await, FuturesInv, PendingInv
    <3> QED
      BY <1>3, <2>2, <3>3, <3>4
  <2> QED
    BY <1>3, <2>1, <2>2
<1> QED
  BY <1>5, <1>7, <1>8, <1>9, <1>10 DEF FuturesInv

LEMMA ReplaceOne ==
  ASSUME NEW S, NEW s \in Seq(S), NEW i \in DOMAIN s, NEW r \in S
  PROVE  /\ [s EXCEPT ![i] = r] \in Seq(S)
         /\ DOMAIN [s EXCEPT ![i] = r] = DOMAIN s
         /\ [s EXCEPT ![i] = r][i] = r
         /\ \A k \in DOMAIN s : k # i => [s EXCEPT ![i] = r][k] = s[k]
OBVIOUS

LEMMA ResolveKeeps ==
  ASSUME FuturesInv, NEW n \in Nodes, NEW kind, NEW x, <<kind, x>> \in Keys,
         NEW answer \in Answers, Resolve(n, kind, x, answer),
         kind \in JoinKinds /\ answer = TRUE => <<x, kind, n>> \in accepted,
         kind \in FetchKinds => answer = x,
         UNCHANGED accepted
  PROVE  FuturesInv'
<1> DEFINE slot == pending[n][<<kind, x>>]
           hit == slot # 0 /\ waits[slot].state = "waiting"
<1>1. /\ waits \in Seq(Wait)
      /\ slot # 0 => slot \in DOMAIN waits /\ waits[slot].node = n
                     /\ waits[slot].kind = kind /\ waits[slot].of = x
  BY DEF FuturesInv, WaitsInv, PendingInv
<1>2. /\ waits' \in Seq(Wait)
      /\ DOMAIN waits' = DOMAIN waits
      /\ \A w \in DOMAIN waits :
           /\ waits'[w].node = waits[w].node /\ waits'[w].kind = waits[w].kind
           /\ waits'[w].of = waits[w].of
           /\ ~ (hit /\ w = slot) => waits'[w] = waits[w]
           /\ hit /\ w = slot => waits'[w].state = "answered" /\ waits'[w].answer = answer
  <2>1. CASE hit
    <3>1. waits' = [waits EXCEPT ![slot] = [waits[slot] EXCEPT !.state = "answered",
                                                               !.answer = answer]]
      BY <2>1, <1>1 DEF Resolve
    <3>2. waits[slot] \in Wait
      BY <1>1, <2>1
    <3>3. /\ [waits[slot] EXCEPT !.state = "answered", !.answer = answer] \in Wait
      BY <3>2 DEF Wait, States
    <3>4. waits' \in Seq(Wait) /\ DOMAIN waits' = DOMAIN waits
      BY <1>1, <2>1, <3>1, <3>3, ReplaceOne
    <3>5. \A w \in DOMAIN waits : w # slot => waits'[w] = waits[w]
      BY <3>1
    <3>6. /\ waits'[slot].node = waits[slot].node /\ waits'[slot].kind = waits[slot].kind
          /\ waits'[slot].of = waits[slot].of
          /\ waits'[slot].state = "answered" /\ waits'[slot].answer = answer
      BY <1>1, <2>1, <3>1, <3>2 DEF Wait
    <3> QED
      BY <2>1, <3>4, <3>5, <3>6
  <2>2. CASE ~ hit
    BY <1>1, <2>2 DEF Resolve
  <2> QED
    BY <2>1, <2>2
<1>3. WaitsInv'
  BY <1>1, <1>2 DEF FuturesInv, WaitsInv
<1>4. /\ pending' \in [Nodes -> [Keys -> Nat]]
      /\ \A p \in Nodes, k \in Keys :
           pending'[p][k] = IF p = n /\ k = <<kind, x>> THEN 0 ELSE pending[p][k]
  BY DEF Resolve, FuturesInv, PendingInv
<1>5. PendingInv'
  BY <1>2, <1>4, SlotsKeep DEF FuturesInv
<1>6. AcceptedByTheOneAsked'
  <2> SUFFICES ASSUME NEW w \in DOMAIN waits', waits'[w].kind \in JoinKinds,
                      waits'[w].answer = TRUE
               PROVE  <<waits'[w].of, waits'[w].kind, waits'[w].node>> \in accepted
    BY DEF AcceptedByTheOneAsked
  <2>1. CASE hit /\ w = slot
    <3>1. /\ waits'[w].of = x /\ waits'[w].kind = kind /\ waits'[w].node = n
          /\ waits'[w].answer = answer
      BY <1>1, <1>2, <2>1
    <3> QED
      BY <3>1
  <2>2. CASE ~ (hit /\ w = slot)
    <3>1. w \in DOMAIN waits /\ waits'[w] = waits[w]
      BY <1>2, <2>2
    <3> QED
      BY <3>1 DEF FuturesInv, AcceptedByTheOneAsked
  <2> QED
    BY <2>1, <2>2
<1>7. FetchedWhatWasAsked'
  <2> SUFFICES ASSUME NEW w \in DOMAIN waits', waits'[w].kind \in FetchKinds,
                      waits'[w].state = "answered"
               PROVE  waits'[w].answer = waits'[w].of
    BY DEF FetchedWhatWasAsked
  <2>1. CASE hit /\ w = slot
    BY <1>1, <1>2, <2>1
  <2>2. CASE ~ (hit /\ w = slot)
    <3>1. w \in DOMAIN waits /\ waits'[w] = waits[w]
      BY <1>2, <2>2
    <3> QED
      BY <3>1 DEF FuturesInv, FetchedWhatWasAsked
  <2> QED
    BY <2>1, <2>2
<1>8. NewestWaiterReachable'
  <2> SUFFICES ASSUME NEW w \in DOMAIN waits', waits'[w].state = "waiting",
                      \A v \in DOMAIN waits' :
                        v > w => waits'[v].node # waits'[w].node
                                   \/ <<waits'[v].kind, waits'[v].of>>
                                        # <<waits'[w].kind, waits'[w].of>>
               PROVE  pending'[waits'[w].node][<<waits'[w].kind, waits'[w].of>>] = w
    BY DEF NewestWaiterReachable
  <2> DEFINE p == waits[w].node
             k == <<waits[w].kind, waits[w].of>>
  <2>1. w \in DOMAIN waits /\ waits'[w] = waits[w]
    BY <1>2
  <2>2. pending[p][k] = w
    BY <1>2, <2>1 DEF FuturesInv, NewestWaiterReachable
  <2>3. w # 0 /\ p \in Nodes /\ k \in Keys
    BY <2>1, WaitFacts
  <2>4. ~ (p = n /\ k = <<kind, x>>)
    <3> HIDE DEF p, k
    <3>1. p = n /\ k = <<kind, x>> => slot = w
      BY <2>2
    <3>2. waits[w].state = "waiting"
      BY <2>1
    <3>3. slot = w => hit
      BY <2>3, <3>2
    <3>4. ~ (hit /\ w = slot)
      BY <1>2, <2>1
    <3> QED
      BY <3>1, <3>3, <3>4
  <2> QED
    BY <1>4, <2>1, <2>2, <2>3, <2>4
<1> QED
  BY <1>3, <1>5, <1>6, <1>7, <1>8 DEF FuturesInv

LEMMA TimeoutKeeps ==
  ASSUME FuturesInv, NEW w \in DOMAIN waits, Timeout(w)
  PROVE  FuturesInv'
<1>1. waits[w] \in Wait /\ waits \in Seq(Wait)
  BY DEF FuturesInv, WaitsInv
<1>2. /\ waits' \in Seq(Wait)
      /\ DOMAIN waits' = DOMAIN waits
      /\ \A v \in DOMAIN waits :
           /\ waits'[v].node = waits[v].node /\ waits'[v].kind = waits[v].kind
           /\ waits'[v].of = waits[v].of /\ waits'[v].answer = waits[v].answer
           /\ waits'[v].state = IF v = w THEN "timed_out" ELSE waits[v].state
  <2>1. [waits[w] EXCEPT !.state = "timed_out"] \in Wait
    BY <1>1 DEF Wait, States
  <2> QED
    BY <1>1, <2>1 DEF Timeout, Wait
<1>3. WaitsInv' /\ PendingInv'
  BY <1>2, SlotsKeep DEF FuturesInv, WaitsInv, PendingInv, Timeout
<1>4. AcceptedByTheOneAsked' /\ FetchedWhatWasAsked'
  BY <1>2 DEF FuturesInv, AcceptedByTheOneAsked, FetchedWhatWasAsked, Timeout
<1>5. NewestWaiterReachable'
  <2> SUFFICES ASSUME NEW v \in DOMAIN waits', waits'[v].state = "waiting",
                      \A u \in DOMAIN waits' :
                        u > v => waits'[u].node # waits'[v].node
                                   \/ <<waits'[u].kind, waits'[u].of>>
                                        # <<waits'[v].kind, waits'[v].of>>
               PROVE  pending'[waits'[v].node][<<waits'[v].kind, waits'[v].of>>] = v
    BY DEF NewestWaiterReachable
  <2>1. v \in DOMAIN waits /\ waits[v].state = "waiting"
    BY <1>2
  <2>2. pending[waits[v].node][<<waits[v].kind, waits[v].of>>] = v
    <3>1. \A u \in DOMAIN waits :
            u > v => waits[u].node # waits[v].node
                       \/ <<waits[u].kind, waits[u].of>> # <<waits[v].kind, waits[v].of>>
      BY <1>2, <2>1
    <3> QED
      BY <2>1, <3>1 DEF FuturesInv, NewestWaiterReachable
  <2> QED
    BY <1>2, <2>1, <2>2 DEF Timeout
<1> QED
  BY <1>3, <1>4, <1>5 DEF FuturesInv

LEMMA RebootKeeps ==
  ASSUME FuturesInv, NEW n \in Nodes, NEW serves, NEW knows,
         Rebooted(n, serves, knows)
  PROVE  FuturesInv'
<1>1. waits \in Seq(Wait) /\ Len(waits) \in Nat /\ DOMAIN waits = 1 .. Len(waits)
  BY DEF FuturesInv, WaitsInv
<1>2. /\ waits' \in Seq(Wait)
      /\ DOMAIN waits' = DOMAIN waits
      /\ \A v \in DOMAIN waits :
           /\ waits'[v].node = waits[v].node /\ waits'[v].kind = waits[v].kind
           /\ waits'[v].of = waits[v].of /\ waits'[v].answer = waits[v].answer
           /\ waits'[v].state = IF waits[v].node = n /\ waits[v].state = "waiting"
                                THEN "died" ELSE waits[v].state
  <2> DEFINE now(v) == IF waits[v].node = n /\ waits[v].state = "waiting"
                       THEN [waits[v] EXCEPT !.state = "died"] ELSE waits[v]
  <2>1. waits' = [v \in DOMAIN waits |-> now(v)]
    BY DEF Rebooted
  <2>2. \A v \in DOMAIN waits : waits[v] \in Wait
    BY <1>1
  <2>3. \A v \in DOMAIN waits :
          /\ now(v) \in Wait
          /\ now(v).node = waits[v].node /\ now(v).kind = waits[v].kind
          /\ now(v).of = waits[v].of /\ now(v).answer = waits[v].answer
          /\ now(v).state = IF waits[v].node = n /\ waits[v].state = "waiting"
                            THEN "died" ELSE waits[v].state
    BY <2>2 DEF Wait, States
  <2> HIDE DEF now
  <2>4. waits' \in Seq(Wait)
    BY <1>1, <2>1, <2>3
  <2> QED
    BY <2>1, <2>3, <2>4
<1>3. /\ pending' \in [Nodes -> [Keys -> Nat]]
      /\ \A p \in Nodes, k \in Keys :
           pending'[p][k] = IF p = n THEN 0 ELSE pending[p][k]
  BY DEF Rebooted, FuturesInv, PendingInv
<1>4. WaitsInv' /\ PendingInv'
  BY <1>2, <1>3, SlotsKeep DEF FuturesInv, WaitsInv
<1>5. AcceptedByTheOneAsked' /\ FetchedWhatWasAsked'
  BY <1>2 DEF FuturesInv, AcceptedByTheOneAsked, FetchedWhatWasAsked, Rebooted
<1>6. NewestWaiterReachable'
  <2> SUFFICES ASSUME NEW w \in DOMAIN waits', waits'[w].state = "waiting",
                      \A v \in DOMAIN waits' :
                        v > w => waits'[v].node # waits'[w].node
                                   \/ <<waits'[v].kind, waits'[v].of>>
                                        # <<waits'[w].kind, waits'[w].of>>
               PROVE  pending'[waits'[w].node][<<waits'[w].kind, waits'[w].of>>] = w
    BY DEF NewestWaiterReachable
  <2>1. w \in DOMAIN waits /\ waits[w].state = "waiting" /\ waits[w].node # n
    BY <1>2
  <2>2. pending[waits[w].node][<<waits[w].kind, waits[w].of>>] = w
    <3>1. waits'[w].node = waits[w].node /\ waits'[w].kind = waits[w].kind
          /\ waits'[w].of = waits[w].of
      BY <1>2, <2>1
    <3>2. ASSUME NEW v \in DOMAIN waits, v > w
          PROVE  waits[v].node # waits[w].node
                   \/ <<waits[v].kind, waits[v].of>> # <<waits[w].kind, waits[w].of>>
      <4>1. v \in DOMAIN waits' /\ waits'[v].node = waits[v].node
            /\ waits'[v].kind = waits[v].kind /\ waits'[v].of = waits[v].of
        BY <1>2
      <4> QED
        BY <3>1, <3>2, <4>1
    <3> QED
      BY <2>1, <3>2 DEF FuturesInv, NewestWaiterReachable
  <2>3. waits[w].node \in Nodes
    BY <2>1, WaitFacts
  <2>4. pending'[waits[w].node] = pending[waits[w].node]
    BY <2>1, <2>3 DEF Rebooted, FuturesInv, PendingInv
  <2> QED
    BY <1>2, <2>1, <2>2, <2>4
<1> QED
  BY <1>4, <1>5, <1>6 DEF FuturesInv

LEMMA FuturesStay ==
  ASSUME FuturesInv, UNCHANGED <<waits, pending>>, accepted \subseteq accepted'
  PROVE  FuturesInv'
BY DEF FuturesInv, WaitsInv, PendingInv, AcceptedByTheOneAsked,
       FetchedWhatWasAsked, NewestWaiterReachable

---------------------------------------------------------------------------
\* Datagrams.

LEMMA SendKeeps ==
  ASSUME WireInv, NEW messages, Send(messages),
         ledger \subseteq ledger', accepted \subseteq accepted',
         \A m \in messages : MessageSound(m)'
  PROVE  WireInv'
<1>1. ASSUME NEW m \in wire
      PROVE  MessageSound(m)'
  <2>1. MessageSound(m)
    BY DEF WireInv
  <2> QED
    BY <2>1 DEF MessageSound
<1> QED
  BY <1>1 DEF WireInv, Send

LEMMA IntroSound ==
  ASSUME NEW n \in Nodes, NEW p \in Nodes, NEW m \in Intro(n, p)
  PROVE  MessageSound(m)'
<1>1. m.type = "intro" /\ m.from = n /\ m.to = p
  BY DEF Intro, Message
<1> QED
  BY <1>1 DEF MessageSound

LEMMA RequestJoinKeeps ==
  ASSUME FuturesInv, WireInv, NEW n \in Nodes, NEW g \in Nodes, NEW tx,
         ledger \subseteq ledger', tx \in ledger', tx.from = n,
         RequestJoin(n, g, tx)
  PROVE  FuturesInv' /\ WireInv' /\ accepted' = accepted
<1>1. accepted' = accepted
  BY DEF RequestJoin
<1>2. FuturesInv'
  BY <1>1, AwaitKeeps, KeyFacts DEF RequestJoin, JoinKinds
<1> DEFINE m == Message("request", "join", n, g, tx)
<1>3. MessageSound(m)'
  BY DEF MessageSound, Message, FetchKinds
<1>4. WireInv'
  BY <1>1, <1>3, SendKeeps DEF RequestJoin
<1> QED
  BY <1>1, <1>2, <1>4

LEMMA RequestCommunityJoinKeeps ==
  ASSUME FuturesInv, WireInv, NEW n \in Nodes, NEW g \in Nodes,
         ledger \subseteq ledger', RequestCommunityJoin(n, g)
  PROVE  FuturesInv' /\ WireInv' /\ accepted' = accepted
<1>1. accepted' = accepted
  BY DEF RequestCommunityJoin
<1>2. FuturesInv'
  BY <1>1, AwaitKeeps, KeyFacts DEF RequestCommunityJoin, JoinKinds
<1> DEFINE m == Message("request", "community", n, g, None)
<1>3. MessageSound(m)'
  BY DEF MessageSound, Message, FetchKinds
<1>4. WireInv'
  BY <1>1, <1>3, SendKeeps DEF RequestCommunityJoin
<1> QED
  BY <1>1, <1>2, <1>4

LEMMA FetchOverlayKeeps ==
  ASSUME FuturesInv, WireInv, NEW n \in Nodes, NEW p \in Nodes, NEW h \in Overlays,
         ledger \subseteq ledger', FetchOverlay(n, p, h)
  PROVE  FuturesInv' /\ WireInv' /\ accepted' = accepted
<1>1. accepted' = accepted
  BY DEF FetchOverlay
<1>2. FuturesInv'
  BY <1>1, AwaitKeeps, KeyFacts DEF FetchOverlay
<1> DEFINE m == Message("request", "overlay", n, p, h)
<1>3. MessageSound(m)'
  BY KeyFacts DEF MessageSound, Message, FetchKinds
<1>4. WireInv'
  BY <1>1, <1>3, SendKeeps DEF FetchOverlay
<1> QED
  BY <1>1, <1>2, <1>4

LEMMA FetchManifestKeeps ==
  ASSUME FuturesInv, WireInv, NEW n \in Nodes, NEW p \in Nodes, NEW h \in ManifestIds,
         ledger \subseteq ledger', FetchManifest(n, p, h)
  PROVE  FuturesInv' /\ WireInv' /\ accepted' = accepted
<1>1. accepted' = accepted
  BY DEF FetchManifest
<1>2. FuturesInv'
  BY <1>1, AwaitKeeps, KeyFacts DEF FetchManifest
<1> DEFINE m == Message("request", "manifest", n, p, h)
<1>3. MessageSound(m)'
  BY KeyFacts DEF MessageSound, Message, FetchKinds
<1>4. WireInv'
  BY <1>1, <1>3, SendKeeps DEF FetchManifest
<1> QED
  BY <1>1, <1>2, <1>4

---------------------------------------------------------------------------
\* Arrivals.

LEMMA DecideKeeps ==
  ASSUME FuturesInv, WireInv, NEW m, m.from \in Nodes, m.to \in Nodes,
         m.kind \in JoinKinds, NEW accept \in BOOLEAN, UNCHANGED ledger,
         Decide(m, accept)
  PROVE  /\ FuturesInv' /\ WireInv'
         /\ accepted' = IF accept THEN accepted \cup {<<m.to, m.kind, m.from>>}
                        ELSE accepted
<1>1. /\ accepted' = IF accept THEN accepted \cup {<<m.to, m.kind, m.from>>}
                     ELSE accepted
      /\ UNCHANGED <<waits, pending>>
  BY DEF Decide
<1>2. FuturesInv'
  BY <1>1, FuturesStay
<1> DEFINE reply == Message("response", m.kind, m.to, m.from, accept)
<1>3. MessageSound(reply)'
  BY <1>1 DEF MessageSound, Message
<1>4. \A x \in Intro(m.to, m.from) : MessageSound(x)'
  BY IntroSound
<1>5. Send({reply} \cup IF accept THEN Intro(m.to, m.from) ELSE {})
  BY DEF Decide
<1>6. WireInv'
  BY <1>1, <1>3, <1>4, <1>5, SendKeeps
<1> QED
  BY <1>1, <1>2, <1>6

LEMMA ResponseKeeps ==
  ASSUME FuturesInv, WireInv, NEW m \in wire, m.type = "response",
         UNCHANGED <<ledger, accepted>>, NEW kind \in JoinKinds, m.kind = kind,
         Resolve(m.to, kind, m.from, m.body),
         Send(IF m.body THEN Intro(m.to, m.from) ELSE {})
  PROVE  FuturesInv' /\ WireInv'
<1>1. /\ m.from \in Nodes /\ m.to \in Nodes /\ m.body \in BOOLEAN
      /\ m.body = TRUE => <<m.from, kind, m.to>> \in accepted
  BY DEF WireInv, MessageSound
<1>2. <<kind, m.from>> \in Keys /\ m.body \in Answers /\ kind \notin FetchKinds
  BY <1>1, KeyFacts DEF Answers, JoinKinds, FetchKinds
<1>3. FuturesInv'
  BY <1>1, <1>2, ResolveKeeps
<1>4. \A x \in Intro(m.to, m.from) : MessageSound(x)'
  BY <1>1, IntroSound
<1>5. WireInv'
  BY <1>4, SendKeeps
<1> QED
  BY <1>3, <1>5

LEMMA DeliveryKeeps ==
  ASSUME FuturesInv, WireInv, NEW m \in wire, m.type = "delivery",
         UNCHANGED ledger, TakeDelivery(m)
  PROVE  FuturesInv' /\ WireInv' /\ accepted' = accepted
<1> DEFINE id == m.body[1]
<1>1. m.to \in Nodes /\ m.kind \in FetchKinds /\ <<m.kind, id>> \in Keys
  BY DEF WireInv, MessageSound
<1>2. id \in Answers /\ m.kind \notin JoinKinds
  BY <1>1, KeyFacts DEF Answers, FetchKinds, JoinKinds
<1>3. Resolve(m.to, m.kind, id, id) /\ UNCHANGED <<wire, accepted>>
  BY DEF TakeDelivery
<1>4. FuturesInv'
  BY <1>1, <1>2, <1>3, ResolveKeeps
<1>5. WireInv'
  BY <1>3 DEF WireInv, MessageSound
<1> QED
  BY <1>3, <1>4, <1>5

LEMMA ServeKeeps ==
  ASSUME FuturesInv, WireInv, NEW m \in wire, m.type = "request",
         m.kind \in FetchKinds, UNCHANGED ledger, Serve(m)
  PROVE  FuturesInv' /\ WireInv' /\ accepted' = accepted
<1>1. m.from \in Nodes /\ m.to \in Nodes /\ <<m.kind, m.body>> \in Keys
  BY DEF WireInv, MessageSound
<1>2. UNCHANGED <<waits, pending, accepted>>
  BY DEF Serve
<1> DEFINE delivery == Message("delivery", m.kind, m.to, m.from, <<m.body, m.body>>)
<1>3. MessageSound(delivery)'
  BY <1>1 DEF MessageSound, Message
<1>4. WireInv'
  BY <1>2, <1>3, SendKeeps DEF Serve
<1> QED
  BY <1>2, <1>4, FuturesStay

LEMMA QuietKeeps ==
  ASSUME FuturesInv, WireInv, LedgerInv,
         UNCHANGED <<wire, waits, pending, accepted, ledger>>
  PROVE  FuturesInv' /\ WireInv' /\ LedgerInv'
BY FuturesStay DEF WireInv, MessageSound, LedgerInv, AdmittedByDonation

LEMMA AdmissionsStay ==
  ASSUME LedgerInv, UNCHANGED ledger,
         NEW g, NEW kind, NEW n, kind # "join",
         accepted' \subseteq accepted \cup {<<g, kind, n>>}
  PROVE  LedgerInv'
<1>1. \A x, y \in Nodes : <<x, "join", y>> \in accepted' => <<x, "join", y>> \in accepted
  OBVIOUS
<1> QED
  BY <1>1 DEF LedgerInv, AdmittedByDonation

LEMMA JoinRequestKeeps ==
  ASSUME FuturesInv, WireInv, LedgerInv, NEW m \in wire, NEW confirmed \in BOOLEAN,
         OnJoinRequest(m, confirmed), UNCHANGED ledger
  PROVE  FuturesInv' /\ WireInv' /\ LedgerInv'
<1> DEFINE accept == verify(m.to, m.body, confirmed)
<1>1. /\ m.from \in Nodes /\ m.to \in Nodes /\ m.kind = "join"
      /\ m.body \in ledger /\ m.body.from = m.from
  BY DEF OnJoinRequest, WireInv, MessageSound
<1>2. accept \in BOOLEAN
  BY <1>1, WireAssumption DEF verify, LedgerInv
<1>3. /\ FuturesInv' /\ WireInv'
      /\ accepted' = IF accept THEN accepted \cup {<<m.to, "join", m.from>>}
                     ELSE accepted
  BY <1>1, <1>2, DecideKeeps DEF OnJoinRequest, JoinKinds
<1>4. accept /\ ~ MockNetwork => Donation(m.from, m.to, TRUE) \in ledger
  <2>1. m.body = Donation(m.body.from, m.body.to, m.body.enough)
        /\ m.body.enough \in BOOLEAN
    BY <1>1 DEF LedgerInv
  <2>2. accept /\ ~ MockNetwork => m.body.to = m.to /\ m.body.enough = TRUE
    BY <2>1 DEF verify
  <2> QED
    BY <1>1, <2>1, <2>2
<1>5. AdmittedByDonation'
  <2> SUFFICES ASSUME NEW g \in Nodes, NEW n \in Nodes,
                      <<g, "join", n>> \in accepted', ~ MockNetwork
               PROVE  Donation(n, g, TRUE) \in ledger
    BY DEF AdmittedByDonation, Donation
  <2>1. CASE <<g, "join", n>> \in accepted
    BY <2>1 DEF LedgerInv, AdmittedByDonation
  <2>2. CASE <<g, "join", n>> \notin accepted
    <3>1. accept /\ <<g, "join", n>> = <<m.to, "join", m.from>>
      BY <1>3, <2>2
    <3>2. g = m.to /\ n = m.from
      BY <3>1
    <3> QED
      BY <1>4, <3>1, <3>2
  <2> QED
    BY <2>1, <2>2
<1> QED
  BY <1>3, <1>5 DEF LedgerInv, Donation

LEMMA CommunityRequestKeeps ==
  ASSUME FuturesInv, WireInv, LedgerInv, NEW m \in wire, NEW accept \in BOOLEAN,
         OnCommunityJoinRequest(m, accept), UNCHANGED ledger
  PROVE  FuturesInv' /\ WireInv' /\ LedgerInv'
<1>1. m.from \in Nodes /\ m.to \in Nodes /\ m.kind = "community"
  BY DEF OnCommunityJoinRequest, WireInv, MessageSound
<1>2. /\ FuturesInv' /\ WireInv'
      /\ accepted' \subseteq accepted \cup {<<m.to, "community", m.from>>}
  BY <1>1, DecideKeeps DEF OnCommunityJoinRequest, JoinKinds
<1>3. LedgerInv'
  BY <1>2, AdmissionsStay
<1> QED
  BY <1>2, <1>3

LEMMA LedgerStays ==
  ASSUME LedgerInv, UNCHANGED <<ledger, accepted>>
  PROVE  LedgerInv'
BY DEF LedgerInv, AdmittedByDonation

LEMMA ArrivalKeeps ==
  ASSUME ServicesInv, Arrival
  PROVE  ServicesInv'
<1>1. FuturesInv /\ WireInv /\ LedgerInv /\ CallsInv
  BY DEF ServicesInv
<1>2. UNCHANGED <<ledger, calls>>
  BY DEF Arrival
<1>3. CallsInv'
  BY <1>1, <1>2 DEF CallsInv
<1> SUFFICES FuturesInv' /\ WireInv' /\ LedgerInv'
  BY <1>3 DEF ServicesInv
<1>4. PICK m \in wire :
        \/ \E confirmed \in BOOLEAN : OnJoinRequest(m, confirmed)
        \/ \E accept \in BOOLEAN : OnCommunityJoinRequest(m, accept)
        \/ OnJoinResponse(m) \/ OnCommunityJoinResponse(m)
        \/ OnOverlayOffer(m) \/ OnManifestOffer(m)
        \/ OnOverlayRequest(m) \/ OnManifestRequest(m)
        \/ OnOverlayDelivery(m) \/ OnManifestDelivery(m)
        \/ OnPeerIntro(m)
  BY DEF Arrival
<1>5. CASE \E confirmed \in BOOLEAN : OnJoinRequest(m, confirmed)
  BY <1>1, <1>2, <1>5, JoinRequestKeeps
<1>6. CASE \E accept \in BOOLEAN : OnCommunityJoinRequest(m, accept)
  BY <1>1, <1>2, <1>6, CommunityRequestKeeps
<1>7. CASE OnJoinResponse(m)
  <2>1. accepted' = accepted /\ "join" \in JoinKinds
    BY <1>7 DEF OnJoinResponse, JoinKinds
  <2> QED
    BY <1>1, <1>2, <1>7, <2>1, ResponseKeeps, LedgerStays DEF OnJoinResponse
<1>8. CASE OnCommunityJoinResponse(m)
  <2>1. accepted' = accepted /\ "community" \in JoinKinds
    BY <1>8 DEF OnCommunityJoinResponse, JoinKinds
  <2> QED
    BY <1>1, <1>2, <1>8, <2>1, ResponseKeeps, LedgerStays DEF OnCommunityJoinResponse
<1>9. CASE OnOverlayOffer(m) \/ OnManifestOffer(m)
  BY <1>1, <1>2, <1>9, QuietKeeps DEF OnOverlayOffer, OnManifestOffer, Remember
<1>10. CASE OnOverlayRequest(m) \/ OnManifestRequest(m)
  BY <1>1, <1>2, <1>10, ServeKeeps, LedgerStays
     DEF OnOverlayRequest, OnManifestRequest, FetchKinds
<1>11. CASE OnOverlayDelivery(m) \/ OnManifestDelivery(m)
  BY <1>1, <1>2, <1>11, DeliveryKeeps, LedgerStays
     DEF OnOverlayDelivery, OnManifestDelivery
<1>12. CASE OnPeerIntro(m)
  BY <1>1, <1>2, <1>12, QuietKeeps DEF OnPeerIntro
<1> QED
  BY <1>4, <1>5, <1>6, <1>7, <1>8, <1>9, <1>10, <1>11, <1>12

---------------------------------------------------------------------------
\* Tools.

LEMMA MissingOverlays ==
  ASSUME NEW n, NEW ids \in Seq(Overlays)
  PROVE  Missing(n, ids) \in Seq(Overlays)
<1> DEFINE lacking == {i \in DOMAIN ids : registered[n][ids[i]] = None}
           first == CHOOSE i \in lacking : \A k \in lacking : i <= k
<1>1. CASE lacking = {}
  BY <1>1 DEF Missing
<1>2. CASE lacking # {}
  <2>1. lacking \subseteq Nat /\ lacking \subseteq 1 .. Len(ids) /\ Len(ids) \in Nat
    OBVIOUS
  <2>2. \E i \in lacking : \A k \in lacking : i <= k
    <3>1. PICK i \in lacking : \A k \in lacking : ~ (<<k, i>> \in OpToRel(<, Nat))
      BY <1>2, <2>1, NatLessThanWellFounded, WFMin
    <3>2. \A k \in Nat, l \in Nat : k < l => <<k, l>> \in OpToRel(<, Nat)
      BY DEF OpToRel
    <3>3. \A k \in lacking : ~ (k < i)
      BY <2>1, <3>1, <3>2
    <3> QED
      BY <2>1, <3>3
  <2>3. first \in lacking
    BY <2>2
  <2>4. Missing(n, ids) = SubSeq(ids, first, Len(ids))
    BY <1>2 DEF Missing
  <2> HIDE DEF first
  <2> QED
    BY <2>1, <2>3, <2>4
<1> QED
  BY <1>1, <1>2

LEMMA BeginsKeeps ==
  ASSUME CallsInv, FuturesInv, NEW n, NEW tool \in Tools, NEW p \in Nodes,
         NEW left \in Seq(Overlays), Begins(n, tool, p, left)
  PROVE  CallsInv'
<1>1. n \in Nodes /\ Len(waits) \in Nat
  BY ServicesAssumption DEF Begins, FuturesInv, WaitsInv
<1>2. Call(n, tool, p, left) \in CallRecord
  BY <1>1 DEF Call, CallRecord
<1>3. calls' = Append(calls, Call(n, tool, p, left))
  BY DEF Begins
<1> QED
  BY <1>2, <1>3 DEF CallsInv

LEMMA EndsKeeps ==
  ASSUME CallsInv, NEW i \in DOMAIN calls, Ends(i)
  PROVE  CallsInv'
<1>1. calls \in Seq(CallRecord) /\ calls[i] \in CallRecord
  BY DEF CallsInv
<1> DEFINE ended == [calls[i] EXCEPT !.ended = TRUE]
<1>2. ended \in CallRecord
  BY <1>1 DEF CallRecord
<1>3. calls' = [calls EXCEPT ![i] = ended]
  BY DEF Ends
<1> HIDE DEF ended
<1>4. [calls EXCEPT ![i] = ended] \in Seq(CallRecord)
  BY <1>1, <1>2, ReplaceOne
<1> QED
  BY <1>3, <1>4 DEF CallsInv

LEMMA SendAndRequestKeeps ==
  ASSUME FuturesInv, WireInv, LedgerInv, NEW n \in Nodes, NEW g \in Nodes,
         NEW to, NEW enough \in BOOLEAN,
         SendAndRequest(n, g, Donation(n, to, enough))
  PROVE  FuturesInv' /\ WireInv' /\ LedgerInv'
<1> DEFINE tx == Donation(n, to, enough)
<1>1. /\ ledger' = ledger \cup {tx} /\ RequestJoin(n, g, tx)
  BY DEF SendAndRequest
<1>2. /\ tx.from = n /\ tx.to = to /\ tx.enough = enough
  BY DEF Donation
<1>3. FuturesInv' /\ WireInv' /\ accepted' = accepted
  BY <1>1, <1>2, RequestJoinKeeps
<1>4. \A x \in ledger' : x.enough \in BOOLEAN /\ x = Donation(x.from, x.to, x.enough)
  BY <1>1, <1>2 DEF LedgerInv
<1>5. AdmittedByDonation'
  BY <1>1, <1>3 DEF LedgerInv, AdmittedByDonation, Donation
<1> QED
  BY <1>3, <1>4, <1>5 DEF LedgerInv, Donation

LEMMA JoinNetworkKeeps ==
  ASSUME FuturesInv, WireInv, LedgerInv, NEW n \in Nodes, NEW p \in Nodes,
         NEW left \in Seq(Overlays), JoinNetwork(n, p, left)
  PROVE  FuturesInv' /\ WireInv' /\ LedgerInv'
<1>1. CASE left # <<>>
  <2>1. Head(left) \in Overlays
    BY <1>1
  <2>2. FetchOverlay(n, p, Head(left)) /\ UNCHANGED ledger
    BY <1>1 DEF JoinNetwork
  <2> QED
    BY <2>1, <2>2, FetchOverlayKeeps, LedgerStays
<1>2. CASE left = <<>>
  BY <1>2, SendAndRequestKeeps DEF JoinNetwork
<1> QED
  BY <1>1, <1>2

LEMMA ToolKeeps ==
  ASSUME ServicesInv, NEW n \in Callers, Tool(n)
  PROVE  ServicesInv'
<1>1. FuturesInv /\ WireInv /\ LedgerInv /\ CallsInv /\ n \in Nodes
  BY ServicesAssumption DEF ServicesInv
<1>2. /\ <<>> \in Seq(Overlays)
      /\ \A id \in Overlays : <<id>> \in Seq(Overlays)
      /\ \A id \in ElementsOf(DefaultOverlays) : id \in Overlays
  BY ServicesAssumption DEF ElementsOf
<1>3. ASSUME NEW g \in Nodes, NEW to \in Payees, NEW enough \in BOOLEAN,
             DonateAndJoin(n, g, to, enough)
      PROVE  ServicesInv'
  <2>1. CallsInv'
    BY <1>1, <1>2, <1>3, BeginsKeeps DEF DonateAndJoin, Tools
  <2>2. FuturesInv' /\ WireInv' /\ LedgerInv'
    BY <1>1, <1>3, SendAndRequestKeeps DEF DonateAndJoin
  <2> QED
    BY <2>1, <2>2 DEF ServicesInv
<1>4. ASSUME NEW g \in Nodes, JoinViaPeer(n, g)
      PROVE  ServicesInv'
  <2>1. CallsInv'
    BY <1>1, <1>2, <1>4, BeginsKeeps DEF JoinViaPeer, Tools
  <2>2. FuturesInv' /\ WireInv' /\ LedgerInv'
    BY <1>1, <1>4, RequestCommunityJoinKeeps, LedgerStays DEF JoinViaPeer
  <2> QED
    BY <2>1, <2>2 DEF ServicesInv
<1>5. ASSUME NEW g \in Nodes, NetworkJoin(n, g)
      PROVE  ServicesInv'
  <2> DEFINE left == Missing(n, DefaultOverlays)
  <2>1. left \in Seq(Overlays)
    BY MissingOverlays, ServicesAssumption
  <2>2. Begins(n, "network_join", g, left) /\ JoinNetwork(n, g, left)
    BY <1>5 DEF NetworkJoin
  <2>3. CallsInv'
    BY <1>1, <2>1, <2>2, BeginsKeeps DEF Tools
  <2>4. FuturesInv' /\ WireInv' /\ LedgerInv'
    BY <1>1, <2>1, <2>2, JoinNetworkKeeps
  <2> QED
    BY <2>3, <2>4 DEF ServicesInv
<1>6. ASSUME NEW g \in Nodes, NEW id \in ElementsOf(DefaultOverlays),
             FetchAndLoad(n, g, id)
      PROVE  ServicesInv'
  <2>1. CallsInv'
    BY <1>1, <1>2, <1>6, BeginsKeeps DEF FetchAndLoad, Tools
  <2>2. FuturesInv' /\ WireInv' /\ LedgerInv'
    BY <1>1, <1>2, <1>6, FetchOverlayKeeps, LedgerStays DEF FetchAndLoad
  <2> QED
    BY <2>1, <2>2 DEF ServicesInv
<1>7. ASSUME NEW g \in Nodes, FetchTheManifest(n, g)
      PROVE  ServicesInv'
  <2>1. CallsInv'
    BY <1>1, <1>2, <1>7, BeginsKeeps DEF FetchTheManifest, Tools
  <2>2. FuturesInv' /\ WireInv' /\ LedgerInv'
    BY <1>1, <1>7, FetchManifestKeeps, LedgerStays, ServicesAssumption
       DEF FetchTheManifest
  <2> QED
    BY <2>1, <2>2 DEF ServicesInv
<1>8. ASSUME NEW g \in Nodes, PeerAdd(n, g)
      PROVE  ServicesInv'
  BY <1>1, <1>8, QuietKeeps DEF PeerAdd, ServicesInv, CallsInv
<1>9. ASSUME NEW id \in Overlays, OverlayPublish(n, id)
      PROVE  ServicesInv'
  BY <1>1, <1>9, QuietKeeps DEF OverlayPublish, ServicesInv, CallsInv
<1> QED
  BY <1>3, <1>4, <1>5, <1>6, <1>7, <1>8, <1>9 DEF Tool

LEMMA ResumeKeeps ==
  ASSUME ServicesInv, NEW i \in DOMAIN calls, Resume(i)
  PROVE  ServicesInv'
<1>1. FuturesInv /\ WireInv /\ LedgerInv /\ CallsInv
  BY DEF ServicesInv
<1>2. ASSUME UNCHANGED wireVars, UNCHANGED ledger, CallsInv'
      PROVE  ServicesInv'
  BY <1>1, <1>2, QuietKeeps DEF wireVars, ServicesInv
<1>3. CASE ResumeAndEnd(i)
  BY <1>1, <1>2, <1>3, EndsKeeps DEF ResumeAndEnd
<1>4. CASE EndJoining(i) \/ CallDies(i)
  BY <1>1, <1>2, <1>4, EndsKeeps DEF EndJoining, CallDies
<1>5. CASE ResumeJoining(i)
  <2> DEFINE c == calls[i]
             left == Missing(c.node, Tail(c.left))
  <2>1. calls \in Seq(CallRecord) /\ c \in CallRecord
    BY <1>1 DEF CallsInv
  <2>2. c.node \in Nodes /\ c.peer \in Nodes /\ c.left \in Seq(Overlays) /\ c.left # <<>>
    BY <1>5, <2>1 DEF CallRecord, ResumeJoining
  <2>3. left \in Seq(Overlays)
    <3>1. Tail(c.left) \in Seq(Overlays)
      BY <2>2
    <3> QED
      BY <3>1, MissingOverlays
  <2>4. CASE /\ JoinNetwork(c.node, c.peer, left)
             /\ calls' = [calls EXCEPT ![i].left = left, ![i].wait = Len(waits) + 1]
    <3>1. FuturesInv' /\ WireInv' /\ LedgerInv'
      BY <1>1, <2>2, <2>3, <2>4, JoinNetworkKeeps
    <3> DEFINE going == [c EXCEPT !.left = left, !.wait = Len(waits) + 1]
    <3>2. Len(waits) + 1 \in Nat
      BY <1>1 DEF FuturesInv, WaitsInv
    <3>3. going \in CallRecord
      <4> HIDE DEF left
      <4> QED
        BY <2>1, <2>3, <3>2 DEF CallRecord
    <3>4. calls' = [calls EXCEPT ![i] = going]
      <4> HIDE DEF left
      <4> QED
        BY <2>1, <2>4
    <3> HIDE DEF going
    <3>5. CallsInv'
      BY <2>1, <3>3, <3>4, ReplaceOne DEF CallsInv
    <3> QED
      BY <3>1, <3>5 DEF ServicesInv
  <2>5. CASE Ends(i) /\ UNCHANGED <<wireVars, ledger>>
    BY <1>1, <1>2, <2>5, EndsKeeps
  <2> QED
    BY <1>5, <2>4, <2>5 DEF ResumeJoining
<1> QED
  BY <1>3, <1>4, <1>5 DEF Resume

---------------------------------------------------------------------------
\* The other steps, and the invariant.

LEMMA OfferKeeps ==
  ASSUME ServicesInv, NEW n \in Nodes, NEW p \in Nodes, Offer(n, p)
  PROVE  ServicesInv'
<1>1. FuturesInv /\ WireInv /\ LedgerInv /\ CallsInv
  BY DEF ServicesInv
<1>2. PICK kind, id :
        /\ Send({Message("offer", kind, n, p, id)})
        /\ UNCHANGED <<waits, pending, accepted, ledger, calls>>
  BY DEF Offer, OfferOverlay, OfferManifest
<1> DEFINE m == Message("offer", kind, n, p, id)
<1>3. MessageSound(m)'
  BY DEF MessageSound, Message
<1>4. WireInv'
  BY <1>1, <1>2, <1>3, SendKeeps
<1> QED
  BY <1>1, <1>2, <1>4, FuturesStay, LedgerStays DEF ServicesInv, CallsInv

LEMMA StrayKeeps ==
  ASSUME ServicesInv, NEW p \in Nodes, NEW n \in Nodes,
         NEW id \in Overlays, NEW text, Stray(p, n, id, text)
  PROVE  ServicesInv'
<1>1. FuturesInv /\ WireInv /\ LedgerInv /\ CallsInv
  BY DEF ServicesInv
<1> DEFINE m == Message("delivery", "overlay", p, n, <<id, text>>)
<1>2. Send({m}) /\ UNCHANGED <<waits, pending, accepted, ledger, calls>>
  BY DEF Stray, StrayDelivery
<1>3. MessageSound(m)'
  BY KeyFacts DEF MessageSound, Message, FetchKinds
<1>4. WireInv'
  BY <1>1, <1>2, <1>3, SendKeeps
<1> QED
  BY <1>1, <1>2, <1>4, FuturesStay, LedgerStays DEF ServicesInv, CallsInv

LEMMA TimesOutKeeps ==
  ASSUME ServicesInv, NEW w \in DOMAIN waits, TimesOut(w)
  PROVE  ServicesInv'
<1>1. FuturesInv /\ WireInv /\ LedgerInv /\ CallsInv
  BY DEF ServicesInv
<1>2. Timeout(w) /\ UNCHANGED <<wire, accepted, ledger, calls>>
  BY DEF TimesOut, Timeout
<1>3. FuturesInv'
  BY <1>1, <1>2, TimeoutKeeps
<1>4. WireInv'
  BY <1>1, <1>2 DEF WireInv, MessageSound
<1> QED
  BY <1>1, <1>2, <1>3, <1>4, LedgerStays DEF ServicesInv, CallsInv

LEMMA RestartKeeps ==
  ASSUME ServicesInv, NEW n \in Nodes, Restart(n)
  PROVE  ServicesInv'
<1>1. FuturesInv /\ WireInv /\ LedgerInv /\ CallsInv
  BY DEF ServicesInv
<1>2. /\ Rebooted(n, BootServes, BootKnows)
      /\ UNCHANGED <<wire, accepted, ledger, calls>>
  BY DEF Restart, Rebooted
<1>3. FuturesInv'
  BY <1>1, <1>2, RebootKeeps
<1>4. WireInv'
  BY <1>1, <1>2 DEF WireInv, MessageSound
<1> QED
  BY <1>1, <1>2, <1>3, <1>4, LedgerStays DEF ServicesInv, CallsInv

LEMMA ServicesInvInitially == Init => ServicesInv
<1> SUFFICES ASSUME Init
             PROVE  ServicesInv
  OBVIOUS
<1>1. /\ wire = {} /\ waits = <<>> /\ calls = <<>> /\ ledger = {} /\ accepted = {}
      /\ pending = [n \in Nodes |-> [k \in Keys |-> 0]]
  BY DEF Init, WireInit
<1>2. DOMAIN waits = {} /\ waits \in Seq(Wait) /\ calls \in Seq(CallRecord)
  BY <1>1
<1>3. WaitsInv /\ CallsInv
  BY <1>2 DEF WaitsInv, CallsInv
<1>4. PendingInv
  BY <1>1 DEF PendingInv
<1>5. AcceptedByTheOneAsked /\ FetchedWhatWasAsked /\ NewestWaiterReachable
  BY <1>2 DEF AcceptedByTheOneAsked, FetchedWhatWasAsked, NewestWaiterReachable
<1>6. WireInv /\ LedgerInv
  BY <1>1 DEF WireInv, LedgerInv, AdmittedByDonation
<1> QED
  BY <1>3, <1>4, <1>5, <1>6 DEF ServicesInv, FuturesInv

LEMMA ServicesInvKept == ServicesInv /\ [Next]_vars => ServicesInv'
<1> SUFFICES ASSUME ServicesInv, [Next]_vars
             PROVE  ServicesInv'
  OBVIOUS
<1>1. CASE UNCHANGED vars
  BY <1>1, QuietKeeps DEF vars, wireVars, ServicesInv, CallsInv
<1>2. CASE Next
  BY <1>2, ToolKeeps, ArrivalKeeps, TimesOutKeeps, ResumeKeeps, RestartKeeps,
     OfferKeeps, StrayKeeps, ServicesAssumption DEF Next
<1> QED
  BY <1>1, <1>2

LEMMA AlwaysServicesInv == Spec => []ServicesInv
<1>1. Spec => Init /\ [][Next]_vars
  BY PTL DEF Spec
<1> QED
  BY <1>1, ServicesInvInitially, ServicesInvKept, PTL

\* A caller told that it was accepted was accepted by the gatekeeper it asked.
THEOREM NobodyElseAnswers == Spec => []AcceptedByTheOneAsked
<1>1. ServicesInv => AcceptedByTheOneAsked
  BY DEF ServicesInv, FuturesInv
<1> QED
  BY <1>1, AlwaysServicesInv, PTL

\* A fetch returns the text its id names.
THEOREM FetchesAreGenuine == Spec => []FetchedWhatWasAsked
<1>1. ServicesInv => FetchedWhatWasAsked
  BY DEF ServicesInv, FuturesInv
<1> QED
  BY <1>1, AlwaysServicesInv, PTL

\* The newest waiter of a key is in its slot until its own answer takes it out.
THEOREM NoWaiterLost == Spec => []NewestWaiterReachable
<1>1. ServicesInv => NewestWaiterReachable
  BY DEF ServicesInv, FuturesInv
<1> QED
  BY <1>1, AlwaysServicesInv, PTL

\* Off the mock network whoever was admitted had paid the gatekeeper enough.
THEOREM AdmissionsArePaid == Spec => []AdmittedByDonation
<1>1. ServicesInv => AdmittedByDonation
  BY DEF ServicesInv, LedgerInv
<1> QED
  BY <1>1, AlwaysServicesInv, PTL

---------------------------------------------------------------------------
\* The registry under the tools: no source is run that the compiler, with its
\* test vectors, did not accept, wherever it came from.

Sources == Replies \cup {None} \cup {Stub[id] : id \in Overlays}
InstanceSet == [id : Overlays, src : Sources, started : BOOLEAN]
Compiled == {x \in InstanceSet : compile_overlay(x.id, x.src)}
Caches == [CacheDirs -> [Overlays -> Replies \cup {None}]]

SourcesInv ==
  /\ cache \in Caches
  /\ live \in [Nodes -> Seq(Compiled)]

LEMMA LoadCompiles ==
  ASSUME SourcesInv, NEW n \in Nodes, NEW id \in Overlays, load(n, id)
  PROVE  SourcesInv'
<1> DEFINE d == DirOf[n]
<1>1. d \in CacheDirs /\ cache[d] \in [Overlays -> Replies \cup {None}]
      /\ cache[d][id] \in Replies \cup {None}
  BY RegistryAssumption DEF SourcesInv, Caches
<1> HIDE DEF d
<1>2. CASE UNCHANGED registryVars
  BY <1>2 DEF registryVars, SourcesInv
<1>3. ASSUME NEW src, compile_with_disk_cache(d, id, src), Register(n, id, src)
      PROVE  SourcesInv'
  <2>1. compile_overlay(id, src)
    BY <1>3 DEF compile_with_disk_cache
  <2>2. src \in Replies /\ cache' \in Caches
    <3>1. CASE FromCache(d, id, src)
      BY <1>1, <3>1 DEF FromCache, SourcesInv
    <3>2. CASE FromModel(d, id, src)
      <4>1. src \in Replies
        BY <3>2 DEF FromModel
      <4>2. [cache[d] EXCEPT ![id] = src] \in [Overlays -> Replies \cup {None}]
        BY <1>1, <4>1
      <4> QED
        BY <1>1, <3>2, <4>1, <4>2 DEF FromModel, SourcesInv, Caches
    <3> QED
      BY <1>3, <3>1, <3>2 DEF compile_with_disk_cache
  <2>3. ASSUME NEW new, new \in InstanceSet, new.id = id, new.src = src, Added(n, new)
        PROVE  SourcesInv'
    <3>1. new \in Compiled
      BY <2>1, <2>3 DEF Compiled
    <3>2. Append(live[n], new) \in Seq(Compiled)
      BY <3>1 DEF SourcesInv
    <3>3. live' \in [Nodes -> Seq(Compiled)]
      BY <2>3, <3>2 DEF SourcesInv, Added
    <3> QED
      BY <2>2, <3>3 DEF SourcesInv
  <2>4. \A started \in BOOLEAN :
          LET new == Instance(id, src, started) IN
            new \in InstanceSet /\ new.id = id /\ new.src = src
    BY <2>2 DEF Instance, InstanceSet, Sources
  <2>5. CASE Filed(n, id, src)
    BY <2>3, <2>4, <2>5 DEF Filed
  <2>6. CASE StartRaises(n, id, src)
    BY <2>3, <2>4, <2>6 DEF StartRaises
  <2>7. CASE UNCHANGED <<live, registered>>
    BY <2>2, <2>7 DEF SourcesInv
  <2> QED
    BY <1>3, <2>5, <2>6, <2>7 DEF Register
<1> QED
  BY <1>2, <1>3 DEF load, d

LEMMA BootCompiles ==
  ASSUME NEW n \in Nodes
  PROVE  BootInstances(BootOverlays[n]) \in Seq(Compiled)
<1> DEFINE given == BootOverlays[n]
<1>1. /\ given \in Seq(Overlays)
      /\ \A i \in DOMAIN given : compile_overlay(given[i], Stub[given[i]])
  BY ServicesAssumption
<1> HIDE DEF given
<1>2. ASSUME NEW i \in DOMAIN given
      PROVE  Instance(given[i], Stub[given[i]], TRUE) \in Compiled
  <2> DEFINE new == Instance(given[i], Stub[given[i]], TRUE)
  <2>1. given[i] \in Overlays
    BY <1>1
  <2>2. new \in InstanceSet
    BY <2>1 DEF Instance, InstanceSet, Sources
  <2>3. new.id = given[i] /\ new.src = Stub[given[i]]
    BY DEF Instance
  <2> QED
    BY <1>1, <2>2, <2>3 DEF Compiled
<1>3. DOMAIN given = 1 .. Len(given) /\ Len(given) \in Nat
  BY <1>1
<1>4. BootInstances(given) \in [1 .. Len(given) -> Compiled]
  BY <1>2, <1>3 DEF BootInstances
<1>5. BootInstances(given) \in Seq(Compiled)
  BY <1>3, <1>4
<1> QED
  BY <1>5 DEF given

LEMMA SourcesInitially == Init => SourcesInv
<1> SUFFICES ASSUME Init
             PROVE  SourcesInv
  OBVIOUS
<1>1. cache \in Caches
  BY DEF Init, Caches
<1>2. live = [n \in Nodes |-> BootInstances(BootOverlays[n])]
  BY DEF Init
<1>3. live \in [Nodes -> Seq(Compiled)]
  BY <1>2, BootCompiles
<1> QED
  BY <1>1, <1>3 DEF SourcesInv

\* The tools that load what they fetch wait for an overlay: no future ever
\* changes its kind.
LoadsNext(c) == c.tool = "fetch_and_load" \/ (c.tool = "network_join" /\ c.left # <<>>)
LoadingInv ==
  \A i \in DOMAIN calls :
    ~ calls[i].ended /\ LoadsNext(calls[i]) =>
      /\ calls[i].wait \in DOMAIN waits
      /\ waits[calls[i].wait].kind = "overlay"

KindsStay ==
  /\ DOMAIN waits \subseteq DOMAIN waits'
  /\ \A w \in DOMAIN waits : waits'[w].kind = waits[w].kind

LEMMA AwaitStays ==
  ASSUME WaitsInv, NEW n, NEW kind, NEW x, Await(n, kind, x)
  PROVE  /\ KindsStay
         /\ Len(waits) + 1 \in DOMAIN waits' /\ waits'[Len(waits) + 1].kind = kind
<1> DEFINE new == [node |-> n, kind |-> kind, of |-> x,
                   state |-> "waiting", answer |-> None]
<1>1. waits \in Seq(Wait) /\ waits' = Append(waits, new) /\ new.kind = kind
  BY DEF WaitsInv, Await
<1> HIDE DEF new
<1>2. /\ Len(waits') = Len(waits) + 1 /\ DOMAIN waits' = 1 .. Len(waits) + 1
      /\ DOMAIN waits = 1 .. Len(waits) /\ Len(waits) \in Nat
      /\ \A w \in DOMAIN waits : waits'[w] = waits[w]
      /\ waits'[Len(waits) + 1] = new
  BY <1>1
<1> QED
  BY <1>1, <1>2 DEF KindsStay

LEMMA ResolveStays ==
  ASSUME FuturesInv, NEW n \in Nodes, NEW kind, NEW x, <<kind, x>> \in Keys,
         NEW answer, Resolve(n, kind, x, answer)
  PROVE  KindsStay
<1> DEFINE slot == pending[n][<<kind, x>>]
           done == [waits[slot] EXCEPT !.state = "answered", !.answer = answer]
<1>1. waits \in Seq(Wait) /\ (slot # 0 => slot \in DOMAIN waits)
  BY DEF FuturesInv, WaitsInv, PendingInv
<1>2. CASE slot # 0 /\ waits[slot].state = "waiting"
  <2>1. waits' = [waits EXCEPT ![slot] = done]
    BY <1>1, <1>2 DEF Resolve
  <2>2. done.kind = waits[slot].kind
    <3>1. waits[slot] \in Wait
      BY <1>1, <1>2
    <3> QED
      BY <3>1 DEF Wait
  <2> HIDE DEF done, slot
  <2> QED
    BY <1>1, <1>2, <2>1, <2>2 DEF KindsStay
<1>3. CASE ~ (slot # 0 /\ waits[slot].state = "waiting")
  BY <1>3 DEF Resolve, KindsStay
<1> QED
  BY <1>2, <1>3

LEMMA TimeoutStays ==
  ASSUME WaitsInv, NEW w \in DOMAIN waits, Timeout(w)
  PROVE  KindsStay
<1>1. waits \in Seq(Wait) /\ waits[w] \in Wait
  BY DEF WaitsInv
<1> DEFINE over == [waits[w] EXCEPT !.state = "timed_out"]
<1>2. waits' = [waits EXCEPT ![w] = over] /\ over.kind = waits[w].kind
  BY <1>1 DEF Timeout, Wait
<1> HIDE DEF over
<1> QED
  BY <1>1, <1>2 DEF KindsStay

LEMMA RebootStays ==
  ASSUME WaitsInv, NEW n, NEW serves, NEW knows, Rebooted(n, serves, knows)
  PROVE  KindsStay
<1>1. DOMAIN waits' = DOMAIN waits
  BY DEF Rebooted
<1>2. ASSUME NEW w \in DOMAIN waits
      PROVE  waits'[w].kind = waits[w].kind
  <2>1. waits[w] \in Wait
    BY DEF WaitsInv
  <2>2. waits'[w] = waits[w] \/ waits'[w] = [waits[w] EXCEPT !.state = "died"]
    BY DEF Rebooted
  <2> QED
    BY <2>1, <2>2 DEF Wait
<1> QED
  BY <1>1, <1>2 DEF KindsStay

LEMMA ArrivalStays ==
  ASSUME ServicesInv, Arrival
  PROVE  KindsStay
<1>1. FuturesInv /\ WireInv
  BY DEF ServicesInv
<1>2. CASE UNCHANGED waits
  BY <1>2 DEF KindsStay
<1>3. ASSUME NEW m \in wire, OnJoinResponse(m) \/ OnCommunityJoinResponse(m)
      PROVE  KindsStay
  <2>1. PICK kind \in JoinKinds : Resolve(m.to, kind, m.from, m.body)
    BY <1>3 DEF OnJoinResponse, OnCommunityJoinResponse, JoinKinds
  <2>2. m.from \in Nodes /\ m.to \in Nodes
    BY <1>1 DEF WireInv, MessageSound
  <2>3. <<kind, m.from>> \in Keys
    BY <2>2, KeyFacts DEF JoinKinds
  <2> QED
    BY <1>1, <2>1, <2>2, <2>3, ResolveStays
<1>4. ASSUME NEW m \in wire, OnOverlayDelivery(m) \/ OnManifestDelivery(m)
      PROVE  KindsStay
  <2>1. m.to \in Nodes /\ <<m.kind, m.body[1]>> \in Keys
    BY <1>1, <1>4 DEF WireInv, MessageSound, OnOverlayDelivery, OnManifestDelivery
  <2>2. Resolve(m.to, m.kind, m.body[1], m.body[2])
    BY <1>4 DEF OnOverlayDelivery, OnManifestDelivery, TakeDelivery
  <2> QED
    BY <1>1, <2>1, <2>2, ResolveStays
<1>5. ASSUME NEW m \in wire,
             \/ \E confirmed \in BOOLEAN : OnJoinRequest(m, confirmed)
             \/ \E accept \in BOOLEAN : OnCommunityJoinRequest(m, accept)
             \/ OnOverlayOffer(m) \/ OnManifestOffer(m)
             \/ OnOverlayRequest(m) \/ OnManifestRequest(m)
             \/ OnPeerIntro(m)
      PROVE  UNCHANGED waits
  BY <1>5 DEF OnJoinRequest, OnCommunityJoinRequest, Decide, OnOverlayOffer,
       OnManifestOffer, Remember, OnOverlayRequest, OnManifestRequest, Serve, OnPeerIntro
<1> QED
  BY <1>2, <1>3, <1>4, <1>5 DEF Arrival

\* Calls as they were, some of them ended, over futures of the same kinds.
LEMMA LoadingStays ==
  ASSUME LoadingInv, KindsStay, DOMAIN calls' = DOMAIN calls,
         \A i \in DOMAIN calls : calls'[i] = calls[i] \/ calls'[i].ended = TRUE
  PROVE  LoadingInv'
BY DEF LoadingInv, LoadsNext, KindsStay

LEMMA EndsStays ==
  ASSUME CallsInv, LoadingInv, KindsStay, NEW i \in DOMAIN calls, Ends(i)
  PROVE  LoadingInv'
<1> DEFINE over == [calls[i] EXCEPT !.ended = TRUE]
<1>1. calls \in Seq(CallRecord) /\ calls[i] \in CallRecord
  BY DEF CallsInv
<1>2. calls' = [calls EXCEPT ![i] = over] /\ over.ended = TRUE
  BY <1>1 DEF Ends, CallRecord
<1> HIDE DEF over
<1>3. /\ DOMAIN calls' = DOMAIN calls
      /\ \A k \in DOMAIN calls : calls'[k] = calls[k] \/ calls'[k].ended = TRUE
  BY <1>1, <1>2
<1> QED
  BY <1>3, LoadingStays

LEMMA BeginsStays ==
  ASSUME CallsInv, LoadingInv, KindsStay, NEW n, NEW tool, NEW p, NEW left,
         Begins(n, tool, p, left),
         LoadsNext(Call(n, tool, p, left)) =>
           /\ Len(waits) + 1 \in DOMAIN waits'
           /\ waits'[Len(waits) + 1].kind = "overlay"
  PROVE  LoadingInv'
<1> DEFINE new == Call(n, tool, p, left)
<1>1. calls \in Seq(CallRecord) /\ calls' = Append(calls, new)
      /\ new.wait = Len(waits) + 1
  BY DEF CallsInv, Begins, Call
<1> HIDE DEF new
<1>2. \A i \in DOMAIN calls' :
        (i \in DOMAIN calls /\ calls'[i] = calls[i]) \/ calls'[i] = new
  BY <1>1
<1> QED
  BY <1>1, <1>2 DEF LoadingInv, LoadsNext, KindsStay, new

LEMMA JoinNetworkStays ==
  ASSUME WaitsInv, NEW n, NEW p, NEW left, JoinNetwork(n, p, left)
  PROVE  /\ KindsStay
         /\ left # <<>> => /\ Len(waits) + 1 \in DOMAIN waits'
                           /\ waits'[Len(waits) + 1].kind = "overlay"
<1>1. CASE left # <<>>
  BY <1>1, AwaitStays DEF JoinNetwork, FetchOverlay
<1>2. CASE left = <<>>
  <2>1. Await(n, "join", p)
    BY <1>2 DEF JoinNetwork, SendAndRequest, RequestJoin
  <2> QED
    BY <1>2, <2>1, AwaitStays
<1> QED
  BY <1>1, <1>2

LEMMA ToolStays ==
  ASSUME ServicesInv, LoadingInv, NEW n \in Callers, Tool(n)
  PROVE  LoadingInv'
<1>1. FuturesInv /\ WaitsInv /\ CallsInv
  BY DEF ServicesInv, FuturesInv
<1>2. ASSUME NEW g \in Nodes, NEW to \in Payees, NEW enough \in BOOLEAN,
             DonateAndJoin(n, g, to, enough)
      PROVE  LoadingInv'
  <2>1. Await(n, "join", g) /\ Begins(n, "donate_and_join", g, <<>>)
    BY <1>2 DEF DonateAndJoin, SendAndRequest, RequestJoin
  <2>2. ~ LoadsNext(Call(n, "donate_and_join", g, <<>>))
    BY DEF LoadsNext, Call
  <2> QED
    BY <1>1, <2>1, <2>2, AwaitStays, BeginsStays
<1>3. ASSUME NEW g \in Nodes, JoinViaPeer(n, g)
      PROVE  LoadingInv'
  <2>1. Await(n, "community", g) /\ Begins(n, "join_via_peer", g, <<>>)
    BY <1>3 DEF JoinViaPeer, RequestCommunityJoin
  <2>2. ~ LoadsNext(Call(n, "join_via_peer", g, <<>>))
    BY DEF LoadsNext, Call
  <2> QED
    BY <1>1, <2>1, <2>2, AwaitStays, BeginsStays
<1>4. ASSUME NEW g \in Nodes, NetworkJoin(n, g)
      PROVE  LoadingInv'
  <2> DEFINE left == Missing(n, DefaultOverlays)
  <2>1. Begins(n, "network_join", g, left) /\ JoinNetwork(n, g, left)
    BY <1>4 DEF NetworkJoin
  <2> HIDE DEF left
  <2>2. LoadsNext(Call(n, "network_join", g, left)) => left # <<>>
    BY DEF LoadsNext, Call
  <2> QED
    BY <1>1, <2>1, <2>2, JoinNetworkStays, BeginsStays
<1>5. ASSUME NEW g \in Nodes, NEW id \in ElementsOf(DefaultOverlays),
             FetchAndLoad(n, g, id)
      PROVE  LoadingInv'
  <2>1. Await(n, "overlay", id) /\ Begins(n, "fetch_and_load", g, <<id>>)
    BY <1>5 DEF FetchAndLoad, FetchOverlay
  <2> QED
    BY <1>1, <2>1, AwaitStays, BeginsStays
<1>6. ASSUME NEW g \in Nodes, FetchTheManifest(n, g)
      PROVE  LoadingInv'
  <2>1. Await(n, "manifest", ManifestText) /\ Begins(n, "fetch_manifest", g, <<>>)
    BY <1>6 DEF FetchTheManifest, FetchManifest
  <2>2. ~ LoadsNext(Call(n, "fetch_manifest", g, <<>>))
    BY DEF LoadsNext, Call
  <2> QED
    BY <1>1, <2>1, <2>2, AwaitStays, BeginsStays
<1>7. ASSUME (\E g \in Nodes : PeerAdd(n, g)) \/ (\E id \in Overlays : OverlayPublish(n, id))
      PROVE  LoadingInv'
  <2>1. UNCHANGED <<waits, calls>>
    BY <1>7 DEF PeerAdd, OverlayPublish
  <2> QED
    BY <2>1, LoadingStays DEF KindsStay
<1> QED
  BY <1>2, <1>3, <1>4, <1>5, <1>6, <1>7 DEF Tool

LEMMA ResumeStays ==
  ASSUME ServicesInv, LoadingInv, NEW i \in DOMAIN calls, Resume(i)
  PROVE  LoadingInv'
<1>1. FuturesInv /\ WaitsInv /\ CallsInv
  BY DEF ServicesInv, FuturesInv
<1>2. CASE Ends(i) /\ UNCHANGED wireVars
  <2>1. KindsStay
    BY <1>2 DEF wireVars, KindsStay
  <2> QED
    BY <1>1, <1>2, <2>1, EndsStays
<1>3. ASSUME NEW left, JoinNetwork(calls[i].node, calls[i].peer, left),
             calls[i].tool = "network_join",
             calls' = [calls EXCEPT ![i].left = left, ![i].wait = Len(waits) + 1]
      PROVE  LoadingInv'
  <2> DEFINE going == [calls[i] EXCEPT !.left = left, !.wait = Len(waits) + 1]
  <2>1. calls \in Seq(CallRecord) /\ calls[i] \in CallRecord
    BY <1>1 DEF CallsInv
  <2>2. calls' = [calls EXCEPT ![i] = going]
    BY <1>3, <2>1
  <2>3. going.left = left /\ going.wait = Len(waits) + 1
        /\ going.tool = calls[i].tool
    BY <2>1 DEF CallRecord
  <2> HIDE DEF going
  <2>4. /\ DOMAIN calls' = DOMAIN calls /\ calls'[i] = going
        /\ \A k \in DOMAIN calls : k # i => calls'[k] = calls[k]
    BY <2>1, <2>2
  <2>5. /\ KindsStay
        /\ left # <<>> => /\ Len(waits) + 1 \in DOMAIN waits'
                          /\ waits'[Len(waits) + 1].kind = "overlay"
    BY <1>1, <1>3, JoinNetworkStays
  <2>6. LoadsNext(going) => left # <<>>
    BY <1>3, <2>3 DEF LoadsNext
  <2> SUFFICES ASSUME NEW k \in DOMAIN calls', ~ calls'[k].ended, LoadsNext(calls'[k])
               PROVE  /\ calls'[k].wait \in DOMAIN waits'
                      /\ waits'[calls'[k].wait].kind = "overlay"
    BY DEF LoadingInv
  <2>7. CASE k = i
    BY <2>3, <2>4, <2>5, <2>6, <2>7
  <2>8. CASE k # i
    <3>1. k \in DOMAIN calls /\ calls'[k] = calls[k]
      BY <2>4, <2>8
    <3>2. calls[k].wait \in DOMAIN waits /\ waits[calls[k].wait].kind = "overlay"
      BY <3>1 DEF LoadingInv
    <3> QED
      BY <2>5, <3>1, <3>2 DEF KindsStay
  <2> QED
    BY <2>7, <2>8
<1> QED
  BY <1>2, <1>3 DEF Resume, ResumeAndEnd, EndJoining, CallDies, ResumeJoining

LEMMA LoadingKept ==
  ASSUME ServicesInv, LoadingInv, [Next]_vars
  PROVE  LoadingInv'
<1>1. FuturesInv /\ WaitsInv
  BY DEF ServicesInv, FuturesInv
<1>2. CASE KindsStay /\ UNCHANGED calls
  BY <1>2, LoadingStays
<1>3. ASSUME UNCHANGED <<waits, calls>>
      PROVE  KindsStay /\ UNCHANGED calls
  BY <1>3 DEF KindsStay
<1>4. ASSUME NEW w \in DOMAIN waits, TimesOut(w)
      PROVE  KindsStay /\ UNCHANGED calls
  BY <1>1, <1>4, TimeoutStays DEF TimesOut
<1>5. ASSUME NEW n \in Nodes, Restart(n)
      PROVE  KindsStay /\ UNCHANGED calls
  BY <1>1, <1>5, RebootStays DEF Restart
<1>6. ASSUME Arrival
      PROVE  KindsStay /\ UNCHANGED calls
  BY <1>6, ArrivalStays DEF Arrival
<1>7. ASSUME NEW n, NEW p, Offer(n, p)
      PROVE  UNCHANGED <<waits, calls>>
  BY <1>7 DEF Offer, OfferOverlay, OfferManifest
<1>8. ASSUME NEW n, NEW p, NEW id, NEW text, Stray(p, n, id, text)
      PROVE  UNCHANGED <<waits, calls>>
  BY <1>8 DEF Stray, StrayDelivery
<1>9. ASSUME UNCHANGED vars
      PROVE  UNCHANGED <<waits, calls>>
  BY <1>9 DEF vars, wireVars
<1> QED
  BY <1>2, <1>3, <1>4, <1>5, <1>6, <1>7, <1>8, <1>9, ToolStays, ResumeStays DEF Next

LEMMA LoadedTyped ==
  ASSUME ServicesInv, LoadingInv, NEW i \in DOMAIN calls, ReadyToResume(i),
         LoadsNext(calls[i]), waits[calls[i].wait].state = "answered"
  PROVE  calls[i].node \in Nodes /\ waits[calls[i].wait].answer \in Overlays
<1> DEFINE w == calls[i].wait
<1>1. /\ calls \in Seq(CallRecord) /\ FetchedWhatWasAsked /\ WaitsInv
  BY DEF ServicesInv, CallsInv, FuturesInv
<1>2. calls[i] \in CallRecord
  BY <1>1
<1>3. w \in DOMAIN waits /\ waits[w].kind = "overlay" /\ waits[w].answer = waits[w].of
  BY <1>1 DEF LoadingInv, ReadyToResume, FetchedWhatWasAsked, FetchKinds
<1>4. <<"overlay", waits[w].of>> \in Keys
  BY <1>1, <1>3 DEF WaitsInv
<1>5. waits[w].of \in Overlays
  BY <1>4 DEF Keys, JoinKinds
<1> QED
  BY <1>2, <1>3, <1>5 DEF CallRecord

LEMMA SourcesKept ==
  ASSUME ServicesInv, LoadingInv, SourcesInv, [Next]_vars
  PROVE  SourcesInv'
<1>1. CASE UNCHANGED registryVars
  BY <1>1 DEF registryVars, SourcesInv
<1>2. ASSUME NEW n \in Nodes, Restart(n)
      PROVE  SourcesInv'
  <2>1. /\ live' = [live EXCEPT ![n] = BootInstances(BootOverlays[n])]
        /\ cache' = cache
    BY <1>2 DEF Restart
  <2> QED
    BY <2>1, BootCompiles DEF SourcesInv
<1>3. ASSUME NEW n \in Callers, Tool(n)
      PROVE  SourcesInv'
  <2>1. n \in Nodes
    BY ServicesAssumption
  <2>2. ASSUME NEW id \in Overlays, OverlayPublish(n, id)
        PROVE  SourcesInv'
    BY <2>1, <2>2, LoadCompiles DEF OverlayPublish
  <2>3. Tool(n) => UNCHANGED registryVars \/ \E id \in Overlays : OverlayPublish(n, id)
    BY DEF Tool, DonateAndJoin, JoinViaPeer, NetworkJoin, FetchAndLoad,
           FetchTheManifest, PeerAdd
  <2> QED
    BY <1>1, <1>3, <2>2, <2>3
<1>4. ASSUME NEW i \in DOMAIN calls, Resume(i)
      PROVE  SourcesInv'
  <2>1. CASE /\ ReadyToResume(i) /\ LoadsNext(calls[i])
             /\ waits[calls[i].wait].state = "answered"
             /\ load(calls[i].node, waits[calls[i].wait].answer)
    BY <2>1, LoadedTyped, LoadCompiles
  <2>2. CASE ResumeAndEnd(i)
    BY <1>1, <2>1, <2>2 DEF ResumeAndEnd, LoadsNext
  <2>3. CASE ResumeJoining(i)
    BY <1>1, <2>1, <2>3 DEF ResumeJoining, TakeFetched, LoadsNext
  <2> QED
    BY <1>1, <1>4, <2>2, <2>3 DEF Resume, EndJoining, CallDies
<1>5. ASSUME \/ Arrival \/ (\E w \in DOMAIN waits : TimesOut(w))
             \/ (\E n, p \in Nodes : Offer(n, p))
             \/ (\E n \in Callers, p \in Nodes, id, text \in Overlays : Stray(p, n, id, text))
             \/ UNCHANGED vars
      PROVE  UNCHANGED registryVars
  BY <1>5 DEF Arrival, TimesOut, Offer, Stray, vars
<1> QED
  BY <1>1, <1>2, <1>3, <1>4, <1>5 DEF Next

\* An accepted source has a class for every message a vector is of, and packs
\* the vector to the bytes of the descriptor.
LEMMA VectorsPacked ==
  ASSUME NEW md, NEW id, NEW src, Compiles(md, id, src), NEW v \in ElementsOf(md.vectors)
  PROVE  /\ v.message \in DOMAIN src.formats
         /\ PackMessage(v.values, src.formats[v.message]) = v.bytes
<1>1. v.message \in {m.name : m \in ElementsOf(md.messages)}
  BY DEF Compiles, validate_schema
<1>2. v.message \in DOMAIN src.formats
  BY <1>1 DEF Compiles, EveryPayloadThere
<1>3. run_test_vector(src.formats[v.message], v)
  BY DEF Compiles
<1> QED
  BY <1>2, <1>3 DEF run_test_vector

LEMMA CompiledInteroperate ==
  ASSUME SourcesInv
  PROVE  InstancesInteroperate
<1>1. ASSUME NEW n \in Nodes, NEW i \in DOMAIN live[n],
             NEW v \in ElementsOf(Descriptor[live[n][i].id].vectors)
      PROVE  /\ v.message \in DOMAIN live[n][i].src.formats
             /\ PackMessage(v.values, live[n][i].src.formats[v.message]) = v.bytes
  <2>1. live[n] \in Seq(Compiled)
    BY DEF SourcesInv
  <2>2. live[n][i] \in Compiled
    BY <2>1
  <2>3. Compiles(Descriptor[live[n][i].id], live[n][i].id, live[n][i].src)
    BY <2>2 DEF Compiled, compile_overlay
  <2> QED
    BY <2>3, VectorsPacked
<1> SUFFICES ASSUME NEW n \in Nodes, NEW p \in Nodes, NEW i \in DOMAIN live[n],
                    NEW k \in DOMAIN live[p], live[n][i].id = live[p][k].id,
                    NEW v \in ElementsOf(Descriptor[live[n][i].id].vectors)
             PROVE  /\ v.message \in DOMAIN live[n][i].src.formats
                    /\ v.message \in DOMAIN live[p][k].src.formats
                    /\ PackMessage(v.values, live[n][i].src.formats[v.message])
                         = PackMessage(v.values, live[p][k].src.formats[v.message])
  BY DEF InstancesInteroperate
<1> QED
  BY <1>1

\* Whoever wrote the sources of an overlay, and whether a node compiled its
\* own at boot, from its cache or from what a model answered after a fetch,
\* all nodes pack its test vectors to the same bytes (protocol/compiler.py,
\* protocol/registry.py).
THEOREM OverlaysInteroperate == Spec => []InstancesInteroperate
<1> DEFINE Inv == ServicesInv /\ LoadingInv /\ SourcesInv
<1>1. Spec => Init /\ [][Next]_vars
  BY PTL DEF Spec
<1>2. Init => Inv
  <2>1. Init => LoadingInv
    BY DEF Init, LoadingInv
  <2> QED
    BY <2>1, ServicesInvInitially, SourcesInitially
<1>3. Inv /\ [Next]_vars => Inv'
  BY ServicesInvKept, LoadingKept, SourcesKept
<1>4. Inv => InstancesInteroperate
  BY CompiledInteroperate
<1> QED
  BY <1>1, <1>2, <1>3, <1>4, PTL

---------------------------------------------------------------------------
\* What the checks of the manifest parser are for: the admission policy of the
\* manifest that all load, which parses, keeps the rules of the community sound
\* and its door open; and when the manifest that scenario_boot writes parses.

CONSTANTS Agents, Networks, Sats

Policy == parse_manifest(Document).admission

Rules == INSTANCE CommunityRules WITH
  MinSats <- Policy.min_sats,
  BootstrapCapSats <- Policy.bootstrap_cap_sats,
  MaxAgentsPerSeedbox <- Policy.max_agents_per_seedbox,
  SeedboxCostSats <- Policy.seedbox_cost_sats

\* The numbers of a policy that parses.
LEMMA PolicyNumbers ==
  /\ Policy.min_sats \in Nat \ {0}
  /\ Policy.bootstrap_cap_sats \in Nat
  /\ Policy.bootstrap_cap_sats # 0 =>
       Policy.bootstrap_cap_sats >= Policy.min_sats
  /\ Policy.max_agents_per_seedbox \in Nat
  /\ Policy.seedbox_cost_sats \in Nat
<1> DEFINE kv == Kv(Document, "Admission")
<1>1. _parse_admission(kv)
  BY ServicesAssumption DEF Parses
<1>2. Policy = AdmissionPolicy(kv)
  BY DEF Policy, parse_manifest
<1> HIDE DEF kv
<1>3. Policy.min_sats \in Nat \ {0}
  BY <1>1, <1>2 DEF _parse_admission, AdmissionPolicy
<1>4. ASSUME NEW key, NEW max \in Nat, _parse_optional_uint(kv, key, max)
      PROVE  Declared(kv, key) \in Nat
  BY <1>4 DEF _parse_optional_uint, Declared, Within
<1>5. /\ Policy.bootstrap_cap_sats = Declared(kv, "bootstrap_cap_sats")
      /\ Policy.max_agents_per_seedbox = Declared(kv, "max_agents_per_seedbox")
      /\ Policy.seedbox_cost_sats = Declared(kv, "seedbox_cost_sats")
      /\ Policy.min_sats = kv.min_sats
  BY <1>2 DEF AdmissionPolicy
<1>6. /\ Policy.bootstrap_cap_sats \in Nat
      /\ Policy.max_agents_per_seedbox \in Nat
      /\ Policy.seedbox_cost_sats \in Nat
  <2>1. MaxUint64 \in Nat /\ 65535 \in Nat
    BY ManifestAssumption
  <2>2. QED  BY <2>1, <1>1, <1>4, <1>5 DEF _parse_admission
<1>7. ASSUME Declared(kv, "bootstrap_cap_sats") # 0
      PROVE  Declared(kv, "bootstrap_cap_sats") = kv.bootstrap_cap_sats
  BY <1>7 DEF Declared
<1>8. Policy.bootstrap_cap_sats # 0 => Policy.bootstrap_cap_sats >= Policy.min_sats
  BY <1>1, <1>5, <1>7 DEF _parse_admission
<1>9. QED  BY <1>3, <1>6, <1>8

\* The parser (protocol/manifest.py:168-213) checks what the community's
\* rules assume of a manifest, so the results about them hold of every
\* network whose manifest parses.
THEOREM PolicyIsSound ==
  ASSUME Sats \subseteq Int
  PROVE  Rules!PolicyAssumption
BY PolicyNumbers DEF Rules!PolicyAssumption

\* No history of donations locks a newcomer out: under a policy that parses,
\* the least donation by one who is not a member is admitted in every state of
\* the community (agent/community_state.py:255-289).
THEOREM NewcomersFit ==
  ASSUME NEW s \in Rules!CommunityState, NEW e,
         e.shape, e.reporter \notin s.members, e.sats = Policy.min_sats
  PROVE  Rules!ValidDonation(s, e)
<1>1. /\ Policy.min_sats \in Nat \ {0}
      /\ Policy.bootstrap_cap_sats \in Nat
      /\ Policy.bootstrap_cap_sats # 0 => Policy.bootstrap_cap_sats >= Policy.min_sats
  BY PolicyNumbers
<1>2. Policy.min_sats <= Rules!DonationCap(s)
  <2>1. CASE s.donations = <<>>
    BY <1>1, <2>1 DEF Rules!DonationCap, Rules!EffectiveBootstrapCap
  <2>2. CASE s.donations # <<>>
    <3>1. s.donated \in Int /\ Len(s.donations) \in Nat \ {0}
      BY <2>2 DEF Rules!CommunityState
    <3>2. s.donated \div Len(s.donations) \in Int
      BY <3>1
    <3>3. QED  BY <1>1, <2>2, <3>2 DEF Rules!DonationCap, Rules!Larger
  <2>3. QED  BY <2>1, <2>2
<1>3. e.sats >= Policy.min_sats /\ e.sats <= Rules!DonationCap(s)
  BY <1>1, <1>2
<1>4. QED  BY <1>3 DEF Rules!ValidDonation

---------------------------------------------------------------------------

\* A key that one line gives has that line's value.
LEMMA KeyGivenOnce ==
  ASSUME NEW lines, NEW i \in Of(lines, "key"), i \in Int,
         \A j \in Of(lines, "key") : lines[j].cells[1] = lines[i].cells[1] => j = i
  PROVE  /\ lines[i].cells[1] \in DOMAIN _parse_kv_list(lines)
         /\ _parse_kv_list(lines)[lines[i].cells[1]] = lines[i].cells[2]
<1>1. (CHOOSE j \in Of(lines, "key") :
          /\ lines[j].cells[1] = lines[i].cells[1]
          /\ \A k \in Of(lines, "key") : lines[k].cells[1] = lines[i].cells[1] => k <= j) = i
  <2>1. \A k \in Of(lines, "key") : lines[k].cells[1] = lines[i].cells[1] => k <= i
    OBVIOUS
  <2>2. QED  BY <2>1
<1>2. QED  BY <1>1 DEF _parse_kv_list

\* The section of a name is the one that bears it alone.
LEMMA SectionGivenOnce ==
  ASSUME NEW doc, NEW n \in DOMAIN doc,
         \A k \in DOMAIN doc : doc[k].name = doc[n].name => k = n
  PROVE  Body(doc, doc[n].name) = doc[n].lines
<1>1. (CHOOSE k \in DOMAIN doc : doc[k].name = doc[n].name) = n
  OBVIOUS
<1>2. QED  BY <1>1 DEF Body

\* The four sections that scenario_boot writes pass the parser's checks.
LEMMA IdentityPasses ==
  ASSUME NEW s, s.name \in Names, "1.0.0" \in Versions
  PROVE  _parse_identity(_parse_kv_list(IdentityLines(s)))
<1>1. SUFFICES ASSUME NEW lines, lines = IdentityLines(s)
               PROVE  _parse_identity(_parse_kv_list(lines))
  OBVIOUS
<1>2. /\ DOMAIN lines = {1, 2, 3}
      /\ lines[1] = Line("key", <<"name", s.name>>)
      /\ lines[2] = Line("key", <<"version", "1.0.0">>)
      /\ lines[3] = Line("key", <<"description", "generated">>)
  BY <1>1 DEF IdentityLines
<1>3. /\ Of(lines, "key") = {1, 2, 3}
      /\ lines[1].cells = <<"name", s.name>>
      /\ lines[2].cells = <<"version", "1.0.0">>
      /\ lines[3].cells = <<"description", "generated">>
  BY <1>2 DEF Of, Line
<1>4. /\ lines[1].cells[1] = "name" /\ lines[1].cells[2] = s.name
      /\ lines[2].cells[1] = "version" /\ lines[2].cells[2] = "1.0.0"
      /\ lines[3].cells[1] = "description"
  BY <1>3
<1>5. /\ "name" \in DOMAIN _parse_kv_list(lines)
      /\ _parse_kv_list(lines)["name"] = s.name
  BY <1>3, <1>4, KeyGivenOnce
<1>6. /\ "version" \in DOMAIN _parse_kv_list(lines)
      /\ _parse_kv_list(lines)["version"] = "1.0.0"
  BY <1>3, <1>4, KeyGivenOnce
<1>7. "description" \in DOMAIN _parse_kv_list(lines)
  BY <1>3, <1>4, KeyGivenOnce
<1>8. QED  BY <1>5, <1>6, <1>7 DEF _parse_identity

LEMMA AdmissionPasses ==
  ASSUME NEW coords, coords.wallet_address \in Addresses
  PROVE  _parse_admission(_parse_kv_list(AdmissionLines(coords)))
<1>1. SUFFICES ASSUME NEW lines, lines = AdmissionLines(coords)
               PROVE  _parse_admission(_parse_kv_list(lines))
  OBVIOUS
<1>2. /\ DOMAIN lines = 1 .. 6
      /\ lines[1] = Line("key", <<"gatekeeper_address", coords.wallet_address>>)
      /\ lines[2] = Line("key", <<"min_sats", 10000>>)
      /\ lines[3] = Line("key", <<"min_confirmations", 0>>)
      /\ lines[4] = Line("key", <<"bootstrap_cap_sats", 100000>>)
      /\ lines[5] = Line("key", <<"max_agents_per_seedbox", 3>>)
      /\ lines[6] = Line("key", <<"seedbox_cost_sats", 20000>>)
  BY <1>1 DEF AdmissionLines
<1>3. Of(lines, "key") = {1, 2, 3, 4, 5, 6}
  BY <1>2 DEF Of, Line
<1>4. /\ lines[1].cells[1] = "gatekeeper_address"
      /\ lines[1].cells[2] = coords.wallet_address
      /\ lines[2].cells[1] = "min_sats" /\ lines[2].cells[2] = 10000
      /\ lines[3].cells[1] = "min_confirmations" /\ lines[3].cells[2] = 0
      /\ lines[4].cells[1] = "bootstrap_cap_sats" /\ lines[4].cells[2] = 100000
      /\ lines[5].cells[1] = "max_agents_per_seedbox" /\ lines[5].cells[2] = 3
      /\ lines[6].cells[1] = "seedbox_cost_sats" /\ lines[6].cells[2] = 20000
  BY <1>2 DEF Line
<1>5. \A i, j \in {1, 2, 3, 4, 5, 6} : lines[j].cells[1] = lines[i].cells[1] => j = i
  BY <1>4
<1>6. \A i \in {1, 2, 3, 4, 5, 6} :
        /\ lines[i].cells[1] \in DOMAIN _parse_kv_list(lines)
        /\ _parse_kv_list(lines)[lines[i].cells[1]] = lines[i].cells[2]
  BY <1>3, <1>5, KeyGivenOnce
<1>7. SUFFICES ASSUME NEW kv, kv = _parse_kv_list(lines)
               PROVE  _parse_admission(kv)
  OBVIOUS
<1>8. /\ {"gatekeeper_address", "min_sats", "min_confirmations", "bootstrap_cap_sats",
          "max_agents_per_seedbox", "seedbox_cost_sats"} \subseteq DOMAIN kv
      /\ kv["gatekeeper_address"] = coords.wallet_address
      /\ kv["min_sats"] = 10000 /\ kv["min_confirmations"] = 0
      /\ kv["bootstrap_cap_sats"] = 100000 /\ kv["max_agents_per_seedbox"] = 3
      /\ kv["seedbox_cost_sats"] = 20000
  BY <1>4, <1>6, <1>7
<1>9. Declared(kv, "bootstrap_cap_sats") = 100000
  BY <1>8 DEF Declared
<1>10. /\ _parse_optional_uint(kv, "bootstrap_cap_sats", MaxUint64)
       /\ _parse_optional_uint(kv, "max_agents_per_seedbox", 65535)
       /\ _parse_optional_uint(kv, "seedbox_cost_sats", MaxUint64)
  BY <1>8, ManifestAssumption DEF _parse_optional_uint, Within
<1>11. QED  BY <1>8, <1>9, <1>10 DEF _parse_admission, Within

LEMMA PeersPass ==
  ASSUME NEW coords, coords.pubkey_hex \in PublicKeys,
         coords.host \in Hosts, _port(coords.port)
  PROVE  _parse_genesis_peers(PeerLines(coords))
<1>1. SUFFICES ASSUME NEW lines, lines = PeerLines(coords)
               PROVE  _parse_genesis_peers(lines)
  OBVIOUS
<1>2. /\ DOMAIN lines = {1, 2, 3}
      /\ lines[1] = Line("row", <<"host", "port", "pubkey_hex">>)
      /\ lines[2] = Line("rule", <<>>)
      /\ lines[3] = Line("row", <<coords.host, coords.port, coords.pubkey_hex>>)
  BY <1>1 DEF PeerLines
<1>3. /\ Of(lines, "row") = {1, 3}
      /\ lines[1].cells = <<"host", "port", "pubkey_hex">>
      /\ lines[3].cells = <<coords.host, coords.port, coords.pubkey_hex>>
  BY <1>2 DEF Of, Line
<1>4. IsHeader(lines, 1) /\ ~ IsHeader(lines, 3)
  BY <1>3 DEF IsHeader
<1>5. /\ Len(lines[3].cells) = 3 /\ lines[3].cells[1] \in Hosts
      /\ Within(lines[3].cells[2], 1024, 65535) /\ lines[3].cells[3] \in PublicKeys
  BY <1>3 DEF _port
<1>6. \A i \in Of(lines, "row") : i = 1 \/ i = 3
  BY <1>3
<1>7. 1 \in Of(lines, "row") /\ 3 \in Of(lines, "row")
  BY <1>3
<1>8. \A j \in Of(lines, "row") \ {3} : IsHeader(lines, j)
  BY <1>4, <1>6
<1>9. QED  BY <1>3, <1>4, <1>5, <1>6, <1>7, <1>8 DEF _parse_genesis_peers

LEMMA OverlaysPass ==
  ASSUME NEW hashes, \A i, j \in DOMAIN hashes : hashes[i] = hashes[j] => i = j
  PROVE  _parse_default_overlays(OverlayLines(hashes))
<1>1. CASE hashes = <<>>
  <2>1. /\ DOMAIN OverlayLines(hashes) = {1}
        /\ OverlayLines(hashes)[1] = Line("text", <<>>)
    BY <1>1 DEF OverlayLines
  <2>2. Of(OverlayLines(hashes), "sha1") = {}
    BY <2>1 DEF Of, Line
  <2>3. QED  BY <2>2 DEF _parse_default_overlays
<1>2. CASE hashes # <<>>
  <2>1. OverlayLines(hashes) = [i \in DOMAIN hashes |-> Line("sha1", hashes[i])]
    BY <1>2 DEF OverlayLines
  <2>2. \A i \in DOMAIN OverlayLines(hashes) :
          i \in DOMAIN hashes /\ OverlayLines(hashes)[i].cells = hashes[i]
    BY <2>1 DEF Line
  <2>3. QED  BY <2>2 DEF _parse_default_overlays, Of
<1>3. QED  BY <1>1, <1>2

\* Of the scenarios that parse_scenario takes, those whose name is snake case
\* and whose genesis agent publishes no overlay twice get a manifest that
\* parse_manifest takes (scenario_boot.py:769-809); of the other scenarios the
\* boot stops half way, at the first agent it hands the manifest to.
THEOREM BuiltManifestParses ==
  ASSUME NEW s, NEW coords, NEW hashes,
         s.name \in Names, "1.0.0" \in Versions,
         coords.wallet_address \in Addresses, coords.pubkey_hex \in PublicKeys,
         coords.host \in Hosts, _port(coords.port),
         \A i, j \in DOMAIN hashes : hashes[i] = hashes[j] => i = j
  PROVE  Parses(_build_manifest_md(s, coords, hashes))
<1>1. SUFFICES ASSUME NEW doc, doc = _build_manifest_md(s, coords, hashes)
               PROVE  Parses(doc)
  OBVIOUS
<1>2. /\ DOMAIN doc = 1 .. 4
      /\ doc[1] = Section("Identity", IdentityLines(s))
      /\ doc[2] = Section("Admission", AdmissionLines(coords))
      /\ doc[3] = Section("GenesisPeers", PeerLines(coords))
      /\ doc[4] = Section("DefaultOverlays", OverlayLines(hashes))
  BY <1>1 DEF _build_manifest_md
<1>3. /\ doc[1].name = "Identity" /\ doc[1].lines = IdentityLines(s)
      /\ doc[2].name = "Admission" /\ doc[2].lines = AdmissionLines(coords)
      /\ doc[3].name = "GenesisPeers" /\ doc[3].lines = PeerLines(coords)
      /\ doc[4].name = "DefaultOverlays" /\ doc[4].lines = OverlayLines(hashes)
  BY <1>2 DEF Section
<1>4. \A i, k \in 1 .. 4 : doc[k].name = doc[i].name => k = i
  BY <1>3
<1>5. /\ Body(doc, "Identity") = IdentityLines(s)
      /\ Body(doc, "Admission") = AdmissionLines(coords)
      /\ Body(doc, "GenesisPeers") = PeerLines(coords)
      /\ Body(doc, "DefaultOverlays") = OverlayLines(hashes)
  <2>1. \A n \in 1 .. 4 : Body(doc, doc[n].name) = doc[n].lines
    BY <1>2, <1>4, SectionGivenOnce
  <2>2. QED  BY <1>3, <2>1
<1>6. _check_required_sections(doc, REQUIRED_SECTIONS)
  <2>1. /\ DOMAIN REQUIRED_SECTIONS = 1 .. 4
        /\ \A i \in 1 .. 4 : REQUIRED_SECTIONS[i] = doc[i].name
    BY <1>3 DEF REQUIRED_SECTIONS
  <2>2. QED  BY <1>2, <1>4, <2>1 DEF _check_required_sections
<1>7. QED  BY <1>5, <1>6, IdentityPasses, AdmissionPasses, PeersPass, OverlaysPass
           DEF Parses, Kv
=============================================================================

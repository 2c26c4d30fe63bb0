---------------------------- MODULE SeedboxWire ----------------------------
(***************************************************************************)
(* SeedboxCommunity (communication/community.py): the bootstrap overlay on *)
(* which nodes ask to be admitted, hand out overlay descriptors and        *)
(* network manifests, and introduce themselves after an admission.         *)
(*                                                                         *)
(* Messages are UDP datagrams: once sent, one may arrive late, in any      *)
(* order, more than once, or never.  So the wire is the set of everything  *)
(* sent, and an arrival leaves it as it is.                                *)
(*                                                                         *)
(* A request creates a future and files it in a dict under the peer asked  *)
(* (joins) or the hash wanted (fetches).  The caller awaits it with a      *)
(* timeout.  The four dicts are one variable here, keyed by <<kind, x>>.   *)
(***************************************************************************)
EXTENDS NetworkNodes, Naturals, Sequences, FiniteSets

CONSTANTS
  ManifestIds,  \* ids of network manifests
  Anonymous,    \* nodes configured without a wallet address
  Oversized,    \* texts above MAX_OVERLAY_BYTES
  MockNetwork,  \* btc_network is "mock": no transaction is looked up
  MaxWaits      \* bound on the requests made

ASSUME WireAssumption ==
  /\ IsFiniteSet(Nodes)
  /\ MaxWaits \in Nat
  /\ Anonymous \subseteq Nodes
  /\ MockNetwork \in BOOLEAN
  /\ None \notin Nodes \cup Overlays \cup ManifestIds \cup BOOLEAN

VARIABLES
  wire,       \* every datagram sent so far
  waits,      \* futures: who waits, for which key, what became of it
  pending,    \* _pending_joins, _pending_community_joins, _pending_fetches,
              \* _pending_manifest_fetches: the newest future of each key
  published,  \* _published and _published_manifests
  offers,     \* _known_offers, _known_manifest_offers: pairs <<id, peer>>
  known,      \* network.verified_peers
  peerMeta,   \* _peer_meta: the catalogue of each introduced peer
  accepted    \* history: <<gatekeeper, kind, joiner>> answered "accepted"

wireVars ==
  <<wire, waits, pending, published, offers, known, peerMeta, accepted>>

JoinKinds == {"join", "community"}
FetchKinds == {"overlay", "manifest"}
Keys == (JoinKinds \X Nodes) \cup ({"overlay"} \X Overlays)
          \cup ({"manifest"} \X ManifestIds)

\* The text t hashes to its own id: a text is named by its hash.
Message(type, kind, from, to, body) ==
  [type |-> type, kind |-> kind, from |-> from, to |-> to, body |-> body]

\* A node comes up serving some texts and knowing some peers.
WireInit(serves, knows) ==
  /\ wire = {}
  /\ waits = <<>>
  /\ pending = [n \in Nodes |-> [k \in Keys |-> 0]]
  /\ published = serves
  /\ offers = [n \in Nodes |-> {}]
  /\ known = knows
  /\ peerMeta = [n \in Nodes |-> [p \in Nodes |-> None]]
  /\ accepted = {}

Send(messages) == wire' = wire \cup messages

---------------------------------------------------------------------------
\* Futures.

\* The future replaces the one filed under the same key, if any: that
\* caller is left with its timeout.
Await(n, kind, x) ==
  /\ Len(waits) < MaxWaits
  /\ waits' = Append(waits, [node |-> n, kind |-> kind, of |-> x,
                             state |-> "waiting", answer |-> None])
  /\ pending' = [pending EXCEPT ![n][<<kind, x>>] = Len(waits) + 1]

\* pop the future; set its result unless it is done.
Resolve(n, kind, x, answer) ==
  LET w == pending[n][<<kind, x>>] IN
  /\ pending' = [pending EXCEPT ![n][<<kind, x>>] = 0]
  /\ waits' = IF w # 0 /\ waits[w].state = "waiting"
              THEN [waits EXCEPT ![w].state = "answered", ![w].answer = answer]
              ELSE waits

\* Mutant: the timeout belongs to the slot, not to the caller.
TimeoutOfSlot(w) ==
  /\ waits[w].state = "waiting"
  /\ pending[waits[w].node][<<waits[w].kind, waits[w].of>>] = w
  /\ waits' = [waits EXCEPT ![w].state = "timed_out"]
  /\ UNCHANGED <<wire, pending, published, offers, known, peerMeta, accepted>>

\* asyncio.wait_for gives up: the future is cancelled and stays filed.
Timeout(w) ==
  /\ waits[w].state = "waiting"
  /\ waits' = [waits EXCEPT ![w].state = "timed_out"]
  /\ UNCHANGED <<wire, pending, published, offers, known, peerMeta, accepted>>

---------------------------------------------------------------------------
\* What a node sends of its own accord.

Intro(n, p) ==
  IF n \in Anonymous THEN {}
  ELSE {Message("intro", None, n, p, published[n] \cap Overlays)}

\* tx: the donation shown to the gatekeeper.
RequestJoin(n, g, tx) ==
  /\ Await(n, "join", g)
  /\ Send({Message("request", "join", n, g, tx)})
  /\ UNCHANGED <<published, offers, known, peerMeta, accepted>>

RequestCommunityJoin(n, g) ==
  /\ Await(n, "community", g)
  /\ Send({Message("request", "community", n, g, None)})
  /\ UNCHANGED <<published, offers, known, peerMeta, accepted>>

FetchOverlay(n, p, h) ==
  /\ Await(n, "overlay", h)
  /\ Send({Message("request", "overlay", n, p, h)})
  /\ UNCHANGED <<published, offers, known, peerMeta, accepted>>

FetchManifest(n, p, h) ==
  /\ Await(n, "manifest", h)
  /\ Send({Message("request", "manifest", n, p, h)})
  /\ UNCHANGED <<published, offers, known, peerMeta, accepted>>

Publishes(n, text) ==
  published' = [published EXCEPT ![n] = @ \cup {text}]

OfferOverlay(n, p, h) ==
  /\ Send({Message("offer", "overlay", n, p, h)})
  /\ UNCHANGED <<waits, pending, published, offers, known, peerMeta, accepted>>

OfferManifest(n, p, h) ==
  /\ Send({Message("offer", "manifest", n, p, h)})
  /\ UNCHANGED <<waits, pending, published, offers, known, peerMeta, accepted>>

\* add_peer on a running node.
Introduced(n, p) == known' = [known EXCEPT ![n] = @ \cup {p}]

---------------------------------------------------------------------------
\* Handlers.  m has arrived at its receiver.

\* Verdict of a gatekeeper on a join: reply, and on acceptance verify the
\* peer and introduce oneself.
Decide(m, accept) ==
  LET gatekeeper == m.to
      joiner == m.from
      reply == Message("response", m.kind, gatekeeper, joiner, accept)
  IN  /\ Send({reply} \cup IF accept THEN Intro(gatekeeper, joiner) ELSE {})
      /\ known' = IF accept THEN [known EXCEPT ![gatekeeper] = @ \cup {joiner}]
                  ELSE known
      /\ accepted' = IF accept THEN accepted \cup {<<gatekeeper, m.kind, joiner>>}
                     ELSE accepted
      /\ UNCHANGED <<waits, pending, published, offers, peerMeta>>

\* Mutant: the donation may have gone to anyone.
VerifyAnyOutput(g, tx, confirmed) == confirmed /\ tx.enough

\* DonationVerifier.verify: the transaction is found, pays enough to this
\* gatekeeper's address and is confirmed.  On the mock network any will do.
verify(g, tx, confirmed) ==
  MockNetwork \/ (confirmed /\ tx.to = g /\ tx.enough)

OnJoinRequest(m, confirmed) ==
  /\ m.type = "request" /\ m.kind = "join"
  /\ Decide(m, verify(m.to, m.body, confirmed))

\* accept: what _handle_community_join says; FALSE without a callback and
\* for an entry that is not a JSON object.
OnCommunityJoinRequest(m, accept) ==
  /\ m.type = "request" /\ m.kind = "community"
  /\ Decide(m, accept)

\* Mutant: whatever join the node waits for takes the answer.
JoinAnswerForAnyone(m) ==
  \E g \in Nodes :
    /\ m.type = "response" /\ m.kind = "join"
    /\ Resolve(m.to, "join", g, m.body)
    /\ Send(IF m.body THEN Intro(m.to, m.from) ELSE {})
    /\ UNCHANGED <<published, offers, known, peerMeta, accepted>>

OnJoinResponse(m) ==
  /\ m.type = "response" /\ m.kind = "join"
  /\ Resolve(m.to, "join", m.from, m.body)
  /\ Send(IF m.body THEN Intro(m.to, m.from) ELSE {})
  /\ UNCHANGED <<published, offers, known, peerMeta, accepted>>

OnCommunityJoinResponse(m) ==
  /\ m.type = "response" /\ m.kind = "community"
  /\ Resolve(m.to, "community", m.from, m.body)
  /\ Send(IF m.body THEN Intro(m.to, m.from) ELSE {})
  /\ UNCHANGED <<published, offers, known, peerMeta, accepted>>

\* Every offer is remembered, per id and peer.
Remember(m) ==
  /\ offers' = [offers EXCEPT ![m.to] = @ \cup {<<m.body, m.from>>}]
  /\ UNCHANGED <<wire, waits, pending, published, known, peerMeta, accepted>>

OnOverlayOffer(m) == m.type = "offer" /\ m.kind = "overlay" /\ Remember(m)

OnManifestOffer(m) == m.type = "offer" /\ m.kind = "manifest" /\ Remember(m)

\* An id that is not published, or a text too long, gets no answer.
Serve(m) ==
  /\ m.body \in published[m.to] \ Oversized
  /\ Send({Message("delivery", m.kind, m.to, m.from, <<m.body, m.body>>)})
  /\ UNCHANGED <<waits, pending, published, offers, known, peerMeta, accepted>>

OnOverlayRequest(m) == m.type = "request" /\ m.kind = "overlay" /\ Serve(m)

OnManifestRequest(m) == m.type = "request" /\ m.kind = "manifest" /\ Serve(m)

\* Mutant: the waiter is taken out before the text is compared.
PopThenCompare(m) ==
  LET id == m.body[1]
      text == m.body[2]
  IN  /\ text \notin Oversized
      /\ IF text = id THEN Resolve(m.to, m.kind, id, text)
         ELSE /\ pending' = [pending EXCEPT ![m.to][<<m.kind, id>>] = 0]
              /\ UNCHANGED waits
      /\ UNCHANGED <<wire, published, offers, known, peerMeta, accepted>>

\* Mutant: the text is not compared with the id it was requested under.
TakeAnyText(m) ==
  LET id == m.body[1]
      text == m.body[2]
  IN  /\ text \notin Oversized
      /\ Resolve(m.to, m.kind, id, text)
      /\ UNCHANGED <<wire, published, offers, known, peerMeta, accepted>>

\* A text that is too long, or is not what its id says, is dropped and the
\* waiter stays; otherwise the newest waiter for the id gets it.
TakeDelivery(m) ==
  LET id == m.body[1]
      text == m.body[2]
  IN  /\ text \notin Oversized
      /\ text = id
      /\ Resolve(m.to, m.kind, id, text)
      /\ UNCHANGED <<wire, published, offers, known, peerMeta, accepted>>

OnOverlayDelivery(m) ==
  m.type = "delivery" /\ m.kind = "overlay" /\ TakeDelivery(m)

OnManifestDelivery(m) ==
  m.type = "delivery" /\ m.kind = "manifest" /\ TakeDelivery(m)

\* The newest introduction to arrive is kept, which need not be the newest
\* one sent.
OnPeerIntro(m) ==
  /\ m.type = "intro"
  /\ peerMeta' = [peerMeta EXCEPT ![m.to][m.from] = m.body]
  /\ UNCHANGED <<wire, waits, pending, published, offers, known, accepted>>

\* A delivery whose text is not the one asked for.
StrayDelivery(p, n, kind, id, text) ==
  /\ text # id
  /\ Send({Message("delivery", kind, p, n, <<id, text>>)})
  /\ UNCHANGED <<waits, pending, published, offers, known, peerMeta, accepted>>

\* The process dies and comes up again: what it kept in memory is gone,
\* and so are its callers.
Rebooted(n, serves, knows) ==
  /\ waits' = [w \in DOMAIN waits |->
                 IF waits[w].node = n /\ waits[w].state = "waiting"
                 THEN [waits[w] EXCEPT !.state = "died"] ELSE waits[w]]
  /\ pending' = [pending EXCEPT ![n] = [k \in Keys |-> 0]]
  /\ published' = [published EXCEPT ![n] = serves[n]]
  /\ offers' = [offers EXCEPT ![n] = {}]
  /\ known' = [known EXCEPT ![n] = knows[n]]
  /\ peerMeta' = [peerMeta EXCEPT ![n] = [p \in Nodes |-> None]]
  /\ UNCHANGED <<wire, accepted>>

---------------------------------------------------------------------------
\* A caller that is told it was accepted was accepted by the very gatekeeper
\* it asked, in the same flow, however answers were delayed, repeated or
\* crossed (community.py:339-344, 411-431).
AcceptedByTheOneAsked ==
  \A w \in DOMAIN waits :
    waits[w].kind \in JoinKinds /\ waits[w].answer = TRUE =>
      <<waits[w].of, waits[w].kind, waits[w].node>> \in accepted

\* A fetch returns the text its id names and no other (community.py:502-513,
\* "a malicious peer could feed us anything").
FetchedWhatWasAsked ==
  \A w \in DOMAIN waits :
    waits[w].kind \in FetchKinds /\ waits[w].state = "answered" =>
      waits[w].answer = waits[w].of

\* Nothing but its answer takes the newest waiter out of its slot: a stray
\* text, another peer's verdict or a repeated answer to an earlier request
\* leaves no caller behind that an answer could still have reached.
NewestWaiterReachable ==
  \A w \in DOMAIN waits :
    LET n == waits[w].node
        key == <<waits[w].kind, waits[w].of>>
    IN  /\ waits[w].state = "waiting"
        /\ \A v \in DOMAIN waits :
             v > w => waits[v].node # n
                        \/ <<waits[v].kind, waits[v].of>> # key
        => pending[n][key] = w
=============================================================================

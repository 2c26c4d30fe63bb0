--------------------------- MODULE AgentServices ---------------------------
(***************************************************************************)
(* The processes of a network at work: the tools an agent calls            *)
(* (agent/mcp_server.py, agent/tools.py) over the seedbox wire protocol    *)
(* and the overlay registry, the boot of a process (agent/cli.py) and its  *)
(* restart by systemd.                                                     *)
(*                                                                         *)
(* A tool runs on the event loop: what it does between two awaits is one   *)
(* step, and messages are handled and other calls made while it awaits.    *)
(***************************************************************************)
EXTENDS SeedboxWire, OverlayRegistry, NetworkManifest

CONSTANTS
  Callers,          \* processes whose agent calls tools
  BootOverlays,     \* per process: --publish-overlay, in order
  BootPeers,        \* per process: peers introduced at boot
  Document,         \* the network's manifest, loaded by all at boot
  ManifestText,     \* its id
  Payees,           \* whose addresses agents send donations to
  MaxExtras         \* bound on restarts, introductions, offers, strays, publications

Manifest == parse_manifest(Document)
DefaultOverlays == Manifest.default_overlays
Genesis == {peer.pubkey_hex : peer \in Manifest.genesis_peers}
GatekeeperOwner == Manifest.admission.gatekeeper_address

ASSUME ServicesAssumption ==
  /\ Callers \subseteq Nodes
  /\ BootOverlays \in [Nodes -> Seq(Overlays)]
  /\ BootPeers \in [Nodes -> SUBSET Nodes]
  /\ Parses(Document)
  /\ DefaultOverlays \in Seq(Overlays)
  /\ PublicKeys = Nodes /\ Addresses = Nodes    \* a node for its key and address
  /\ ManifestText \in ManifestIds
  /\ \A n \in Nodes : \A i \in DOMAIN BootOverlays[n] :
       compile_overlay(BootOverlays[n][i], Stub[BootOverlays[n][i]])

VARIABLES
  calls,      \* tool calls in the order made
  ledger,     \* transactions broadcast
  extras      \* restarts, introductions, offers, strays, publications

vars == <<wireVars, registryVars, calls, ledger, extras>>

---------------------------------------------------------------------------
\* Boot: publish and register the overlays given, load the manifest, which
\* introduces the genesis peers and which a genesis peer serves.

BootServes ==
  [n \in Nodes |-> ElementsOf(BootOverlays[n])
                     \cup (IF n \in Genesis THEN {ManifestText} ELSE {})]
BootKnows == [n \in Nodes |-> (BootPeers[n] \cup Genesis) \ {n}]

Init ==
  /\ WireInit(BootServes, BootKnows)
  /\ cache = [d \in CacheDirs |-> [id \in Overlays |-> None]]
  /\ registered = [n \in Nodes |-> Booted(ElementsOf(BootOverlays[n]))]
  /\ live = [n \in Nodes |-> BootInstances(BootOverlays[n])]
  /\ jobs = {}
  /\ calls = <<>> /\ ledger = {}
  /\ extras = 0

Extra == extras < MaxExtras /\ extras' = extras + 1

Restart(n) ==
  /\ Extra
  /\ Rebooted(n, BootServes, BootKnows)
  /\ registered' = [registered EXCEPT ![n] = Booted(ElementsOf(BootOverlays[n]))]
  /\ live' = [live EXCEPT ![n] = BootInstances(BootOverlays[n])]
  /\ jobs' = {j \in jobs : j.node # n}
  /\ UNCHANGED <<cache, calls, ledger>>

---------------------------------------------------------------------------
\* Tools.  A call remembers the future it awaits and what is left to do.

Call(n, tool, p, left) ==
  [node |-> n, tool |-> tool, peer |-> p, left |-> left,
   wait |-> Len(waits) + 1, ended |-> FALSE]

Begins(n, tool, p, left) ==
  /\ n \in Callers /\ p \in known[n]
  /\ calls' = Append(calls, Call(n, tool, p, left))

Donation(n, to, enough) == [from |-> n, to |-> to, enough |-> enough]

\* wallet.send, and the request that shows the transaction.
SendAndRequest(n, g, tx) ==
  /\ ledger' = ledger \cup {tx}
  /\ RequestJoin(n, g, tx)

\* The agent says whom to pay and how much.
DonateAndJoin(n, g, to, enough) ==
  /\ Begins(n, "donate_and_join", g, <<>>)
  /\ SendAndRequest(n, g, Donation(n, to, enough))
  /\ UNCHANGED <<registryVars, extras>>

\* The entry is in the caller's own log first, so a second call is refused
\* with already_admitted whatever became of the first.
JoinViaPeer(n, g) ==
  /\ \A i \in DOMAIN calls : calls[i].node # n \/ calls[i].tool # "join_via_peer"
  /\ Begins(n, "join_via_peer", g, <<>>)
  /\ RequestCommunityJoin(n, g)
  /\ UNCHANGED <<registryVars, ledger, extras>>

FetchAndLoad(n, p, id) ==
  /\ Begins(n, "fetch_and_load", p, <<id>>)
  /\ FetchOverlay(n, p, id)
  /\ UNCHANGED <<registryVars, ledger, extras>>

FetchTheManifest(n, p) ==
  /\ p \in Genesis
  /\ Begins(n, "fetch_manifest", p, <<>>)
  /\ FetchManifest(n, p, ManifestText)
  /\ UNCHANGED <<registryVars, ledger, extras>>

\* What is left of network_join once the overlays in left are not there yet:
\* fetch the next, or donate to the manifest's address and ask the peer.
JoinNetwork(n, p, left) ==
  IF left # <<>>
  THEN FetchOverlay(n, p, Head(left)) /\ UNCHANGED ledger
  ELSE SendAndRequest(n, p, Donation(n, GatekeeperOwner, TRUE))

\* The list from the first overlay on that is not there yet.
Missing(n, ids) ==
  LET lacking == {i \in DOMAIN ids : registered[n][ids[i]] = None}
      first == CHOOSE i \in lacking : \A k \in lacking : i <= k
  IN  IF lacking = {} THEN <<>> ELSE SubSeq(ids, first, Len(ids))

NetworkJoin(n, p) ==
  /\ p \in Genesis
  /\ LET left == Missing(n, DefaultOverlays) IN
     Begins(n, "network_join", p, left) /\ JoinNetwork(n, p, left)
  /\ UNCHANGED <<registryVars, extras>>

\* The text is served before it is known to compile, and stays so.
OverlayPublish(n, id) ==
  /\ n \in Callers /\ id \notin published[n] /\ Extra
  /\ Publishes(n, id)
  /\ load(n, id)
  /\ UNCHANGED <<wire, waits, pending, offers, known, peerMeta, accepted,
                 calls, ledger>>

PeerAdd(n, p) ==
  /\ n \in Callers /\ p \notin known[n] \cup {n} /\ Extra
  /\ Introduced(n, p)
  /\ UNCHANGED <<wire, waits, pending, published, offers, peerMeta, accepted,
                 registryVars, calls, ledger>>

Ends(i) == calls' = [calls EXCEPT ![i].ended = TRUE]

ReadyToResume(i) ==
  ~ calls[i].ended /\ waits[calls[i].wait].state \in {"answered", "timed_out"}

\* An answer or a timeout ends the tool, except that a text fetched is loaded.
ResumeAndEnd(i) ==
  /\ ReadyToResume(i) /\ calls[i].tool # "network_join"
  /\ LET c == calls[i] IN
     IF c.tool = "fetch_and_load" /\ waits[c.wait].state = "answered"
     THEN load(c.node, waits[c.wait].answer)
     ELSE UNCHANGED registryVars
  /\ Ends(i)
  /\ UNCHANGED <<wireVars, ledger, extras>>

\* network_join after a fetch loads the text and goes on, whatever came of it.
TakeFetched(c) ==
  IF waits[c.wait].state = "answered" THEN load(c.node, waits[c.wait].answer)
  ELSE UNCHANGED registryVars

ResumeJoining(i) ==
  /\ ReadyToResume(i) /\ calls[i].tool = "network_join" /\ calls[i].left # <<>>
  /\ TakeFetched(calls[i])
  /\ LET c == calls[i]
         left == Missing(c.node, Tail(c.left))
     IN  \/ /\ JoinNetwork(c.node, c.peer, left)
            /\ calls' = [calls EXCEPT ![i].left = left, ![i].wait = Len(waits) + 1]
         \/ /\ left = <<>>    \* wallet.send raises: donation_failed
            /\ Ends(i)
            /\ UNCHANGED <<wireVars, ledger>>
  /\ UNCHANGED extras

EndJoining(i) ==
  /\ ReadyToResume(i) /\ calls[i].tool = "network_join" /\ calls[i].left = <<>>
  /\ Ends(i)
  /\ UNCHANGED <<wireVars, registryVars, ledger, extras>>

\* The process that made the call is gone.
CallDies(i) ==
  /\ ~ calls[i].ended /\ waits[calls[i].wait].state = "died"
  /\ Ends(i)
  /\ UNCHANGED <<wireVars, registryVars, ledger, extras>>

---------------------------------------------------------------------------
\* An arrival at a node, of any message ever sent.
Arrival ==
  /\ \E m \in wire :
       \/ \E confirmed \in BOOLEAN : OnJoinRequest(m, confirmed)
       \/ \E accept \in BOOLEAN : OnCommunityJoinRequest(m, accept)
       \/ OnJoinResponse(m) \/ OnCommunityJoinResponse(m)
       \/ OnOverlayOffer(m) \/ OnManifestOffer(m)
       \/ OnOverlayRequest(m) \/ OnManifestRequest(m)
       \/ OnOverlayDelivery(m) \/ OnManifestDelivery(m)
       \/ OnPeerIntro(m)
  /\ UNCHANGED <<registryVars, calls, ledger, extras>>

Offer(n, p) ==
  /\ p \in known[n] /\ Extra
  /\ \/ \E id \in published[n] \cap Overlays : OfferOverlay(n, p, id)
     \/ \E id \in published[n] \cap ManifestIds : OfferManifest(n, p, id)
  /\ UNCHANGED <<registryVars, calls, ledger>>

Stray(p, n, id, text) ==
  /\ p \in known[n]
  /\ Extra
  /\ StrayDelivery(p, n, "overlay", id, text)
  /\ UNCHANGED <<registryVars, calls, ledger>>

TimesOut(w) == Timeout(w) /\ UNCHANGED <<registryVars, calls, ledger, extras>>

Tool(n) ==
  \/ \E g \in Nodes :
       \/ \E to \in Payees, enough \in BOOLEAN : DonateAndJoin(n, g, to, enough)
       \/ JoinViaPeer(n, g) \/ NetworkJoin(n, g)
       \/ \E id \in ElementsOf(DefaultOverlays) : FetchAndLoad(n, g, id)
       \/ FetchTheManifest(n, g) \/ PeerAdd(n, g)
  \/ \E id \in Overlays : OverlayPublish(n, id)

Resume(i) == ResumeAndEnd(i) \/ ResumeJoining(i) \/ EndJoining(i) \/ CallDies(i)

Next ==
  \/ \E n \in Callers : Tool(n)
  \/ Arrival
  \/ \E w \in DOMAIN waits : TimesOut(w)
  \/ \E i \in DOMAIN calls : Resume(i)
  \/ \E n \in Nodes : Restart(n)
  \/ \E n, p \in Nodes : Offer(n, p)
  \/ \E n \in Callers, p \in Nodes, id, text \in Overlays : Stray(p, n, id, text)

\* asyncio runs the timers of wait_for and the coroutines they wake.
Spec ==
  /\ Init /\ [][Next]_vars
  /\ \A w \in 1 .. MaxWaits :
       WF_vars(w \in DOMAIN waits /\ TimesOut(w))
  /\ \A i \in 1 .. MaxWaits :
       WF_vars(i \in DOMAIN calls /\ Resume(i))

---------------------------------------------------------------------------
\* Who was admitted on a donation paid the very gatekeeper that admitted it,
\* and enough (admission/donation_verifier.py:3-6), whatever was paid to
\* others in calls before and whomever network_join asked.
AdmittedByDonation ==
  \A g, n \in Nodes :
    <<g, "join", n>> \in accepted /\ ~ MockNetwork =>
      Donation(n, g, TRUE) \in ledger

\* Every tool call comes to an end: its answer, its timeout or its process
\* (mcp_server.py:140, 338, 464, 485, tools.py:377: each await has a timeout).
CallsReturn ==
  \A i \in 1 .. MaxWaits :
    (i \in DOMAIN calls /\ ~ calls[i].ended) ~> (i \in DOMAIN calls /\ calls[i].ended)
=============================================================================

------------------------------ MODULE Community ------------------------------
(***************************************************************************)
(* The community without a treasurer: agents whose tools (agent/tools.py)  *)
(* append donation, purchase and provisioned entries to their own logs,    *)
(* replicate each other's logs, and each derive the community state by     *)
(* replaying what they hold (agent/runtime.py).                            *)
(*                                                                         *)
(* Replication is what LogReplication promises: a prefix of a peer's log,  *)
(* or one shipped entry, arrives at any time.  An entry is stamped with    *)
(* the number of entries written so far, shifted by its author's clock.    *)
(*                                                                         *)
(* The memo is keyed by the head of the own log and, for each peer file,   *)
(* the tail that the runtime's own PeerLog object has in memory: read from *)
(* the file when it is first touched, moved afterwards only by what this   *)
(* object stores.  The replay reads the files whole, with what the other   *)
(* PeerLog objects on them stored.  A tail stands for the entries the      *)
(* object had indexed when it became the tail; a file the object touched   *)
(* holds an entry it knows, for it is touched when found or stored into.   *)
(***************************************************************************)
EXTENDS CommunityRules, FiniteSetsExt

CONSTANTS
  Manifests,     \* network ids each agent may be told to load
  Skew,          \* how far each agent's clock is ahead
  InitialSats,   \* wallet.initial_balance_sats, 0: untracked
  MaxEntries,    \* bound on the entries written
  MaxRestarts,   \* bound on the restarts of agents
  Shared,        \* agents into whose files other PeerLog objects store too
  MayHide,       \* agents whose log server may cache a head that is behind
  None           \* Python's None

ASSUME CommunityAssumption ==
  /\ Agents \subseteq Nat
  /\ Manifests \in [Agents -> SUBSET Networks]
  /\ Skew \in [Agents -> Nat]
  /\ InitialSats \in Nat /\ MaxEntries \in Nat /\ MaxRestarts \in Nat
  /\ Shared \subseteq Agents /\ MayHide \subseteq Agents
  /\ None \notin Networks

VARIABLES
  entries,    \* every entry written, by anyone
  masked,     \* entries the cached head of their author's server is before
  have,       \* entries in each agent's files: its own log and its peers'
  known,      \* entries indexed by the PeerLog object of each runtime
  manifest,   \* _manifest.network_id of each agent
  memo,       \* _community_state_cache: its key, what was replayed, for whom
  spent,      \* wallet._spent_sats
  earlier,    \* history: what each agent had spent before it was restarted
  restarts

vars == <<entries, masked, have, known, manifest, memo, spent, earlier, restarts>>
logs == <<entries, masked>>
lives == <<earlier, restarts>>

Forgotten == [key |-> {}, held |-> {}, net |-> None]

Init ==
  /\ entries = {} /\ masked = {}
  /\ have = [n \in Agents |-> {}]
  /\ known = [n \in Agents |-> {}]
  /\ manifest = [n \in Agents |-> None]
  /\ memo = [n \in Agents |-> Forgotten]
  /\ spent = [n \in Agents |-> 0]
  /\ earlier = [n \in Agents |-> 0] /\ restarts = 0

LogOf(p) == {e \in entries : e.reporter = p}

---------------------------------------------------------------------------
\* community_state(): the memo when its key matches, else a fresh replay.

\* What the key stands for, with these entries in the files and these in the
\* index: of a file not touched yet, all there is.
Indexed(n, held, index) ==
  {e \in held : e.reporter = n \/ e \in index
                \/ \A f \in index : f.reporter # e.reporter}

\* Mutant: the memo is keyed by the own log only.
MemoHitOwnHead(n, key) ==
  /\ memo[n].net # None
  /\ memo[n].key \cap LogOf(n) = key \cap LogOf(n)

MemoHit(n, key) == memo[n].net # None /\ memo[n].key = key

LookedAt(n, held, index) ==
  LET key == Indexed(n, held, index) IN
  IF MemoHit(n, key) THEN memo[n]
  ELSE [key |-> key, held |-> held, net |-> manifest[n]]

Looked(n) == LookedAt(n, have[n], known[n])

View(n) == Replay(Looked(n).net, Looked(n).held)

RemembersView(n) ==
  /\ memo' = [memo EXCEPT ![n] = Looked(n)]
  /\ known' = [known EXCEPT ![n] = Indexed(n, have[n], @)]

\* Any read-only tool; also a writing tool that a check turns down.
Look(n) ==
  /\ manifest[n] # None
  /\ RemembersView(n)
  /\ UNCHANGED <<logs, have, manifest, spent, lives>>

---------------------------------------------------------------------------
\* The writing tools.

\* append_event on the own log.  Another head is to be served then; a server
\* that looks it up meanwhile may keep the one before (PeerSync).
Log(n, action, sats, intent) ==
  /\ Cardinality(entries) < MaxEntries
  /\ LET k == Cardinality(entries) + 1
         e == [action |-> action, net |-> manifest[n], reporter |-> n,
               sats |-> sats, intent |-> intent, shape |-> TRUE,
               ts |-> k + Skew[n], hash |-> k]
     IN  /\ entries' = entries \cup {e}
         /\ have' = [have EXCEPT ![n] = @ \cup {e}]
         /\ \E hidden \in SUBSET {e} :
              /\ hidden # {} => n \in MayHide
              /\ masked' = (masked \ LogOf(n)) \cup hidden

\* wallet.send
Send(n, sats) ==
  /\ InitialSats > 0 => sats <= InitialSats - spent[n]
  /\ spent' = [spent EXCEPT ![n] = @ + sats]

MayDonate(n, sats) ==
  /\ manifest[n] # None
  /\ n \notin View(n).members
  /\ sats >= MinSats
  /\ sats <= DonationCap(View(n))

\* Mutant: the amount is not compared with the cap.
DonateAnything(n, sats) ==
  /\ manifest[n] # None
  /\ n \notin View(n).members
  /\ sats >= MinSats
  /\ Send(n, sats)
  /\ Log(n, "donation_intent", sats, 0)
  /\ RemembersView(n)
  /\ UNCHANGED <<manifest, lives>>

\* Mutant: the wallet is not debited.
DonateForFree(n, sats) ==
  /\ MayDonate(n, sats)
  /\ Log(n, "donation_intent", sats, 0)
  /\ RemembersView(n)
  /\ UNCHANGED <<manifest, spent, lives>>

\* community_donate_and_join: debit the wallet, then sign and append.
DonateAndJoin(n, sats) ==
  /\ MayDonate(n, sats)
  /\ Send(n, sats)
  /\ Log(n, "donation_intent", sats, 0)
  /\ RemembersView(n)
  /\ UNCHANGED <<manifest, lives>>

\* The append raises after the debit.
DonateFails(n, sats) ==
  /\ MayDonate(n, sats)
  /\ Send(n, sats)
  /\ RemembersView(n)
  /\ UNCHANGED <<logs, have, manifest, lives>>

\* seedbox_purchase_propose
Propose(n) ==
  /\ manifest[n] # None
  /\ n \in View(n).members
  /\ View(n).balance >= SeedboxCostSats
  /\ ThresholdActive(View(n))
  /\ PendingPurchases(View(n)) = 0
  /\ Log(n, "seedbox_purchase_intent", SeedboxCostSats, 0)
  /\ RemembersView(n)
  /\ UNCHANGED <<manifest, spent, lives>>

\* seedbox_provisioned
Provisioned(n) ==
  /\ manifest[n] # None
  /\ n \in View(n).members
  /\ \E i \in 1..Len(View(n).purchases) :
       LET intent == View(n).purchases[i].hash IN
       /\ \A j \in 1..Len(View(n).provisioned) :
            View(n).provisioned[j].intent # intent
       /\ Log(n, "seedbox_provisioned", 0, intent)
  /\ RemembersView(n)
  /\ UNCHANGED <<manifest, spent, lives>>

---------------------------------------------------------------------------
\* load_manifest; the memo stays as it is.
LoadManifest(n) ==
  /\ \E net \in Manifests[n] \ {manifest[n]} :
       manifest' = [manifest EXCEPT ![n] = net]
  /\ UNCHANGED <<logs, have, known, memo, spent, lives>>

\* The index of n's PeerLog when it has stored these entries of p.
Stored(n, p, S) ==
  known[n] \cup (Indexed(n, have[n], known[n]) \cap LogOf(p)) \cup S

\* Mutant: of a peer's log only the newest entry is fetched.
PullNewest(n, p, e) ==
  /\ e \notin known[n]
  /\ \A f \in LogOf(p) : f.hash <= e.hash
  /\ have' = [have EXCEPT ![n] = @ \cup {e}]
  /\ known' = [known EXCEPT ![n] = Stored(n, p, {e})]
  /\ UNCHANGED <<logs, manifest, memo, spent, lives>>

\* The pull loop stores what p's log has up to entry e.
Pull(n, p, e) ==
  /\ n # p /\ e \notin known[n]
  /\ LET S == {f \in LogOf(p) : f.hash <= e.hash} IN
       /\ have' = [have EXCEPT ![n] = @ \cup S]
       /\ known' = [known EXCEPT ![n] = Stored(n, p, S)]
  /\ UNCHANGED <<logs, manifest, memo, spent, lives>>

\* POST /entries, or the watchdog's own pull loop, stores an entry through
\* another PeerLog object.
StoreElsewhere(n, e) ==
  /\ n \in Shared /\ e \notin have[n]
  /\ have' = [have EXCEPT ![n] = @ \cup {e}]
  /\ UNCHANGED <<logs, known, manifest, memo, spent, lives>>

\* _handle_community_join: a gatekeeper stores the donation a joiner shipped
\* and looks whether the joiner is now a member.
JoinRequest(g, n) ==
  /\ n # g /\ manifest[g] # None
  /\ \E e \in LogOf(n) :
       /\ e.action = "donation_intent"
       /\ LET held == have[g] \cup {e}
              index == Stored(g, n, {e}) IN
          /\ have' = [have EXCEPT ![g] = held]
          /\ memo' = [memo EXCEPT ![g] = LookedAt(g, held, index)]
          /\ known' = [known EXCEPT ![g] = Indexed(g, held, index)]
  /\ UNCHANGED <<logs, manifest, spent, lives>>

\* The process of an agent comes up again: its files are there, its network,
\* its memo, its index and what its wallet spent are not (runtime.py, wallet.py);
\* its server looks its head up afresh.
Restart(n) ==
  /\ restarts < MaxRestarts /\ restarts' = restarts + 1
  /\ earlier' = [earlier EXCEPT ![n] = @ + spent[n]]
  /\ spent' = [spent EXCEPT ![n] = 0]
  /\ manifest' = [manifest EXCEPT ![n] = None]
  /\ memo' = [memo EXCEPT ![n] = Forgotten]
  /\ known' = [known EXCEPT ![n] = {}]
  /\ masked' = masked \ LogOf(n)
  /\ UNCHANGED <<entries, have>>

Tool(n) ==
  \/ Look(n) \/ Propose(n) \/ Provisioned(n)
  \/ \E sats \in Sats : DonateAndJoin(n, sats) \/ DonateFails(n, sats)

Next ==
  \E n \in Agents :
    \/ Tool(n)
    \/ LoadManifest(n)
    \/ Restart(n)
    \/ \E p \in Agents :
         \/ \E e \in LogOf(p) : Pull(n, p, e) \/ StoreElsewhere(n, e)
         \/ JoinRequest(n, p)

\* The pull loop of every agent goes on, and gets what is not hidden from it
\* (Convergence of PeerSync); an agent is told its network.
Fairness ==
  \A n \in Agents :
    /\ WF_vars(manifest[n] = None /\ LoadManifest(n))
    /\ \A p \in Agents : WF_vars(\E e \in LogOf(p) \ masked : Pull(n, p, e))

Spec == Init /\ [][Next]_vars /\ Fairness

---------------------------------------------------------------------------
\* The state a tool works on is that of the network loaded and has every entry
\* of the own log and every one the runtime's own PeerLog stored, and nothing
\* the files do not hold: no order of tools, pulls, join requests, restarts and
\* writes of other PeerLog objects lets the memo hide one (runtime.py:472-480,
\* peer_log.py:174-189).  That is so for agents that are told of one network:
\* a second one does not clear the memo.
MemoCovers ==
  \A n \in Agents :
    manifest[n] # None =>
      /\ Looked(n).net = manifest[n]
      /\ Indexed(n, have[n], known[n]) \subseteq Looked(n).held
      /\ Looked(n).held \subseteq have[n]

\* "Invalidated whenever any head advances" (runtime.py:464-466): the state a
\* tool works on is the replay of what the agent's files hold at that moment,
\* for the network it has loaded.
MemoFresh ==
  \A n \in Agents :
    manifest[n] # None => View(n) = Replay(manifest[n], have[n])

\* A donation that passed the local checks admits its author in the state they
\* were made on, although the author's clock may file it before entries the
\* checks took into account (tools.py:282-292); what other PeerLog objects had
\* stored unseen the checks do not know of.
OwnDonationAdmits ==
  [][\A e \in entries' \ entries :
       e.action = "donation_intent" =>
         e.reporter \in Replay(e.net, memo'[e.reporter].held \cup {e}).members]_vars

\* No donation reaches a log unpaid: in one life or another of its author,
\* whose wallet is full again after a restart, the wallet was debited for it,
\* and in no life for more than it held (tools.py:294-300).
DonationsPaid ==
  \A n \in Agents :
    LET donated == {e \in LogOf(n) : e.action = "donation_intent"} IN
    /\ MapThenSumSet(LAMBDA e : e.sats, donated) <= earlier[n] + spent[n]
    /\ InitialSats > 0 => spent[n] <= InitialSats

\* The agents end up with one view, of everything that was written in their
\* network, whatever was written concurrently, by whatever clocks, and in
\* whatever order and by whatever way it arrived; only an entry that its
\* author's server hides may be missing from it (community_state.py:63-69).
ViewsConverge ==
  <>[](\A n \in Agents :
         manifest[n] # None =>
           \E S \in SUBSET masked : View(n) = Replay(manifest[n], entries \ S))

\* "If the wire reply never comes, admission still happens via replication"
\* (tools.py:328-329): once everything is replicated, whoever donated is a
\* member.
AdmissionViaReplication ==
  \A n \in Agents :
    manifest[n] # None /\ have[n] = entries =>
      \A e \in entries :
        e.action = "donation_intent" /\ e.net = manifest[n]
          => e.reporter \in Replay(manifest[n], entries).members
=============================================================================

------------------------------- MODULE PeerSync -------------------------------
(***************************************************************************)
(* How one node replicates the logs of its peers: the pull loop of         *)
(* redteam/integration/pull_loop.py over the HTTP endpoints of             *)
(* redteam/integration/server.py, the PeerLog files it fills               *)
(* (redteam/primitives/peer_log.py), and the other ways into them: the     *)
(* gatekeeper's join handler (agent/runtime.py), POST /entries, and the    *)
(* watchdog process (deploy/watchdog.py), whose own agent pulls into the   *)
(* same directory.                                                         *)
(*                                                                         *)
(* Pullers are independent of one another: the MCP process's pull loop is  *)
(* modelled step by step, of the watchdog's only what it stores.           *)
(* Peers are numbered in the order of peer_urls.  The k-th entry of a peer *)
(* is identified by k, which is its hash; 0 is GENESIS, and also the       *)
(* cursor before the first pull, which the code treats alike.              *)
(*                                                                         *)
(* A peer answers from what its log server cached: the head of the log     *)
(* class (signed_log.py) and the index of server.py.  The peer's log grows *)
(* at any time, also by another process in the middle of a lookup, so that *)
(* a cached head may be behind the file it passes for.                     *)
(***************************************************************************)
EXTENDS StandaloneVerify, FiniteSets

CONSTANTS
  NumPeers,      \* length of peer_urls
  Batch,         \* config.pull_batch
  MaxLog,        \* bound on the length of each peer's log
  Content,       \* what a puller reads of each peer's entries
  Network,       \* the network of the identities
  Reliable,      \* peers that go on answering; the others may fail for ever
  Doubled,       \* bound: per peer, entries the other PeerLogs may store as well
  MaxCrashes     \* bound on the restarts of the MCP process

Peers == 1..NumPeers

ASSUME SyncAssumption ==
  /\ NumPeers \in Nat \ {0}
  /\ Batch \in Nat \ {0}
  /\ MaxLog \in [Peers -> Nat]
  /\ Reliable \subseteq Peers
  /\ Doubled \in [Peers -> SUBSET Nat]
  /\ MaxCrashes \in Nat

\* The PeerLog objects on the node's directory: the runtime's and its HTTP
\* server's, in the MCP process, and the one of the watchdog process.
Instances == {"runtime", "server", "watchdog"}

VARIABLES
  log,        \* length of each peer's own log
  server,     \* head cache of each peer's log server
  copies,     \* lines that hold each entry, per peer file
  scanned,    \* the files each PeerLog has read: the keys of _seen
  seen,       \* _seen of each PeerLog
  cursor,     \* state[peer_url] of the driver
  cooling,    \* peers with next_attempt_mono in the future
  at,         \* the peer the driver is at, 0 while it sleeps
  phase,      \* where the pull of that peer is
  reply,      \* last entry of the batch served
  crashes     \* restarts so far

vars == <<log, server, copies, scanned, seen, cursor, cooling, at, phase, reply,
          crashes>>

peerLog == <<copies, scanned, seen>>
pull == <<cursor, cooling, at, phase, reply>>

Entries(p) == 1..MaxLog[p]

\* A log server's cached head, None when the signature kept with it is not that
\* of the file; and whether a lookup is between its scan and its stat.
Started == [head |-> None, scanning |-> FALSE]

\* accept_entry checks an entry before it stores it.
Unverifiable ==
  {x \in UNION {{p} \X Entries(p) : p \in Peers} :
     ~ verify_foreign_entry(Content[x[1]][x[2]], Network)}
Verifies(p, k) == <<p, k>> \notin Unverifiable

Stored(p) == {k \in Entries(p) : copies[p][k] > 0}

Init ==
  /\ log = [p \in Peers |-> 0]
  /\ server = [p \in Peers |-> Started]
  /\ copies = [p \in Peers |-> [k \in Entries(p) |-> 0]]
  /\ scanned = [i \in Instances |-> {}]
  /\ seen = [i \in Instances |-> [p \in Peers |-> {}]]
  /\ cursor = [p \in Peers |-> 0]
  /\ cooling = {}
  /\ at = 1
  /\ phase = "turn"
  /\ reply = 0
  /\ crashes = 0

---------------------------------------------------------------------------
\* PeerLog.

\* Mutant: the index of a file not read yet is empty.
KnownWithoutScan(i, p) == seen[i][p]

\* The dedup index, filled from the file when the file is first touched.
Known(i, p) == IF p \in scanned[i] THEN seen[i][p] ELSE Stored(p)

\* The files with one more line for each entry of S.
WithLines(p, S) ==
  [copies EXCEPT ![p] = [k \in Entries(p) |->
                           IF k \in S THEN @[k] + 1 ELSE @[k]]]

\* accept_entry for each entry of S, all of which verify.
Accept(i, p, S) ==
  IF S = {} THEN UNCHANGED peerLog
  ELSE /\ copies' = WithLines(p, S \ Known(i, p))
       /\ seen' = [seen EXCEPT ![i][p] = Known(i, p) \cup S]
       /\ scanned' = [scanned EXCEPT ![i] = @ \cup {p}]

\* A peer appends to its own log: another signature than was kept, but the one
\* a lookup that has scanned is about to keep.
Write(p) ==
  /\ log[p] < MaxLog[p]
  /\ log' = [log EXCEPT ![p] = @ + 1]
  /\ server' = [server EXCEPT ![p] = IF @.scanning THEN @ ELSE Started]
  /\ UNCHANGED <<copies, scanned, seen, cursor, cooling, at, phase,
                 reply, crashes>>

\* An entry its author shipped over the overlay reaches the join handler of
\* the runtime: any entry of the author, at any time, any number of times.
Ship(p) ==
  /\ \E k \in 1..log[p] : Verifies(p, k) /\ Accept("runtime", p, {k})
  /\ UNCHANGED <<log, server, cursor, cooling, at, phase, reply, crashes>>

\* POST /entries stores through the server's PeerLog.
Post(p) ==
  /\ \E k \in 1..log[p] :
       k \in Doubled[p] /\ Verifies(p, k) /\ Accept("server", p, {k})
  /\ UNCHANGED <<log, server, cursor, cooling, at, phase, reply, crashes>>

\* The watchdog's pull loop stores an entry through its own PeerLog.
WatchdogPull(p) ==
  /\ \E k \in 1..log[p] :
       k \in Doubled[p] /\ Verifies(p, k) /\ Accept("watchdog", p, {k})
  /\ UNCHANGED <<log, server, cursor, cooling, at, phase, reply, crashes>>

\* The watchdog process ends and a new one starts.
WatchdogRestart ==
  /\ scanned["watchdog"] # {}
  /\ scanned' = [scanned EXCEPT !["watchdog"] = {}]
  /\ seen' = [seen EXCEPT !["watchdog"] = [p \in Peers |-> {}]]
  /\ UNCHANGED <<log, server, copies, cursor, cooling, at, phase, reply, crashes>>

---------------------------------------------------------------------------
\* latest_hash() of a peer's log server, for us or for another puller.

\* The signature is that of the cached head: no scan.
CacheHit(p) == ~ server[p].scanning /\ server[p].head # None

\* Another signature, another head: scan to the end of the file.
Scan(p) ==
  /\ server[p].head = None
  /\ server' = [server EXCEPT ![p].head = log[p], ![p].scanning = TRUE]
  /\ UNCHANGED <<log, peerLog, pull, crashes>>

\* Re-stat after the scan, whether or not the file has grown since.
Restat(p) ==
  /\ server[p].scanning
  /\ server' = [server EXCEPT ![p].scanning = FALSE]
  /\ UNCHANGED <<log, peerLog, pull, crashes>>

LookUp(p) == Scan(p) \/ Restat(p)

\* The process of the peer's server comes up again; its log is there.
PeerRestarts(p) ==
  /\ server[p] # Started
  /\ server' = [server EXCEPT ![p] = Started]
  /\ UNCHANGED <<log, peerLog, pull, crashes>>

---------------------------------------------------------------------------
\* run_pull_loop: the peers in turn, then sleep for an interval.

MoveOn ==
  /\ at' = IF at = NumPeers THEN 0 ELSE at + 1
  /\ phase' = "turn"
  /\ reply' = 0

Wake ==
  /\ at = 0
  /\ at' = 1
  /\ UNCHANGED <<log, server, peerLog, cursor, cooling, phase, reply, crashes>>

Skip ==
  /\ phase = "turn" /\ at \in cooling
  /\ MoveOn
  /\ UNCHANGED <<log, server, peerLog, cursor, cooling, crashes>>

AskHead ==
  /\ phase = "turn" /\ at \in Peers \ cooling
  /\ phase' = "head"
  /\ UNCHANGED <<log, server, peerLog, cursor, cooling, at, reply, crashes>>

\* GET /head answers with the cached head; one that equals the cursor ends
\* the pull.
HeadAnswered(p) ==
  /\ at = p /\ phase = "head"
  /\ CacheHit(p)
  /\ IF server[p].head = cursor[p] /\ cursor[p] # 0
     THEN MoveOn
     ELSE phase' = "entries" /\ UNCHANGED <<at, reply>>
  /\ UNCHANGED <<log, server, peerLog, cursor, cooling, crashes>>

\* The peer serves GET /entries?since=cursor&limit=Batch.  The index is read
\* after the head it is kept for, so it has the whole file while the signature
\* of that head stands, even where the head itself is behind.
EntriesServed(p) ==
  /\ at = p /\ phase = "entries"
  /\ CacheHit(p)
  /\ phase' = "reply"
  /\ reply' = IF cursor[p] + Batch < log[p] THEN cursor[p] + Batch ELSE log[p]
  /\ UNCHANGED <<log, server, peerLog, cursor, cooling, at, crashes>>

\* Mutant: entries that do not verify are stored like the others.
PassesUnchecked(p, last) == last \in cursor[p]..reply

\* The entries of the batch up to last all verify.
Passes(p, last) ==
  /\ last \in cursor[p]..reply
  /\ \A k \in (cursor[p] + 1)..last : Verifies(p, k)

\* Mutant: the cursor moves to the end of the batch, rejected or not.
BatchAcceptedPastReject(p) ==
  /\ at = p /\ phase = "reply"
  /\ \E last \in cursor[p]..reply :
       /\ Passes(p, last)
       /\ last = reply \/ ~ Verifies(p, last + 1)
       /\ Accept("runtime", p, (cursor[p] + 1)..last)
  /\ cursor' = [cursor EXCEPT ![p] = reply]
  /\ MoveOn
  /\ UNCHANGED <<log, server, cooling, crashes>>

\* The batch arrives and is accepted entry by entry, without an await in
\* between; a rejection stops it, duplicates move the cursor.
BatchAccepted(p) ==
  /\ at = p /\ phase = "reply"
  /\ \E last \in cursor[p]..reply :
       /\ Passes(p, last)
       /\ last = reply \/ ~ Verifies(p, last + 1)
       /\ Accept("runtime", p, (cursor[p] + 1)..last)
       /\ cursor' = [cursor EXCEPT ![p] = last]
  /\ MoveOn
  /\ UNCHANGED <<log, server, cooling, crashes>>

\* Writing an entry raises: those before it are stored, but the driver sees
\* a failed pull like any other.
StoreFails(p) ==
  /\ at = p /\ phase = "reply"
  /\ \E last \in cursor[p]..reply :
       Passes(p, last) /\ Accept("runtime", p, (cursor[p] + 1)..last)
  /\ cooling' = cooling \cup {p}
  /\ MoveOn
  /\ UNCHANGED <<log, server, cursor, crashes>>

\* Mutant: a failed pull is retried at once.
PullRetried(p) ==
  /\ at = p /\ phase \in {"head", "entries", "reply"}
  /\ phase' = "turn" /\ reply' = 0
  /\ UNCHANGED <<log, server, peerLog, cursor, cooling, at, crashes>>

\* A request times out or raises: the cursor stays, the peer cools down.
PullFails(p) ==
  /\ at = p /\ phase \in {"head", "entries", "reply"}
  /\ cooling' = cooling \cup {p}
  /\ MoveOn
  /\ UNCHANGED <<log, server, peerLog, cursor, crashes>>

CoolDown(p) ==
  /\ p \in cooling
  /\ cooling' = cooling \ {p}
  /\ UNCHANGED <<log, server, peerLog, cursor, at, phase, reply, crashes>>

---------------------------------------------------------------------------
\* The MCP process dies, possibly within a batch of which only the first
\* entries were fsynced, and starts again with nothing but its files.
Crash ==
  /\ crashes < MaxCrashes
  /\ crashes' = crashes + 1
  /\ \/ UNCHANGED copies
     \/ /\ phase = "reply"
        /\ \E last \in cursor[at]..reply :
             /\ Passes(at, last)
             /\ copies' = WithLines(at, ((cursor[at] + 1)..last)
                                        \ Known("runtime", at))
  /\ scanned' = [scanned EXCEPT !["runtime"] = {}, !["server"] = {}]
  /\ seen' = [seen EXCEPT !["runtime"] = [p \in Peers |-> {}],
                          !["server"] = [p \in Peers |-> {}]]
  /\ cursor' = [p \in Peers |-> 0]
  /\ cooling' = {}
  /\ at' = 1 /\ phase' = "turn" /\ reply' = 0
  /\ UNCHANGED <<log, server>>

PullStep ==
  \/ Wake \/ Skip \/ AskHead
  \/ \E p \in Peers :
       \/ HeadAnswered(p) \/ EntriesServed(p) \/ BatchAccepted(p)
       \/ StoreFails(p) \/ PullFails(p)

Next ==
  \/ PullStep
  \/ \E p \in Peers :
       \/ Write(p) \/ LookUp(p) \/ PeerRestarts(p)
       \/ Ship(p) \/ Post(p) \/ WatchdogPull(p) \/ CoolDown(p)
  \/ WatchdogRestart
  \/ Crash

Requested(p) == at = p /\ phase \in {"head", "entries"}

\* The loop runs and every request ends, at the latest by its timeout; a
\* cool-down passes; a reliable peer goes on with the lookup a request of ours
\* waits for, and does not fail every request for ever.
Fairness ==
  /\ WF_vars(PullStep)
  /\ \A p \in Peers : WF_vars(CoolDown(p))
  /\ \A p \in Reliable :
       /\ SF_vars(Requested(p) /\ Scan(p))
       /\ SF_vars(Requested(p) /\ Restat(p))
       /\ SF_vars(HeadAnswered(p))
       /\ SF_vars(EntriesServed(p))
       /\ SF_vars(BatchAccepted(p))

Spec == Init /\ [][Next]_vars /\ Fairness

---------------------------------------------------------------------------
\* Type invariant.
TypeOK ==
  /\ log \in [Peers -> Nat] /\ \A p \in Peers : log[p] <= MaxLog[p]
  /\ server \in [Peers -> [head : Nat \cup {None}, scanning : BOOLEAN]]
  /\ DOMAIN copies = Peers
  /\ \A p \in Peers : copies[p] \in [Entries(p) -> Nat]
  /\ scanned \in [Instances -> SUBSET Peers]
  /\ seen \in [Instances -> [Peers -> SUBSET Nat]]
  /\ cursor \in [Peers -> Nat]
  /\ cooling \subseteq Peers
  /\ at \in 0..NumPeers
  /\ phase \in {"turn", "head", "entries", "reply"}
  /\ phase # "turn" => at # 0
  /\ reply \in Nat
  /\ crashes \in Nat

\* The cursor never jumps over an entry: all of a peer's entries up to it
\* are stored, however pulls fail, are rejected, race with shipped entries
\* or are cut by a crash (pull_loop.py:94-118; 21-22, "The cursor advances
\* only as far as the last successfully-stored entry").
NoGapBehindCursor ==
  \A p \in Peers : 1..cursor[p] \subseteq Stored(p)

\* A PeerLog writes an entry at most once in its life and rereads the file
\* before it writes again after a restart, so no entry takes more lines than
\* the node has PeerLogs (peer_log.py:120-172).
CopiesBounded ==
  \A p \in Peers : \A k \in Entries(p) :
    copies[p][k] <= Cardinality(Instances)

\* What is stored only grows and only by entries of the peer that verify,
\* across crashes, retries and concurrent ways in.
Replica == INSTANCE LogReplication WITH known <- [p \in Peers |-> Stored(p)]

ImplementsReplication == Replica!Spec

\* The head cache of the peer's server passes for current, or is about to,
\* although the k-th entry came after its scan.
Masked(p, k) == server[p].head # None /\ server[p].head < k

\* Every entry of a reliable peer that no unverifiable one precedes reaches
\* the index of the runtime, and with it the key of its memo, unless the cached
\* head of the peer's server hides it for good, whatever the other peers do to
\* the loop and the other PeerLog objects to the file (pull_loop.py:19-31,
\* runtime.py:464-475, signed_log.py:157-170).
Convergence ==
  \A p \in Reliable : \A k \in Entries(p) :
    (\A j \in 1..k : Verifies(p, j)) =>
      (log[p] >= k ~> k \in Known("runtime", p) \/ []Masked(p, k))
=============================================================================

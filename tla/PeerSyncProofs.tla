--------------------------- MODULE PeerSyncProofs ---------------------------
(***************************************************************************)
(* Proofs about PeerSync, for every number of peers, batch size, bound on  *)
(* the logs and set of unverifiable entries: the type invariant, the       *)
(* cursor that never jumps over an entry, the bound on the lines an entry  *)
(* takes, and that PeerSync implements LogReplication.                     *)
(*                                                                         *)
(* Last, what "verifies" means there: the writer's verify_integrity, the   *)
(* standalone verifier and the peer's check agree on files of any length.  *)
(***************************************************************************)
EXTENDS PeerSync, FiniteSetTheorems, TLAPS

\* The cursor and the batch under way are within the peer's log.
CursorsBounded ==
  /\ \A p \in Peers : cursor[p] <= log[p]
  /\ phase = "reply" => reply <= log[at]

\* A dedup index holds only entries of the file.
SeenStored ==
  \A i \in Instances, p \in Peers : p \in scanned[i] => seen[i][p] \subseteq Stored(p)

\* Only entries the peer wrote and that verify are stored.
StoredVerified ==
  \A p \in Peers : Stored(p) \subseteq {k \in 1..log[p] : Verifies(p, k)}

\* The lines an entry takes and the PeerLogs that could still add one.
MayAdd(i, p, k) == IF k \in Known(i, p) THEN 0 ELSE 1

LinesBounded ==
  \A p \in Peers : \A k \in Entries(p) :
    copies[p][k] + MayAdd("runtime", p, k) + MayAdd("server", p, k)
      + MayAdd("watchdog", p, k) <= 3

SyncInv ==
  /\ TypeOK
  /\ CursorsBounded
  /\ SeenStored
  /\ StoredVerified
  /\ LinesBounded
  /\ NoGapBehindCursor

---------------------------------------------------------------------------
\* What accepting verified entries of p's log does to the PeerLog state.
LEMMA AcceptEffect ==
  ASSUME SyncInv, NEW i \in Instances, NEW p \in Peers,
         NEW S \in SUBSET Entries(p), Accept(i, p, S)
  PROVE  /\ DOMAIN copies' = Peers
         /\ \A q \in Peers : copies'[q] \in [Entries(q) -> Nat]
         /\ scanned' \in [Instances -> SUBSET Peers]
         /\ seen' \in [Instances -> [Peers -> SUBSET Nat]]
         /\ \A q \in Peers :
              Stored(q)' = IF q = p THEN Stored(p) \cup S ELSE Stored(q)
         /\ SeenStored'
         /\ LinesBounded'
<1> USE DEF SyncInv, peerLog
<1>1. CASE S = {}
  <2>1. UNCHANGED peerLog
    BY <1>1 DEF Accept
  <2>2. \A q \in Peers : Stored(q)' = Stored(q) /\ Entries(q)' = Entries(q)
    BY <2>1 DEF Stored, Entries
  <2> QED
    BY <1>1, <2>1, <2>2 DEF TypeOK, SeenStored, LinesBounded, MayAdd, Known
<1>2. CASE S # {}
  <2> DEFINE new == S \ Known(i, p)
  <2>1. /\ copies' = WithLines(p, new)
        /\ seen' = [seen EXCEPT ![i][p] = Known(i, p) \cup S]
        /\ scanned' = [scanned EXCEPT ![i] = @ \cup {p}]
    BY <1>2 DEF Accept
  <2>2. Known(i, p) \subseteq Stored(p) /\ Stored(p) \subseteq Entries(p)
    BY DEF Known, SeenStored, Stored
  <2>3. /\ DOMAIN copies' = Peers
        /\ \A q \in Peers : copies'[q] \in [Entries(q) -> Nat]
        /\ \A q \in Peers : \A k \in Entries(q) :
             copies'[q][k] = IF q = p /\ k \in new THEN copies[q][k] + 1
                             ELSE copies[q][k]
    BY <2>1 DEF WithLines, TypeOK
  <2>4. scanned' \in [Instances -> SUBSET Peers]
    BY <2>1 DEF TypeOK
  <2>5. Entries(p) \subseteq Nat
    BY DEF Entries
  <2>6. seen' \in [Instances -> [Peers -> SUBSET Nat]]
    BY <2>1, <2>2, <2>5 DEF TypeOK
  <2>7. \A q \in Peers :
          Stored(q)' = IF q = p THEN Stored(p) \cup S ELSE Stored(q)
    <3>1. \A q \in Peers : \A k \in Entries(q) :
            copies'[q][k] > 0 <=> copies[q][k] > 0 \/ (q = p /\ k \in new)
      BY <2>3 DEF TypeOK
    <3>2. \A q \in Peers : Stored(q)' = {k \in Entries(q) : copies'[q][k] > 0}
      BY DEF Stored, Entries
    <3> QED BY <2>2, <3>1, <3>2 DEF Stored
  <2>8. \A j \in Instances, q \in Peers :
          Known(j, q)' = IF q = p
                         THEN IF j = i THEN Known(i, p) \cup S
                              ELSE IF p \in scanned[j] THEN Known(j, p)
                              ELSE Stored(p) \cup S
                         ELSE Known(j, q)
    BY <2>1, <2>7 DEF Known, TypeOK
  <2>9. SeenStored'
    BY <2>1, <2>2, <2>7 DEF SeenStored, TypeOK
  <2>10. LinesBounded'
    <3> SUFFICES ASSUME NEW q \in Peers, NEW k \in Entries(q)
                 PROVE  copies'[q][k] + MayAdd("runtime", q, k)'
                          + MayAdd("server", q, k)'
                          + MayAdd("watchdog", q, k)' <= 3
      BY DEF LinesBounded, Entries
    <3>1. /\ "runtime" \in Instances /\ "server" \in Instances
          /\ "watchdog" \in Instances
          /\ i = "runtime" \/ i = "server" \/ i = "watchdog"
      BY DEF Instances
    <3>2. copies[q][k] \in Nat
      BY DEF TypeOK
    <3>3. copies[q][k] + MayAdd("runtime", q, k) + MayAdd("server", q, k)
            + MayAdd("watchdog", q, k) <= 3
      BY DEF LinesBounded
    <3>4. \A j \in Instances :
            /\ MayAdd(j, q, k) \in {0, 1} /\ MayAdd(j, q, k)' \in {0, 1}
            /\ MayAdd(j, q, k)' <= MayAdd(j, q, k)
      BY <2>2, <2>8 DEF MayAdd, Known, SeenStored
    <3>5. CASE q = p /\ k \in new
      <4>1. MayAdd(i, q, k) = 1 /\ MayAdd(i, q, k)' = 0
        BY <2>8, <3>5 DEF MayAdd
      <4>2. copies'[q][k] = copies[q][k] + 1
        BY <2>3, <3>5
      <4> QED BY <3>1, <3>2, <3>3, <3>4, <4>1, <4>2
    <3>6. CASE ~ (q = p /\ k \in new)
      <4>1. copies'[q][k] = copies[q][k]
        BY <2>3, <3>6
      <4> QED BY <3>1, <3>2, <3>3, <3>4, <4>1
    <3> QED BY <3>5, <3>6
  <2> QED BY <2>3, <2>4, <2>6, <2>7, <2>9, <2>10
<1> QED BY <1>1, <1>2

\* Accepting entries the peer wrote keeps what concerns the logs.
LEMMA AcceptVerified ==
  ASSUME SyncInv, NEW i \in Instances, NEW p \in Peers,
         NEW S \in SUBSET {k \in 1..log[p] : Verifies(p, k)}, Accept(i, p, S)
  PROVE  /\ DOMAIN copies' = Peers
         /\ \A q \in Peers : copies'[q] \in [Entries(q) -> Nat]
         /\ scanned' \in [Instances -> SUBSET Peers]
         /\ seen' \in [Instances -> [Peers -> SUBSET Nat]]
         /\ \A q \in Peers :
              Stored(q)' = IF q = p THEN Stored(p) \cup S ELSE Stored(q)
         /\ SeenStored'
         /\ LinesBounded'
         /\ \A q \in Peers :
              Stored(q)' \subseteq {k \in 1..log[q] : Verifies(q, k)}
<1>1. S \in SUBSET Entries(p)
  BY SyncAssumption DEF SyncInv, TypeOK, Entries
<1>2. /\ DOMAIN copies' = Peers
      /\ \A q \in Peers : copies'[q] \in [Entries(q) -> Nat]
      /\ scanned' \in [Instances -> SUBSET Peers]
      /\ seen' \in [Instances -> [Peers -> SUBSET Nat]]
      /\ \A q \in Peers :
           Stored(q)' = IF q = p THEN Stored(p) \cup S ELSE Stored(q)
      /\ SeenStored'
      /\ LinesBounded'
  BY <1>1, AcceptEffect
<1>3. \A q \in Peers : Stored(q) \subseteq {k \in 1..log[q] : Verifies(q, k)}
  BY DEF SyncInv, StoredVerified
<1>4. \A q \in Peers :
        Stored(q)' \subseteq {k \in 1..log[q] : Verifies(q, k)}
  BY <1>2, <1>3
<1> QED BY <1>2, <1>4

\* A batch that passes holds entries the peer wrote and that verify.
LEMMA BatchVerified ==
  ASSUME SyncInv, NEW p \in Peers, at = p, phase = "reply",
         NEW last \in cursor[p]..reply, Passes(p, last)
  PROVE  /\ (cursor[p] + 1)..last \in SUBSET {k \in 1..log[p] : Verifies(p, k)}
         /\ last \in Nat /\ last <= log[p]
<1>1. cursor[p] \in Nat /\ reply \in Nat /\ log[p] \in Nat /\ reply <= log[p]
  BY DEF SyncInv, TypeOK, CursorsBounded
<1> QED BY <1>1 DEF Passes

\* Moving on keeps the driver within its list.
LEMMA MoveOnTyped ==
  ASSUME SyncInv, at \in Peers, MoveOn
  PROVE  at' \in 0..NumPeers /\ phase' = "turn" /\ reply' = 0
BY SyncAssumption DEF MoveOn, Peers

LEMMA InitEstablishes == Init => SyncInv
<1> SUFFICES ASSUME Init PROVE SyncInv
  OBVIOUS
<1>1. \A p \in Peers : Stored(p) = {}
  BY DEF Init, Stored
<1>2. TypeOK
  BY SyncAssumption DEF Init, TypeOK, Entries, Peers, Started
<1>3. CursorsBounded /\ SeenStored /\ StoredVerified /\ NoGapBehindCursor
  BY <1>1 DEF Init, CursorsBounded, SeenStored, StoredVerified,
              NoGapBehindCursor
<1>4. LinesBounded
  BY <1>1 DEF Init, LinesBounded, MayAdd, Known
<1> QED BY <1>2, <1>3, <1>4 DEF SyncInv

\* Steps that leave the files and the indexes alone.
LEMMA DriverStepsPreserve ==
  ASSUME SyncInv, UNCHANGED peerLog, TypeOK', CursorsBounded',
         \A p \in Peers : log'[p] >= log[p] /\ cursor'[p] <= cursor[p]
  PROVE  SyncInv'
<1> USE DEF SyncInv, peerLog
<1>1. \A p \in Peers : Stored(p)' = Stored(p) /\ Entries(p)' = Entries(p)
  BY DEF Stored, Entries
<1>2. \A i \in Instances, p \in Peers : Known(i, p)' = Known(i, p)
  BY <1>1 DEF Known
<1>3. SeenStored' /\ LinesBounded'
  <2>1. /\ "runtime" \in Instances /\ "server" \in Instances
        /\ "watchdog" \in Instances
    BY DEF Instances
  <2> QED BY <1>1, <1>2, <2>1 DEF SeenStored, LinesBounded, MayAdd
<1>4. StoredVerified'
  BY <1>1 DEF StoredVerified, TypeOK, Verifies
<1>5. NoGapBehindCursor'
  BY <1>1 DEF NoGapBehindCursor, TypeOK
<1> QED BY <1>3, <1>4, <1>5

LEMMA WritePreserves ==
  ASSUME SyncInv, NEW p \in Peers, Write(p)
  PROVE  SyncInv'
<1>1. log' \in [Peers -> Nat] /\ \A q \in Peers : log'[q] <= MaxLog[q]
  <2>1. log \in [Peers -> Nat] /\ \A q \in Peers : log[q] <= MaxLog[q]
    BY DEF SyncInv, TypeOK
  <2>2. MaxLog[p] \in Nat /\ log[p] < MaxLog[p]
        /\ log' = [log EXCEPT ![p] = @ + 1]
    BY SyncAssumption DEF Write
  <2>3. log[p] + 1 \in Nat /\ log[p] + 1 <= MaxLog[p]
    BY <2>1, <2>2
  <2> QED BY <2>1, <2>2, <2>3
<1>2. \A q \in Peers : log'[q] >= log[q]
  BY DEF Write, SyncInv, TypeOK
<1>5. server' \in [Peers -> [head : Nat \cup {None}, scanning : BOOLEAN]]
  <2>1. Started \in [head : Nat \cup {None}, scanning : BOOLEAN]
    BY DEF Started
  <2>2. server' = [server EXCEPT ![p] = IF @.scanning THEN @ ELSE Started]
    BY DEF Write
  <2> QED BY <2>1, <2>2 DEF SyncInv, TypeOK
<1>3. TypeOK'
  BY <1>1, <1>5 DEF Write, SyncInv, TypeOK, Entries
<1>4. CursorsBounded'
  BY <1>1, <1>2 DEF Write, SyncInv, TypeOK, CursorsBounded
<1> QED BY <1>2, <1>3, <1>4, DriverStepsPreserve
        DEF Write, peerLog, SyncInv, TypeOK

\* What a peer's log server looks up and forgets concerns only what it answers.
LEMMA ServerStepsPreserve ==
  ASSUME SyncInv, NEW p \in Peers, LookUp(p) \/ PeerRestarts(p)
  PROVE  SyncInv'
<1>1. UNCHANGED <<log, peerLog, pull, crashes>>
  BY DEF LookUp, Scan, Restat, PeerRestarts
<1>2. server' \in [Peers -> [head : Nat \cup {None}, scanning : BOOLEAN]]
  <2>1. server \in [Peers -> [head : Nat \cup {None}, scanning : BOOLEAN]] /\ log[p] \in Nat
    BY DEF SyncInv, TypeOK
  <2>2. CASE Scan(p)
    <3>1. server' = [server EXCEPT ![p].head = log[p], ![p].scanning = TRUE]
      BY <2>2 DEF Scan
    <3> QED BY <2>1, <3>1
  <2>3. CASE Restat(p)
    <3>1. server' = [server EXCEPT ![p].scanning = FALSE]
      BY <2>3 DEF Restat
    <3> QED BY <2>1, <3>1
  <2>4. CASE PeerRestarts(p)
    <3>1. Started \in [head : Nat \cup {None}, scanning : BOOLEAN]
      BY DEF Started
    <3>2. server' = [server EXCEPT ![p] = Started]
      BY <2>4 DEF PeerRestarts
    <3> QED BY <2>1, <3>1, <3>2
  <2> QED BY <2>2, <2>3, <2>4 DEF LookUp
<1>3. TypeOK'
  BY <1>1, <1>2 DEF SyncInv, TypeOK, Entries, peerLog, pull
<1>4. CursorsBounded'
  BY <1>1 DEF SyncInv, CursorsBounded, pull
<1> QED BY <1>1, <1>3, <1>4, DriverStepsPreserve
        DEF peerLog, pull, SyncInv, TypeOK

LEMMA TurnStepsPreserve ==
  ASSUME SyncInv, Wake \/ Skip \/ AskHead
  PROVE  SyncInv'
<1> USE SyncAssumption
<1>1. at' \in 0..NumPeers /\ (phase' # "turn" => at' # 0)
      /\ phase' \in {"turn", "head"} /\ reply' \in Nat
  BY DEF Wake, Skip, AskHead, MoveOn, SyncInv, TypeOK, Peers
<1>2. TypeOK'
  BY <1>1 DEF Wake, Skip, AskHead, SyncInv, TypeOK, Entries, peerLog
<1>3. CursorsBounded'
  BY <1>1 DEF Wake, Skip, AskHead, SyncInv, CursorsBounded
<1> QED BY <1>2, <1>3, DriverStepsPreserve
        DEF Wake, Skip, AskHead, peerLog, SyncInv, TypeOK

LEMMA RequestStepsPreserve ==
  ASSUME SyncInv, NEW p \in Peers,
         HeadAnswered(p) \/ EntriesServed(p) \/ PullFails(p) \/ CoolDown(p)
  PROVE  SyncInv'
<1> USE SyncAssumption
<1>0. cursor[p] \in Nat /\ log[p] \in Nat /\ cursor[p] <= log[p]
  BY DEF SyncInv, TypeOK, CursorsBounded
<1>1. /\ at' \in 0..NumPeers /\ (phase' # "turn" => at' # 0)
      /\ phase' \in {"turn", "head", "entries", "reply"} /\ reply' \in Nat
      /\ cooling' \subseteq Peers
  <2>1. CASE HeadAnswered(p)
    <3>1. at \in Peers /\ UNCHANGED cooling /\ cooling \subseteq Peers
          /\ reply \in Nat /\ at # 0
      BY <2>1 DEF HeadAnswered, SyncInv, TypeOK, Peers
    <3>2. MoveOn \/ (phase' = "entries" /\ at' = at /\ reply' = reply)
      BY <2>1 DEF HeadAnswered
    <3>3. CASE MoveOn
      BY <3>1, <3>3 DEF MoveOn, Peers
    <3>4. CASE phase' = "entries" /\ at' = at /\ reply' = reply
      BY <3>1, <3>4 DEF Peers
    <3> QED BY <3>2, <3>3, <3>4
  <2>2. CASE EntriesServed(p)
    BY <1>0, <2>2 DEF EntriesServed, SyncInv, TypeOK, Peers
  <2>3. CASE PullFails(p)
    BY <2>3 DEF PullFails, MoveOn, SyncInv, TypeOK, Peers
  <2>4. CASE CoolDown(p)
    BY <2>4 DEF CoolDown, SyncInv, TypeOK
  <2> QED BY <2>1, <2>2, <2>3, <2>4
<1>2. UNCHANGED <<log, server, peerLog, cursor, crashes>>
  BY DEF HeadAnswered, EntriesServed, PullFails, CoolDown
<1>3. TypeOK'
  BY <1>1, <1>2 DEF SyncInv, TypeOK, Entries, peerLog
<1>4. CursorsBounded'
  BY <1>0, <1>2 DEF HeadAnswered, EntriesServed, PullFails, CoolDown, MoveOn,
     SyncInv, CursorsBounded, TypeOK
<1> QED BY <1>2, <1>3, <1>4, DriverStepsPreserve
        DEF peerLog, SyncInv, TypeOK

LEMMA OneEntryPreserves ==
  ASSUME SyncInv, NEW p \in Peers, Ship(p) \/ Post(p) \/ WatchdogPull(p)
  PROVE  SyncInv'
<1>1. PICK i \in Instances, k \in 1..log[p] :
        Verifies(p, k) /\ Accept(i, p, {k})
  BY DEF Ship, Post, WatchdogPull, Instances
<1>2. {k} \in SUBSET {j \in 1..log[p] : Verifies(p, j)}
  BY <1>1
<1>3. UNCHANGED <<log, server, cursor, cooling, at, phase, reply, crashes>>
  BY DEF Ship, Post, WatchdogPull
<1>4. TypeOK'
  BY <1>1, <1>2, <1>3, AcceptVerified DEF SyncInv, TypeOK, Entries
<1>5. SeenStored' /\ LinesBounded' /\ StoredVerified'
  BY <1>1, <1>2, <1>3, AcceptVerified DEF StoredVerified, Verifies
<1>6. CursorsBounded' /\ NoGapBehindCursor'
  BY <1>1, <1>2, <1>3, AcceptVerified
  DEF SyncInv, CursorsBounded, NoGapBehindCursor
<1> QED BY <1>4, <1>5, <1>6 DEF SyncInv

LEMMA BatchPreserves ==
  ASSUME SyncInv, NEW p \in Peers, BatchAccepted(p) \/ StoreFails(p)
  PROVE  SyncInv'
<1>0. at = p /\ phase = "reply"
  BY DEF BatchAccepted, StoreFails
<1>1. PICK last \in cursor[p]..reply :
        /\ Passes(p, last)
        /\ Accept("runtime", p, (cursor[p] + 1)..last)
        /\ cursor' = [cursor EXCEPT ![p] = last] \/ cursor' = cursor
  BY DEF BatchAccepted, StoreFails
<1>2. /\ (cursor[p] + 1)..last \in SUBSET {k \in 1..log[p] : Verifies(p, k)}
      /\ last \in Nat /\ last <= log[p]
  BY <1>0, <1>1, BatchVerified
<1>3. "runtime" \in Instances
  BY DEF Instances
<1>4. at' \in 0..NumPeers /\ phase' = "turn" /\ reply' = 0
  BY <1>0, MoveOnTyped DEF BatchAccepted, StoreFails
<1>5. UNCHANGED <<log, server, crashes>> /\ cooling' \subseteq Peers
  BY DEF BatchAccepted, StoreFails, SyncInv, TypeOK
<1>6. cursor' \in [Peers -> Nat]
  BY <1>1, <1>2 DEF SyncInv, TypeOK
<1>7. TypeOK'
  BY <1>1, <1>2, <1>3, <1>4, <1>5, <1>6, AcceptVerified
  DEF SyncInv, TypeOK, Entries
<1>8. SeenStored' /\ LinesBounded' /\ StoredVerified'
  BY <1>1, <1>2, <1>3, <1>5, AcceptVerified DEF StoredVerified, Verifies
<1>9. CursorsBounded'
  BY <1>1, <1>2, <1>4, <1>5 DEF SyncInv, TypeOK, CursorsBounded
<1>10. NoGapBehindCursor'
  <2>1. \A q \in Peers : Stored(q)' =
          IF q = p THEN Stored(p) \cup (cursor[p] + 1)..last ELSE Stored(q)
    BY <1>1, <1>2, <1>3, AcceptVerified
  <2>2. \A q \in Peers : 1..cursor[q] \subseteq Stored(q) /\ cursor[q] \in Nat
    BY DEF SyncInv, NoGapBehindCursor, TypeOK
  <2>3. \A q \in Peers : cursor'[q] = IF cursor' # cursor /\ q = p THEN last
                                      ELSE cursor[q]
    BY <1>1 DEF SyncInv, TypeOK
  <2>4. 1..last \subseteq Stored(p) \cup (cursor[p] + 1)..last
    BY <1>2, <2>2
  <2> QED BY <2>1, <2>2, <2>3, <2>4 DEF NoGapBehindCursor
<1> QED BY <1>7, <1>8, <1>9, <1>10 DEF SyncInv

\* What a crash leaves of the files.
LEMMA CrashEffect ==
  ASSUME SyncInv, Crash
  PROVE  /\ DOMAIN copies' = Peers
         /\ \A q \in Peers : copies'[q] \in [Entries(q) -> Nat]
         /\ \A q \in Peers : \A k \in Entries(q) : copies'[q][k] <= 3
         /\ \A q \in Peers : \A k \in Entries(q) :
              copies'[q][k] + MayAdd("watchdog", q, k) <= 3
         /\ \A q \in Peers : Stored(q) \subseteq Stored(q)'
         /\ \A q \in Peers :
              Stored(q)' \subseteq {k \in 1..log[q] : Verifies(q, k)}
<1>1. \A i \in Instances : \A q \in Peers : \A k \in Entries(q) :
        MayAdd(i, q, k) \in {0, 1}
  BY DEF MayAdd
<1>2. \A q \in Peers : \A k \in Entries(q) :
        /\ copies[q][k] \in Nat /\ copies[q][k] <= 3
        /\ copies[q][k] + MayAdd("watchdog", q, k) <= 3
        /\ k \notin Known("runtime", q) =>
             copies[q][k] + MayAdd("watchdog", q, k) <= 2
  BY DEF SyncInv, TypeOK, LinesBounded, MayAdd
<1>3. CASE UNCHANGED copies
  BY <1>2, <1>3 DEF SyncInv, TypeOK, StoredVerified, Stored, Entries
<1>4. CASE /\ phase = "reply"
           /\ \E last \in cursor[at]..reply :
                /\ Passes(at, last)
                /\ copies' = WithLines(at, ((cursor[at] + 1)..last)
                                           \ Known("runtime", at))
  <2>1. PICK last \in cursor[at]..reply :
          /\ Passes(at, last)
          /\ copies' = WithLines(at, ((cursor[at] + 1)..last)
                                     \ Known("runtime", at))
    BY <1>4
  <2>2. at \in Peers
    BY <1>4, SyncAssumption DEF SyncInv, TypeOK, Peers
  <2>3. (cursor[at] + 1)..last \in SUBSET {k \in 1..log[at] : Verifies(at, k)}
    BY <1>4, <2>1, <2>2, BatchVerified
  <2>4. /\ DOMAIN copies' = Peers
        /\ \A q \in Peers : copies'[q] \in [Entries(q) -> Nat]
        /\ \A q \in Peers : \A k \in Entries(q) :
             copies'[q][k] =
               IF q = at /\ k \in ((cursor[at] + 1)..last)
                                     \ Known("runtime", at)
               THEN copies[q][k] + 1 ELSE copies[q][k]
    BY <2>1 DEF WithLines, SyncInv, TypeOK
  <2>5. \A q \in Peers : \A k \in Entries(q) :
          copies'[q][k] <= 3 /\ copies'[q][k] + MayAdd("watchdog", q, k) <= 3
    <3> SUFFICES ASSUME NEW q \in Peers, NEW k \in Entries(q)
                 PROVE  /\ copies'[q][k] <= 3
                        /\ copies'[q][k] + MayAdd("watchdog", q, k) <= 3
      OBVIOUS
    <3>1. MayAdd("watchdog", q, k) \in {0, 1}
      BY <1>1 DEF Instances
    <3>2. CASE q = at /\ k \in ((cursor[at] + 1)..last)
                                   \ Known("runtime", at)
      <4>1. copies'[q][k] = copies[q][k] + 1 /\ k \notin Known("runtime", q)
        BY <2>4, <3>2
      <4> QED BY <1>2, <3>1, <4>1
    <3>3. CASE ~ (q = at /\ k \in ((cursor[at] + 1)..last)
                                     \ Known("runtime", at))
      <4>1. copies'[q][k] = copies[q][k]
        BY <2>4, <3>3
      <4> QED BY <1>2, <4>1
    <3> QED BY <3>2, <3>3
  <2>6. \A q \in Peers : \A k \in Entries(q) :
          \/ copies'[q][k] = copies[q][k]
          \/ q = at /\ k \in (cursor[at] + 1)..last
    BY <2>4
  <2>7. \A q \in Peers : Stored(q)' = {k \in Entries(q) : copies'[q][k] > 0}
    BY DEF Stored, Entries
  <2>8. \A q \in Peers : Stored(q) \subseteq Stored(q)'
    BY <1>2, <2>4, <2>7 DEF Stored
  <2>9. \A q \in Peers :
          Stored(q)' \subseteq {k \in 1..log[q] : Verifies(q, k)}
    BY <2>3, <2>6, <2>7 DEF SyncInv, StoredVerified, Stored
  <2> QED BY <2>4, <2>5, <2>8, <2>9
<1> QED BY <1>3, <1>4 DEF Crash

LEMMA CrashPreserves ==
  ASSUME SyncInv, Crash
  PROVE  SyncInv'
<1>1. /\ UNCHANGED log /\ cursor' = [p \in Peers |-> 0] /\ phase' = "turn"
      /\ scanned' = [scanned EXCEPT !["runtime"] = {}, !["server"] = {}]
      /\ seen' = [seen EXCEPT !["runtime"] = [p \in Peers |-> {}],
                              !["server"] = [p \in Peers |-> {}]]
  BY DEF Crash
<1>0. /\ scanned' \in [Instances -> SUBSET Peers]
      /\ seen' \in [Instances -> [Peers -> SUBSET Nat]]
  BY <1>1 DEF SyncInv, TypeOK
<1>2. TypeOK'
  <2>1. /\ DOMAIN copies' = Peers
        /\ \A q \in Peers : copies'[q] \in [Entries(q) -> Nat]
    BY CrashEffect
  <2>2. cooling' = {} /\ at' = 1 /\ reply' = 0 /\ crashes' = crashes + 1
    BY DEF Crash
  <2>3. at' \in 0..NumPeers
    BY <2>2, SyncAssumption
  <2>4. /\ UNCHANGED <<log, server>>
        /\ cursor' \in [Peers -> Nat] /\ phase' = "turn"
    BY <1>1 DEF Crash
  <2>5. /\ log \in [Peers -> Nat] /\ \A p \in Peers : log[p] <= MaxLog[p]
        /\ server \in [Peers -> [head : Nat \cup {None}, scanning : BOOLEAN]]
        /\ crashes \in Nat
    BY DEF SyncInv, TypeOK
  <2> QED BY <1>0, <2>1, <2>2, <2>3, <2>4, <2>5 DEF TypeOK, Entries
<1>3. CursorsBounded' /\ NoGapBehindCursor'
  BY <1>1 DEF SyncInv, TypeOK, CursorsBounded, NoGapBehindCursor
<1>6. SeenStored'
  <2>1. \A i \in Instances, p \in Peers :
          p \in scanned'[i] => p \in scanned[i] /\ seen'[i] = seen[i]
    BY <1>1 DEF SyncInv, TypeOK
  <2> QED BY <2>1, CrashEffect DEF SyncInv, SeenStored
<1>4. StoredVerified'
  BY <1>1, CrashEffect DEF StoredVerified, Verifies
<1>5. LinesBounded'
  <2> SUFFICES ASSUME NEW p \in Peers, NEW k \in Entries(p)
               PROVE  copies'[p][k] + MayAdd("runtime", p, k)'
                        + MayAdd("server", p, k)'
                        + MayAdd("watchdog", p, k)' <= 3
    BY DEF LinesBounded, Entries
  <2>1. Known("runtime", p)' = Stored(p)' /\ Known("server", p)' = Stored(p)'
    BY <1>1 DEF Known, Instances, SyncInv, TypeOK
  <2>2. k \in Stored(p)' <=> copies'[p][k] > 0
    BY DEF Stored, Entries
  <2>3. /\ copies'[p][k] \in Nat /\ copies'[p][k] <= 3
        /\ copies'[p][k] + MayAdd("watchdog", p, k) <= 3
    BY CrashEffect
  <2>4. Known("watchdog", p) \subseteq Known("watchdog", p)'
    BY <1>1, CrashEffect DEF Known, Instances, SyncInv, TypeOK
  <2>5. /\ MayAdd("watchdog", p, k) \in {0, 1}
        /\ MayAdd("watchdog", p, k)' \in {0, 1}
        /\ MayAdd("watchdog", p, k)' <= MayAdd("watchdog", p, k)
    BY <2>4 DEF MayAdd
  <2>6. CASE k \in Stored(p)'
    <3>1. MayAdd("runtime", p, k)' = 0 /\ MayAdd("server", p, k)' = 0
      BY <2>1, <2>6 DEF MayAdd
    <3> QED BY <2>3, <2>5, <3>1
  <2>7. CASE k \notin Stored(p)'
    <3>1. MayAdd("runtime", p, k)' = 1 /\ MayAdd("server", p, k)' = 1
      BY <2>1, <2>7 DEF MayAdd
    <3>2. copies'[p][k] = 0
      BY <2>2, <2>3, <2>7
    <3> QED BY <2>5, <3>1, <3>2
  <2> QED BY <2>6, <2>7
<1> QED BY <1>2, <1>3, <1>4, <1>5, <1>6 DEF SyncInv

LEMMA WatchdogRestartPreserves ==
  ASSUME SyncInv, WatchdogRestart
  PROVE  SyncInv'
<1>1. /\ scanned' = [scanned EXCEPT !["watchdog"] = {}]
      /\ seen' = [seen EXCEPT !["watchdog"] = [p \in Peers |-> {}]]
      /\ UNCHANGED <<log, server, copies, cursor, cooling, at, phase, reply, crashes>>
  BY DEF WatchdogRestart
<1>2. \A p \in Peers : Stored(p)' = Stored(p) /\ Entries(p)' = Entries(p)
  BY <1>1 DEF Stored, Entries
<1>3. TypeOK'
  BY <1>1 DEF SyncInv, TypeOK, Entries
<1>4. SeenStored'
  BY <1>1, <1>2 DEF SyncInv, TypeOK, SeenStored
<1>5. \A i \in Instances, p \in Peers : Known(i, p) \subseteq Known(i, p)'
  BY <1>1, <1>2 DEF SyncInv, TypeOK, SeenStored, Known
<1>6. LinesBounded'
  <2> SUFFICES ASSUME NEW p \in Peers, NEW k \in Entries(p)
               PROVE  copies'[p][k] + MayAdd("runtime", p, k)'
                        + MayAdd("server", p, k)'
                        + MayAdd("watchdog", p, k)' <= 3
    BY DEF LinesBounded, Entries
  <2>1. \A i \in Instances : /\ MayAdd(i, p, k) \in {0, 1}
                             /\ MayAdd(i, p, k)' \in {0, 1}
                             /\ MayAdd(i, p, k)' <= MayAdd(i, p, k)
    BY <1>5 DEF MayAdd
  <2>2. copies'[p][k] = copies[p][k] /\ copies[p][k] \in Nat
    BY <1>1 DEF SyncInv, TypeOK
  <2>3. copies[p][k] + MayAdd("runtime", p, k) + MayAdd("server", p, k)
          + MayAdd("watchdog", p, k) <= 3
    BY DEF SyncInv, LinesBounded
  <2> QED BY <2>1, <2>2, <2>3 DEF Instances
<1>7. CursorsBounded' /\ StoredVerified' /\ NoGapBehindCursor'
  BY <1>1, <1>2 DEF SyncInv, CursorsBounded, StoredVerified,
                    NoGapBehindCursor, Verifies
<1> QED BY <1>3, <1>4, <1>6, <1>7 DEF SyncInv

LEMMA StepPreserves == SyncInv /\ [Next]_vars => SyncInv'
<1> SUFFICES ASSUME SyncInv, [Next]_vars PROVE SyncInv'
  OBVIOUS
<1>1. CASE UNCHANGED vars
  <2>1. TypeOK' /\ CursorsBounded'
    BY <1>1 DEF vars, SyncInv, TypeOK, CursorsBounded, Entries
  <2> QED BY <1>1, <2>1, DriverStepsPreserve
          DEF vars, peerLog, SyncInv, TypeOK
<1>2. CASE Next
  BY <1>2, WritePreserves, ServerStepsPreserve, TurnStepsPreserve, RequestStepsPreserve,
     OneEntryPreserves, BatchPreserves, CrashPreserves,
     WatchdogRestartPreserves
  DEF Next, PullStep
<1> QED BY <1>1, <1>2

\* Every reachable state satisfies the inductive invariant.
THEOREM SyncInvariant == Spec => []SyncInv
<1> QED BY InitEstablishes, StepPreserves, PTL DEF Spec

\* TypeOK of PeerSync holds throughout.
THEOREM TypeCorrect == Spec => []TypeOK
<1>1. SyncInv => TypeOK
  BY DEF SyncInv
<1> QED BY <1>1, SyncInvariant, PTL

\* No schedule of pulls, shipments, failures and crashes makes the cursor
\* jump over an entry.
THEOREM CursorLeavesNoGap == Spec => []NoGapBehindCursor
<1>1. SyncInv => NoGapBehindCursor
  BY DEF SyncInv
<1> QED BY <1>1, SyncInvariant, PTL

\* An entry never takes more lines than the node has PeerLogs.
THEOREM LinesAreBounded == Spec => []CopiesBounded
<1>1. SyncInv => CopiesBounded
  <2> SUFFICES ASSUME SyncInv, NEW p \in Peers, NEW k \in Entries(p)
               PROVE  copies[p][k] <= Cardinality(Instances)
    BY DEF CopiesBounded
  <2>1. Cardinality({"runtime"} \cup {"server"} \cup {"watchdog"}) = 3
    <3>1. IsFiniteSet({"runtime"}) /\ Cardinality({"runtime"}) = 1
      BY FS_Singleton
    <3>2. /\ IsFiniteSet({"runtime"} \cup {"server"})
          /\ Cardinality({"runtime"} \cup {"server"}) = 2
      BY <3>1, FS_AddElement
    <3>3. "watchdog" \notin {"runtime"} \cup {"server"}
      OBVIOUS
    <3>4. Cardinality({"runtime"} \cup {"server"} \cup {"watchdog"}) = 2 + 1
      BY <3>2, <3>3, FS_AddElement
    <3> QED BY <3>4
  <2>2. Instances = {"runtime"} \cup {"server"} \cup {"watchdog"}
    BY DEF Instances
  <2>3. copies[p][k] \in Nat /\ copies[p][k] <= 3
    BY DEF SyncInv, TypeOK, LinesBounded, MayAdd
  <2> QED BY <2>1, <2>2, <2>3
<1> QED BY <1>1, SyncInvariant, PTL

---------------------------------------------------------------------------
\* Every step learns entries of one peer, is a write of one, or changes
\* neither the logs nor what is known.
LEMMA StepImplements ==
  ASSUME SyncInv, SyncInv', [Next]_vars
  PROVE  [Replica!Next]_<<log, [p \in Peers |-> Stored(p)]>>
<1> DEFINE known == [p \in Peers |-> Stored(p)]
<1>1. CASE \E p \in Peers : Write(p)
  <2>1. PICK p \in Peers : Write(p)
    BY <1>1
  <2>2. known' = known
    BY <2>1 DEF Write, Stored, Entries
  <2> QED BY <2>1, <2>2 DEF Write, Replica!Next, Replica!Write
<1>2. ASSUME UNCHANGED log, NEW p \in Peers,
             \A q \in Peers \ {p} : Stored(q)' = Stored(q),
             Stored(p) \subseteq Stored(p)'
      PROVE  Replica!Learn(p)
  <2>1. Stored(p)' \in SUBSET {k \in 1..log[p] : Replica!Verifies(p, k)}
    BY <1>2 DEF SyncInv, StoredVerified, Verifies, Replica!Verifies
  <2>2. known' = [known EXCEPT ![p] = @ \cup Stored(p)']
    BY <1>2
  <2> QED BY <1>2, <2>1, <2>2 DEF Replica!Learn
<1>3. CASE \E p \in Peers :
             \/ Ship(p) \/ Post(p) \/ WatchdogPull(p)
             \/ BatchAccepted(p) \/ StoreFails(p)
  <2>1. PICK p \in Peers : \/ Ship(p) \/ Post(p) \/ WatchdogPull(p)
                          \/ BatchAccepted(p) \/ StoreFails(p)
    BY <1>3
  <2>2. UNCHANGED log
    BY <2>1 DEF Ship, Post, WatchdogPull, BatchAccepted, StoreFails
  <2>3. \E i \in Instances,
           S \in SUBSET {k \in 1..log[p] : Verifies(p, k)} : Accept(i, p, S)
    <3>1. "runtime" \in Instances
      BY DEF Instances
    <3>2. CASE Ship(p) \/ Post(p) \/ WatchdogPull(p)
      <4>1. PICK i \in Instances, k \in 1..log[p] :
              Verifies(p, k) /\ Accept(i, p, {k})
        BY <3>2 DEF Ship, Post, WatchdogPull, Instances
      <4>2. {k} \in SUBSET {j \in 1..log[p] : Verifies(p, j)}
        BY <4>1
      <4> QED BY <4>1, <4>2
    <3>3. CASE BatchAccepted(p) \/ StoreFails(p)
      BY <3>1, <3>3, BatchVerified DEF BatchAccepted, StoreFails
    <3> QED BY <2>1, <3>2, <3>3
  <2>4. \E S : \A q \in Peers :
          Stored(q)' = IF q = p THEN Stored(p) \cup S ELSE Stored(q)
    BY <2>3, AcceptVerified
  <2> QED BY <1>2, <2>2, <2>4 DEF Replica!Next
<1>4. CASE Crash
  <2>1. UNCHANGED log
    BY <1>4 DEF Crash
  <2>2. PICK p \in Peers : \A q \in Peers \ {p} : Stored(q)' = Stored(q)
    <3>1. CASE UNCHANGED copies
      BY <3>1, SyncAssumption DEF Stored, Entries, Peers
    <3>2. CASE phase = "reply" /\ \E S : copies' = WithLines(at, S)
      <4>1. at \in Peers
        BY <3>2, SyncAssumption DEF SyncInv, TypeOK, Peers
      <4>2. \A q \in Peers \ {at} : copies'[q] = copies[q]
        BY <3>2 DEF WithLines, SyncInv, TypeOK
      <4> QED BY <4>1, <4>2 DEF Stored, Entries
    <3> QED BY <1>4, <3>1, <3>2 DEF Crash
  <2> QED BY <1>2, <1>4, <2>1, <2>2, CrashEffect DEF Replica!Next
<1>5. CASE UNCHANGED <<log, copies>>
  <2>1. known' = known
    BY <1>5 DEF Stored, Entries
  <2> QED BY <1>5, <2>1
<1> QED
  BY <1>1, <1>3, <1>4, <1>5
  DEF vars, Next, PullStep, Wake, Skip, AskHead, HeadAnswered, EntriesServed,
      PullFails, CoolDown, WatchdogRestart, LookUp, Scan, Restat, PeerRestarts,
      peerLog

\* Pulling, shipping and posting implement the replication of logs: a node
\* learns only what its peers wrote and verifies, and forgets nothing.
THEOREM Refinement == Spec => ImplementsReplication
<1>1. Init => Replica!Init
  BY DEF Init, Replica!Init, Stored
<1> QED
  BY <1>1, SyncInvariant, StepImplements, PTL
  DEF Spec, ImplementsReplication, Replica!Spec

---------------------------------------------------------------------------
\* The two verifiers of a log file (StandaloneVerify), written apart, accept the
\* same files of entries of version 2, of any length; what they accept a peer
\* takes entry by entry.  No induction is needed: an accepted file has only
\* entries whose stored hash is the recomputed one, so both hashes the chain goes
\* on from are those of the line before.

\* A line is None or an entry with some digest.
IsFile(lines) ==
  /\ \E n \in Nat : DOMAIN lines = 1..n
  /\ \A i \in DOMAIN lines : lines[i] # None => lines[i].recomputed # None

VersionTwo(lines) ==
  \A i \in DOMAIN lines : lines[i] # None => lines[i].version = 2

\* The checks of one entry are the same on both sides.
LEMMA SameChecks ==
  ASSUME NEW e, NEW previous, NEW network
  PROVE  verify_entry(e, previous, network) <=>
           /\ check_chain(e, previous)
           /\ decodes(e) /\ check_signature(e) /\ check_identity_binding(e, network)
           /\ check_kind(e, network)
<1>1. ChainHolds(e, previous) <=> check_chain(e, previous)
  BY DEF ChainHolds, check_chain
<1>2. SignatureHolds(e) <=> check_signature(e)
  BY DEF SignatureHolds, check_signature
<1>3. BindingHolds(e, network) <=> check_identity_binding(e, network)
  BY DEF BindingHolds, check_identity_binding, IdOf
<1>4. WitnessHolds(e, network) <=> verify_witness_fields(e, network)
  <2>1. ClaimHolds(e) <=> check_claim_consistency(e)
    BY DEF ClaimHolds, check_claim_consistency
  <2>2. SubjectSignatureHolds(e) <=> check_subject_signature(e)
    BY DEF SubjectSignatureHolds, check_subject_signature
  <2>3. SubjectBindingHolds(e, network) <=> check_subject_identity_binding(e, network)
    BY DEF SubjectBindingHolds, check_subject_identity_binding, IdOf
  <2> QED
    BY <2>1, <2>2, <2>3 DEF WitnessHolds, verify_witness_fields
<1>5. (IF e.kind = "self" THEN \A f \in SubjectFields : f \notin e.fields
       ELSE e.kind = "witness" /\ WitnessHolds(e, network))
      <=> check_kind(e, network)
  <2>1. (\A f \in SubjectFields : f \notin e.fields)
        <=> e.fields \cap SubjectFields = {}
    OBVIOUS
  <2> QED
    BY <2>1, <1>4 DEF check_kind
<1> QED
  BY <1>1, <1>2, <1>3, <1>5 DEF verify_entry, decodes

\* After lines that are all entries whose stored hash is the recomputed one,
\* the chain goes on from the line before.
LEMMA LineBefore ==
  ASSUME NEW lines, IsFile(lines), NEW i \in DOMAIN lines,
         \A j \in DOMAIN lines : lines[j] # None /\ lines[j].stored = lines[j].recomputed
  PROVE  stored_before(lines, i) = IF i = 1 THEN GENESIS ELSE lines[i - 1].recomputed
<1> DEFINE Has(j) == j < i /\ lines[j] # None /\ lines[j].stored # None
<1>1. PICK n \in Nat : DOMAIN lines = 1..n
  BY DEF IsFile
<1>2. \A j \in DOMAIN lines : Has(j) <=> j < i
  BY DEF IsFile
<1>3. CASE i = 1
  <2>1. ~ \E j \in DOMAIN lines : Has(j)
    BY <1>1, <1>2, <1>3
  <2> QED
    BY <2>1, <1>3 DEF stored_before
<1>4. CASE i # 1
  <2>1. i - 1 \in DOMAIN lines /\ Has(i - 1)
    BY <1>1, <1>2, <1>4
  <2> DEFINE last(j) == Has(j) /\ \A l \in DOMAIN lines : Has(l) => l <= j
  <2>2. last(i - 1)
    BY <1>1, <1>2, <2>1
  <2>3. \A j \in DOMAIN lines : last(j) => j = i - 1
    BY <1>1, <1>2, <2>1
  <2>4. (CHOOSE j \in DOMAIN lines : last(j)) = i - 1
    BY <2>1, <2>2, <2>3
  <2>5. stored_before(lines, i) = lines[i - 1].stored
    BY <2>1, <2>4 DEF stored_before
  <2> QED
    BY <2>1, <2>5, <1>4
<1> QED
  BY <1>3, <1>4

\* verify_integrity and the standalone verifier accept the same files of
\* version 2 entries, whatever is wrong in which of their lines
\* (signed_log.py:405-499, verify.py:310-347 and 378-474).
THEOREM VerifiersAgree ==
  ASSUME NEW lines, NEW network, IsFile(lines), VersionTwo(lines)
  PROVE  verify_integrity(lines, network) <=> verify(lines, network)
<1> DEFINE Before(i) == IF i = 1 THEN GENESIS ELSE lines[i - 1].recomputed
           Rest(i) == /\ decodes(lines[i])
                      /\ check_signature(lines[i])
                      /\ check_identity_binding(lines[i], network)
                      /\ check_kind(lines[i], network)
<1>1. ASSUME verify_integrity(lines, network) PROVE verify(lines, network)
  <2>1. \A j \in DOMAIN lines :
          lines[j] # None /\ lines[j].stored = lines[j].recomputed
    BY <1>1 DEF verify_integrity, check_chain
  <2>2. ASSUME NEW i \in DOMAIN lines
        PROVE  verify_entry(lines[i], Before(i), network)
    <3>1. stored_before(lines, i) = Before(i)
      BY <2>1, LineBefore
    <3>2. check_chain(lines[i], Before(i)) /\ Rest(i)
      BY <1>1, <3>1 DEF verify_integrity
    <3> QED
      BY <3>2, SameChecks
  <2> QED
    BY <2>1, <2>2 DEF verify, Scanned
<1>2. ASSUME verify(lines, network) PROVE verify_integrity(lines, network)
  <2>1. \A j \in DOMAIN lines : lines[j] # None
    BY <1>2 DEF verify
  <2>2. Scanned(lines) = DOMAIN lines
    BY <2>1 DEF Scanned, IsFile
  <2>3. \A i \in DOMAIN lines : check_chain(lines[i], Before(i)) /\ Rest(i)
    BY <1>2, <2>2, SameChecks DEF verify
  <2>4. \A j \in DOMAIN lines : lines[j].stored = lines[j].recomputed
    BY <2>3 DEF check_chain
  <2>5. ASSUME NEW i \in DOMAIN lines
        PROVE  check_chain(lines[i], stored_before(lines, i))
    BY <2>1, <2>3, <2>4, LineBefore
  <2> QED
    BY <2>1, <2>3, <2>5 DEF verify_integrity, VersionTwo
<1> QED
  BY <1>1, <1>2

\* Each entry of a log whose owner's verify_integrity is content passes
\* verify_foreign_entry at every peer of the same network: a verified log can
\* be replicated whole (signed_log.py:779-846, peer_log.py accept_entry).
THEOREM VerifiedLogReplicates ==
  ASSUME NEW lines, NEW network, verify_integrity(lines, network)
  PROVE  \A i \in DOMAIN lines : verify_foreign_entry(lines[i], network)
  BY DEF verify_integrity, verify_foreign_entry, check_chain
=============================================================================

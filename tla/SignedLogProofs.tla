--------------------------- MODULE SignedLogProofs ---------------------------
(***************************************************************************)
(* Proofs about SignedLog: the type invariant, the unbroken chain, the     *)
(* index that covers its head and the head that never retreats, for every  *)
(* number of threads, instances and entries.  And, in the second part,     *)
(* about TornLines: the log without forks and the bound on what is lost,   *)
(* for every number of entries, faults and restarts.                       *)
(***************************************************************************)
EXTENDS SignedLog, TornLines, SequenceTheorems, FiniteSetTheorems, WellFoundedInduction, TLAPS

\* Whoever is inside append_event holds its instance's lock; only a reader
\* serves requests.
LockHeld ==
  \A t \in Threads :
    /\ pc[t] \in AppendSteps => t \in Appenders /\ lock[InstanceOf[t]] = t
    /\ pc[t] \in ReadSteps => t \in Readers

\* Between reading the head and writing, an appender's head is the file's.
FreshHead ==
  \A t \in Threads : pc[t] \in {"append_scanned", "write"} =>
    head[t] = Len(file)

\* The cached head of the writing instance is exact after a scan and after a
\* write, and whenever its signature passes for current.
CacheExact ==
  \A t \in Appenders :
    LET i == InstanceOf[t] IN
    \/ pc[t] \in {"append_scanned", "read_scanned", "written"}
    \/ latestHash[i] # None /\ latestSig[i] = Len(file)
    => latestHash[i] = Len(file)

\* No head is ahead of the cache it was read through, no cache ahead of the
\* file.
HeadsBounded ==
  /\ \A i \in Instances : latestHash[i] # None => latestHash[i] <= Len(file)
  /\ \A t \in Threads : head[t] <= Len(file)
  /\ \A t \in Threads : latestHash[InstanceOf[t]] # None =>
       head[t] <= latestHash[InstanceOf[t]]

LogInv ==
  /\ TypeOK
  /\ LockHeld
  /\ FreshHead
  /\ CacheExact
  /\ HeadsBounded
  /\ IndexCoversHead
  /\ ChainIntact

\* One appender is inside append_event at a time: two would hold one lock.
LEMMA OneAppender ==
  ASSUME LockHeld, NEW t \in Threads, NEW u \in Threads,
         pc[t] \in AppendSteps, pc[u] \in AppendSteps
  PROVE  t = u
<1>1. InstanceOf[t] = InstanceOf[u]
  BY DeploymentAssumption, LogAssumption DEF LockHeld
<1> QED BY <1>1 DEF LockHeld

\* A step moves no thread but the one that takes it.
LEMMA OthersStay ==
  ASSUME TypeOK, NEW t \in Threads, Step(t) \/ Acquire(t) \/ StartRead(t)
  PROVE  \A u \in Threads : u # t => pc'[u] = pc[u] /\ head'[u] = head[u]
BY DEF TypeOK, Step, Acquire, StartRead, Goto, Continue, CacheHit, CacheMiss,
       Scan, Restat, Persist, StatWritten, AppendRaises, ServeCached,
       RebuildIndex

---------------------------------------------------------------------------
\* A jump moves one thread, to a place the type invariant knows.
LEMMA GotoEffect ==
  ASSUME TypeOK, NEW t \in Threads,
         NEW place \in {"idle"} \cup AppendSteps \cup ReadSteps,
         Goto(t, place)
  PROVE  /\ pc' \in [Threads -> {"idle"} \cup AppendSteps \cup ReadSteps]
         /\ \A u \in Threads : pc'[u] = IF u = t THEN place ELSE pc[u]
BY DEF TypeOK, Goto

\* Leaving append_event frees a lock nobody else inside it holds.
LEMMA LeaveKeepsLockHeld ==
  ASSUME TypeOK, LockHeld, NEW t \in Threads, pc[t] \in AppendSteps,
         Release(t), Goto(t, "idle")
  PROVE  LockHeld'
<1>1. \A u \in Threads : pc'[u] = IF u = t THEN "idle" ELSE pc[u]
  BY GotoEffect
<1>2. \A u \in Threads \ {t} : pc[u] \notin AppendSteps
  BY OneAppender
<1>3. "idle" \notin AppendSteps /\ "idle" \notin ReadSteps
  BY DEF AppendSteps, ReadSteps
<1> QED BY <1>1, <1>2, <1>3 DEF LockHeld

LEMMA InitEstablishes == Init => LogInv
BY DeploymentAssumption, LogAssumption
DEF Init, LogInv, TypeOK, LockHeld, FreshHead, CacheExact, HeadsBounded,
    IndexCoversHead, ChainIntact, GENESIS, AppendSteps, ReadSteps

LEMMA CacheHitPreserves ==
  ASSUME LogInv, NEW t \in Threads, CacheHit(t)
  PROVE  LogInv'
<1> USE DeploymentAssumption, LogAssumption DEF CacheHit, Goto, Continue, Sig
<1> DEFINE i == InstanceOf[t]
<1>0. i \in Instances /\ latestHash[i] \in Nat /\ t \in Threads
  BY DEF LogInv, TypeOK
<1>1. TypeOK'
  <2>1. pc' \in [Threads -> {"idle"} \cup AppendSteps \cup ReadSteps]
    BY DEF LogInv, TypeOK, AppendSteps, ReadSteps
  <2>2. head' \in [Threads -> Nat]
    BY <1>0 DEF LogInv, TypeOK
  <2> QED BY <2>1, <2>2 DEF LogInv, TypeOK
<1>2. LockHeld' /\ CacheExact' /\ IndexCoversHead' /\ ChainIntact'
  BY DEF LogInv, TypeOK, LockHeld, CacheExact, IndexCoversHead, ChainIntact,
         AppendSteps, ReadSteps
<1>3. FreshHead'
  BY DEF LogInv, TypeOK, LockHeld, FreshHead, CacheExact, AppendSteps
<1>4. HeadsBounded'
  <2>1. head \in [Threads -> Nat] /\ latestHash[i] <= Len(file)
    BY <1>0 DEF LogInv, TypeOK, HeadsBounded
  <2>2. \A u \in Threads : head'[u] = IF u = t THEN latestHash[i] ELSE head[u]
    BY <2>1
  <2>3. (\A u \in Threads : head'[u] <= Len(file))
        /\ \A u \in Threads : latestHash[InstanceOf[u]] # None =>
              head'[u] <= latestHash[InstanceOf[u]]
    BY <1>0, <2>1, <2>2 DEF LogInv, HeadsBounded
  <2> QED BY <2>3 DEF LogInv, HeadsBounded
<1> QED BY <1>1, <1>2, <1>3, <1>4 DEF LogInv

LEMMA CacheMissPreserves ==
  ASSUME LogInv, NEW t \in Threads, CacheMiss(t)
  PROVE  LogInv'
BY DEF CacheMiss, Goto, LogInv, TypeOK, LockHeld, FreshHead, CacheExact,
       HeadsBounded, IndexCoversHead, ChainIntact, AppendSteps, ReadSteps

LEMMA ScanPreserves ==
  ASSUME LogInv, NEW t \in Threads, Scan(t)
  PROVE  LogInv'
<1> USE DeploymentAssumption, LogAssumption DEF Scan, Goto
<1>0. file \in Seq(Nat) /\ InstanceOf[t] \in Instances
  BY DEF LogInv, TypeOK
<1>1. TypeOK'
  <2>1. pc' \in [Threads -> {"idle"} \cup AppendSteps \cup ReadSteps]
    BY DEF LogInv, TypeOK, AppendSteps, ReadSteps
  <2>2. head' \in [Threads -> Nat]
        /\ latestHash' \in [Instances -> Nat \cup {None}]
    BY <1>0 DEF LogInv, TypeOK
  <2> QED BY <2>1, <2>2 DEF LogInv, TypeOK
<1>2. LockHeld' /\ FreshHead' /\ IndexCoversHead' /\ ChainIntact'
  BY DEF LogInv, TypeOK, LockHeld, FreshHead, IndexCoversHead, ChainIntact,
         AppendSteps, ReadSteps
<1>3. CacheExact'
  <2>1. \A i \in Instances :
          latestHash'[i] = IF i = InstanceOf[t] THEN Len(file) ELSE latestHash[i]
    BY DEF LogInv, TypeOK
  <2>2. \A u \in Threads \ {t} : pc'[u] = pc[u]
    BY DEF LogInv, TypeOK
  <2> QED BY <2>1, <2>2 DEF LogInv, TypeOK, CacheExact
<1>4. HeadsBounded'
  <2>1. \A u \in Threads : head'[u] \in Nat /\ head'[u] <= Len(file)
    BY <1>0 DEF LogInv, TypeOK, HeadsBounded
  <2>2. \A i \in Instances :
          latestHash'[i] = IF i = InstanceOf[t] THEN Len(file) ELSE latestHash[i]
    BY DEF LogInv, TypeOK
  <2>3. \A u \in Threads : InstanceOf[u] # InstanceOf[t] => head'[u] = head[u]
    BY DEF LogInv, TypeOK
  <2>4. \A u \in Threads : latestHash'[InstanceOf[u]] # None =>
          head'[u] <= latestHash'[InstanceOf[u]]
    BY <2>1, <2>2, <2>3 DEF LogInv, HeadsBounded
  <2> QED BY <1>0, <2>1, <2>2, <2>4 DEF LogInv, TypeOK, HeadsBounded
<1> QED BY <1>1, <1>2, <1>3, <1>4 DEF LogInv

LEMMA RestatPreserves ==
  ASSUME LogInv, NEW t \in Threads, Restat(t)
  PROVE  LogInv'
<1> USE DeploymentAssumption, LogAssumption DEF Restat, Goto, Continue, Sig
<1>1. TypeOK'
  <2>1. pc' \in [Threads -> {"idle"} \cup AppendSteps \cup ReadSteps]
    BY DEF LogInv, TypeOK, AppendSteps, ReadSteps
  <2>2. Len(file) \in Nat
    BY DEF LogInv, TypeOK
  <2>3. latestSig' \in [Instances -> Nat \cup {None}]
    BY <2>2 DEF LogInv, TypeOK
  <2> QED BY <2>1, <2>3 DEF LogInv, TypeOK
<1>2. LockHeld' /\ FreshHead' /\ IndexCoversHead' /\ ChainIntact'
  BY DEF LogInv, TypeOK, LockHeld, FreshHead, IndexCoversHead, ChainIntact,
         AppendSteps, ReadSteps
<1>3. CacheExact'
  <2>1. \A i \in Instances :
          latestSig'[i] = IF i = InstanceOf[t] THEN Len(file) ELSE latestSig[i]
    BY DEF LogInv, TypeOK
  <2>2. \A u \in Threads \ {t} : pc'[u] = pc[u]
    BY DEF LogInv, TypeOK
  <2>3. CASE pc[t] = "append_scanned"
    <3>1. t \in Appenders /\ latestHash[InstanceOf[t]] = Len(file)
      BY <2>3 DEF LogInv, LockHeld, CacheExact, AppendSteps
    <3> QED BY <2>1, <2>2, <3>1 DEF LogInv, TypeOK, CacheExact
  <2>4. CASE pc[t] = "read_scanned"
    <3>1. t \in Readers
      BY <2>4 DEF LogInv, LockHeld, ReadSteps
    <3>2. t \in Appenders => latestHash[InstanceOf[t]] = Len(file)
      BY <2>4 DEF LogInv, CacheExact
    <3> QED BY <2>1, <2>2, <3>1, <3>2 DEF LogInv, TypeOK, CacheExact
  <2> QED BY <2>3, <2>4
<1>4. HeadsBounded'
  BY DEF LogInv, TypeOK, HeadsBounded
<1> QED BY <1>1, <1>2, <1>3, <1>4 DEF LogInv

LEMMA AcquirePreserves ==
  ASSUME LogInv, NEW t \in Threads, Acquire(t)
  PROVE  LogInv'
<1>1. "append" \in AppendSteps /\ "append" \notin ReadSteps
  BY DEF AppendSteps, ReadSteps
<1>2. /\ pc' \in [Threads -> {"idle"} \cup AppendSteps \cup ReadSteps]
      /\ \A u \in Threads : pc'[u] = IF u = t THEN "append" ELSE pc[u]
  BY <1>1, GotoEffect DEF Acquire, LogInv
<1>3. lock' \in [Instances -> Threads \cup {None}]
  BY DEF Acquire, LogInv, TypeOK
<1>4. TypeOK' /\ HeadsBounded' /\ IndexCoversHead' /\ ChainIntact'
  BY <1>2, <1>3 DEF Acquire, LogInv, TypeOK, HeadsBounded, IndexCoversHead,
                    ChainIntact
<1>5. FreshHead' /\ CacheExact'
  BY <1>2, DeploymentAssumption, LogAssumption
  DEF Acquire, LogInv, FreshHead, CacheExact
<1>6. LockHeld'
  <2>1. \A u \in Threads : pc[u] \notin AppendSteps
    BY DeploymentAssumption, LogAssumption DEF Acquire, LogInv, LockHeld
  <2>2. t \in Appenders /\ lock'[InstanceOf[t]] = t
    BY DeploymentAssumption, LogAssumption DEF Acquire, LogInv, TypeOK
  <2> QED BY <1>1, <1>2, <2>1, <2>2 DEF LogInv, LockHeld
<1> QED BY <1>4, <1>5, <1>6 DEF LogInv

LEMMA PersistPreserves ==
  ASSUME LogInv, NEW t \in Threads, Persist(t)
  PROVE  LogInv'
<1> USE DeploymentAssumption, LogAssumption DEF Persist, Goto
<1>1. Len(file') = Len(file) + 1 /\ file' \in Seq(Nat)
  BY DEF LogInv, TypeOK
<1>2. TypeOK'
  <2>1. pc' \in [Threads -> {"idle"} \cup AppendSteps \cup ReadSteps]
    BY DEF LogInv, TypeOK, AppendSteps
  <2>2. Len(file') \in Nat
    BY <1>1
  <2>3. latestHash' \in [Instances -> Nat \cup {None}]
    BY <2>2 DEF LogInv, TypeOK
  <2> QED BY <1>1, <2>1, <2>3 DEF LogInv, TypeOK
<1>3. LockHeld'
  <2>1. "write" \in AppendSteps /\ "written" \in AppendSteps
        /\ "written" \notin ReadSteps
    BY DEF AppendSteps, ReadSteps
  <2> QED BY <2>1, GotoEffect DEF LogInv, LockHeld
<1>4. FreshHead'
  BY OneAppender DEF LogInv, TypeOK, AppendSteps, FreshHead
<1>5. CacheExact'
  BY <1>1 DEF LogInv, TypeOK, LockHeld, CacheExact, AppendSteps
<1>6. HeadsBounded'
  BY <1>1 DEF LogInv, TypeOK, HeadsBounded
<1>7. IndexCoversHead'
  BY DEF LogInv, IndexCoversHead
<1>8. ChainIntact'
  <2>1. head[t] = Len(file)
    BY DEF LogInv, FreshHead
  <2> SUFFICES ASSUME NEW k \in 1..Len(file')
               PROVE  file'[k] = k - 1
    BY DEF ChainIntact
  <2>2. CASE k \in 1..Len(file)
    BY <2>2 DEF LogInv, TypeOK, ChainIntact
  <2>3. CASE k = Len(file) + 1
    BY <2>1, <2>3 DEF LogInv, TypeOK
  <2> QED BY <1>1, <2>2, <2>3 DEF LogInv, TypeOK
<1> QED BY <1>2, <1>3, <1>4, <1>5, <1>6, <1>7, <1>8 DEF LogInv

LEMMA StatWrittenPreserves ==
  ASSUME LogInv, NEW t \in Threads, StatWritten(t)
  PROVE  LogInv'
<1> USE DeploymentAssumption, LogAssumption DEF StatWritten, Release, Goto, Sig
<1>1. TypeOK' /\ IndexCoversHead' /\ ChainIntact'
  <2>1. pc' \in [Threads -> {"idle"} \cup AppendSteps \cup ReadSteps]
    BY DEF LogInv, TypeOK
  <2>2. lock' \in [Instances -> Threads \cup {None}]
    BY DEF LogInv, TypeOK
  <2>3. Len(file) \in Nat
    BY DEF LogInv, TypeOK
  <2>4. latestSig' \in [Instances -> Nat \cup {None}]
    BY <2>3 DEF LogInv, TypeOK
  <2> QED BY <2>1, <2>2, <2>4 DEF LogInv, TypeOK, IndexCoversHead, ChainIntact
<1>2. LockHeld'
  <2>1. pc[t] \in AppendSteps
    BY DEF AppendSteps
  <2> QED BY <2>1, LeaveKeepsLockHeld DEF LogInv
<1>3. FreshHead' /\ HeadsBounded'
  BY DEF LogInv, TypeOK, FreshHead, HeadsBounded
<1>4. CacheExact'
  BY DEF LogInv, TypeOK, LockHeld, CacheExact, AppendSteps
<1> QED BY <1>1, <1>2, <1>3, <1>4 DEF LogInv

LEMMA AppendRaisesPreserves ==
  ASSUME LogInv, NEW t \in Threads, AppendRaises(t)
  PROVE  LogInv'
<1> USE DeploymentAssumption, LogAssumption DEF AppendRaises, Release, Goto
<1>1. TypeOK' /\ IndexCoversHead' /\ ChainIntact'
  <2>1. pc' \in [Threads -> {"idle"} \cup AppendSteps \cup ReadSteps]
    BY DEF LogInv, TypeOK
  <2>2. lock' \in [Instances -> Threads \cup {None}]
    BY DEF LogInv, TypeOK
  <2> QED BY <2>1, <2>2 DEF LogInv, TypeOK, IndexCoversHead, ChainIntact
<1>2. LockHeld'
  <2>1. pc[t] \in AppendSteps
    BY DEF AppendSteps
  <2> QED BY <2>1, LeaveKeepsLockHeld DEF LogInv
<1>3. FreshHead' /\ HeadsBounded' /\ CacheExact'
  BY DEF LogInv, TypeOK, FreshHead, HeadsBounded, CacheExact
<1> QED BY <1>1, <1>2, <1>3 DEF LogInv

LEMMA ReadPreserves ==
  ASSUME LogInv, NEW t \in Threads,
         StartRead(t) \/ ServeCached(t) \/ RebuildIndex(t)
  PROVE  LogInv'
<1> USE DeploymentAssumption, LogAssumption DEF StartRead, ServeCached, RebuildIndex, Goto
<1>1. TypeOK' /\ ChainIntact'
  <2>1. pc' \in [Threads -> {"idle"} \cup AppendSteps \cup ReadSteps]
    <3>1. PICK place \in {"idle", "read"} : Goto(t, place)
      OBVIOUS
    <3>2. place \in {"idle"} \cup AppendSteps \cup ReadSteps
      BY DEF ReadSteps
    <3>3. TypeOK
      BY DEF LogInv
    <3> HIDE DEF Goto
    <3> QED BY <3>1, <3>2, <3>3, GotoEffect
  <2>2. index' \in [Readers -> [head : Nat \cup {None}, entries : Nat]]
    BY DEF LogInv, TypeOK
  <2> QED BY <2>1, <2>2 DEF LogInv, TypeOK, ChainIntact
<1>2. LockHeld' /\ FreshHead' /\ CacheExact' /\ HeadsBounded'
  BY DEF LogInv, TypeOK, LockHeld, FreshHead, CacheExact, HeadsBounded,
         AppendSteps, ReadSteps
<1>3. IndexCoversHead'
  BY DEF LogInv, TypeOK, IndexCoversHead, HeadsBounded
<1> QED BY <1>1, <1>2, <1>3 DEF LogInv

LEMMA StepPreserves == LogInv /\ [Next]_vars => LogInv'
<1> SUFFICES ASSUME LogInv, [Next]_vars PROVE LogInv'
  OBVIOUS
<1>1. CASE UNCHANGED vars
  BY <1>1 DEF vars, LogInv, TypeOK, LockHeld, FreshHead, CacheExact,
              HeadsBounded, IndexCoversHead, ChainIntact
<1>2. CASE Next
  BY <1>2, CacheHitPreserves, CacheMissPreserves, ScanPreserves,
     RestatPreserves, AcquirePreserves, PersistPreserves,
     StatWrittenPreserves, AppendRaisesPreserves, ReadPreserves
  DEF Next, Step
<1> QED BY <1>1, <1>2

\* Every reachable state satisfies the inductive invariant.
THEOREM LogInvariant == Spec => []LogInv
<1> QED BY InitEstablishes, StepPreserves, PTL DEF Spec

\* TypeOK of SignedLog holds throughout.
THEOREM TypeCorrect == Spec => []TypeOK
<1>1. LogInv => TypeOK
  BY DEF LogInv
<1> QED BY <1>1, LogInvariant, PTL

\* One writing instance never forks its chain, whatever else reads the file
\* and whichever appends fail.
THEOREM ChainNeverForks == Spec => []ChainIntact
<1>1. LogInv => ChainIntact
  BY DEF LogInv
<1> QED BY <1>1, LogInvariant, PTL

\* The head of the server's index is one of the entries behind it.
THEOREM IndexAlwaysCoversHead == Spec => []IndexCoversHead
<1>1. LogInv => IndexCoversHead
  BY DEF LogInv
<1> QED BY <1>1, LogInvariant, PTL

\* No thread reads a head older than the one it read before.
THEOREM HeadsNeverRetreat == Spec => HeadNeverRetreats
<1> DEFINE Grows == \A t \in Threads : head'[t] >= head[t]
<1>1. LogInv /\ [Next]_vars => [Grows]_vars
  <2> SUFFICES ASSUME LogInv, Next PROVE Grows
    OBVIOUS
  <2>1. PICK t \in Threads : Step(t) \/ Acquire(t) \/ StartRead(t)
    BY DEF Next
  <2>2. \A u \in Threads \ {t} : head'[u] = head[u]
    BY <2>1, OthersStay DEF LogInv
  <2>3. head'[t] >= head[t]
    <3>1. CASE CacheHit(t)
      BY <3>1, DeploymentAssumption, LogAssumption DEF CacheHit, LogInv, TypeOK, HeadsBounded
    <3>2. CASE Scan(t)
      BY <3>2 DEF Scan, LogInv, TypeOK, HeadsBounded
    <3>3. CASE head' = head
      BY <3>3 DEF LogInv, TypeOK
    <3> QED
      BY <2>1, <3>1, <3>2, <3>3
      DEF Step, Acquire, StartRead, CacheMiss, Restat, Persist, StatWritten,
          AppendRaises, ServeCached, RebuildIndex
  <2> QED BY <2>2, <2>3 DEF LogInv, TypeOK
<1> QED BY <1>1, LogInvariant, PTL DEF Spec, HeadNeverRetreats

---------------------------------------------------------------------------
\* Torn lines.  What a file is made of: lines of at least one piece, and a
\* last line when none of it is ended.

IsList(s) == s \in Seq({s[i] : i \in DOMAIN s})
Sound(f) ==
  /\ IsList(f.lines) /\ f.ended \in BOOLEAN
  /\ \A i \in DOMAIN f.lines : IsList(f.lines[i]) /\ Len(f.lines[i]) > 0
  /\ f.ended = FALSE => Len(f.lines) > 0

Size(f) == Len(f.lines)

\* A list is indexed from 1.
LEMMA ListIs ==
  ASSUME NEW s, IsList(s)
  PROVE  Len(s) \in Nat /\ DOMAIN s = 1..Len(s)
BY DEF IsList

\* A sequence over any set is a list.
LEMMA ListMade ==
  ASSUME NEW S, NEW s \in Seq(S)
  PROVE  IsList(s)
<1>1. Len(s) \in Nat /\ s = [i \in 1..Len(s) |-> s[i]]
  OBVIOUS
<1> QED
  BY <1>1 DEF IsList

\* Appending adds one element and keeps the others.
LEMMA ListAppend ==
  ASSUME NEW s, IsList(s), NEW e
  PROVE  /\ IsList(Append(s, e)) /\ Len(Append(s, e)) = Len(s) + 1
         /\ \A i \in 1..Len(s) : Append(s, e)[i] = s[i]
         /\ Append(s, e)[Len(s) + 1] = e
<1> DEFINE S == {s[i] : i \in DOMAIN s} \cup {e}
<1>1. s \in Seq(S) /\ e \in S
  BY ListIs DEF IsList
<1> HIDE DEF S
<1>2. Append(s, e) \in Seq(S)
  BY <1>1, AppendProperties
<1>3. IsList(Append(s, e))
  BY <1>2, ListMade
<1> QED
  BY <1>1, <1>3, AppendProperties

Changed(s, n, e, t) ==
  /\ IsList(t) /\ Len(t) = Len(s) /\ t[n] = e
  /\ \A i \in 1..Len(s) : i # n => t[i] = s[i]

\* Replacing an element keeps the others.
LEMMA ListExcept ==
  ASSUME NEW s, IsList(s), NEW n \in 1..Len(s), NEW e
  PROVE  Changed(s, n, e, [s EXCEPT ![n] = e])
<1> DEFINE S == {s[i] : i \in DOMAIN s} \cup {e}
           t == [s EXCEPT ![n] = e]
<1>1. s \in Seq(S) /\ Len(s) \in Nat /\ DOMAIN s = 1..Len(s)
  BY ListIs DEF IsList
<1>2. DOMAIN t = 1..Len(s) /\ t[n] = e /\ \A i \in 1..Len(s) : i # n => t[i] = s[i]
  BY <1>1
<1>3. \A i \in 1..Len(s) : t[i] \in S
  BY <1>1, <1>2
<1>4. t = [i \in 1..Len(s) |-> t[i]]
  BY <1>2
<1> HIDE DEF S, t
<1>5. t \in Seq(S) /\ Len(t) = Len(s)
  BY <1>1, <1>3, <1>4
<1> QED
  BY <1>2, <1>5, ListMade DEF Changed, t

\* A write to a file whose last line is ended is a line of its own.
OwnLine(f, k, whole, g) ==
  /\ Size(g) = Size(f) + 1
  /\ Whole(g) = Whole(f) \cup (IF whole THEN {Size(f) + 1} ELSE {})
  /\ \A i \in Whole(f) : EntryIn(g, i) = EntryIn(f, i)
  /\ EntryIn(g, Size(f) + 1) = k

\* What a write to an ended file does to its lines.
LEMMA NewLine ==
  ASSUME NEW f, Sound(f), f.ended = TRUE, NEW k,
         NEW whole \in BOOLEAN, NEW ended \in BOOLEAN,
         NEW g, g = Written(f, k, whole, ended)
  PROVE  Sound(g) /\ g.ended = ended /\ OwnLine(f, k, whole, g)
<1> DEFINE n == Len(f.lines)
           p == Piece(k, whole)
<1>1. n \in Nat /\ DOMAIN f.lines = 1..n /\ IsList(f.lines)
  BY ListIs DEF Sound
<1>2. g.ended = ended /\ g.lines = Append(f.lines, <<p>>)
  BY DEF Written
<1>3. p.entry = k /\ p.whole = whole
  BY DEF Piece
<1> HIDE DEF p
<1>4. IsList(<<p>>) /\ Len(<<p>>) = 1
  BY DEF IsList
<1>5. /\ IsList(g.lines) /\ Len(g.lines) = n + 1 /\ g.lines[n + 1] = <<p>>
      /\ \A i \in 1..n : g.lines[i] = f.lines[i]
  BY <1>1, <1>2, ListAppend
<1>6. DOMAIN g.lines = 1..n \cup {n + 1} /\ n + 1 \notin 1..n
  BY <1>1, <1>5, ListIs
<1>7. Sound(g)
  BY <1>1, <1>2, <1>4, <1>5, <1>6 DEF Sound
<1>8. Parses(g.lines[n + 1]) <=> whole
  BY <1>3, <1>5 DEF Parses
<1>9. EntryIn(g, n + 1) = k
  BY <1>3, <1>5 DEF EntryIn
<1>10. Whole(g) = Whole(f) \cup (IF whole THEN {n + 1} ELSE {})
  BY <1>1, <1>5, <1>6, <1>8 DEF Whole
<1>11. \A i \in Whole(f) : EntryIn(g, i) = EntryIn(f, i)
  BY <1>1, <1>5 DEF Whole, EntryIn
<1> QED
  BY <1>2, <1>5, <1>7, <1>9, <1>10, <1>11 DEF Size, OwnLine

\* Otherwise it goes on in the last line, which does not parse after that.
SharedLine(f, g) ==
  /\ Size(g) = Size(f) /\ Whole(g) = Whole(f) \ {Size(f)}
  /\ \A i \in Whole(g) : EntryIn(g, i) = EntryIn(f, i)
  /\ EntryIn(g, Size(g)) = EntryIn(f, Size(f))

\* What a write to an open line does to it.
LEMMA SameLine ==
  ASSUME NEW f, Sound(f), f.ended = FALSE, NEW k,
         NEW whole \in BOOLEAN, NEW ended \in BOOLEAN,
         NEW g, g = Written(f, k, whole, ended)
  PROVE  Sound(g) /\ g.ended = ended /\ SharedLine(f, g)
<1> DEFINE n == Len(f.lines)
           p == Piece(k, whole)
           grown == Append(f.lines[n], p)
<1>1. n \in Nat /\ DOMAIN f.lines = 1..n /\ IsList(f.lines)
  BY ListIs DEF Sound
<1>2. g.ended = ended /\ g.lines = [f.lines EXCEPT ![n] = grown]
  BY DEF Written
<1> HIDE DEF p
<1>3. n > 0 /\ n \in 1..n /\ n \in 1..Len(f.lines)
  BY <1>1 DEF Sound
<1>4. IsList(f.lines[n]) /\ Len(f.lines[n]) > 0 /\ Len(f.lines[n]) \in Nat
  BY <1>1, <1>3, ListIs DEF Sound
<1>5. IsList(grown) /\ Len(grown) = Len(f.lines[n]) + 1 /\ grown[1] = f.lines[n][1]
  BY <1>4, ListAppend
<1> HIDE DEF grown
<1>6. /\ IsList(g.lines) /\ Len(g.lines) = n /\ g.lines[n] = grown
      /\ \A i \in 1..n : i # n => g.lines[i] = f.lines[i]
  <2>1. Changed(f.lines, n, grown, g.lines)
    BY <1>1, <1>2, <1>3, ListExcept
  <2> QED
    BY <2>1 DEF Changed
<1>7. DOMAIN g.lines = 1..n
  BY <1>6, ListIs
<1>8. Len(grown) > 0 /\ Len(grown) # 1
  BY <1>4, <1>5
<1>9. Sound(g)
  <2>1. \A i \in 1..n : IsList(g.lines[i]) /\ Len(g.lines[i]) > 0
    BY <1>1, <1>5, <1>6, <1>8 DEF Sound
  <2> QED
    BY <1>2, <1>3, <1>6, <1>7, <2>1 DEF Sound
<1>10. ~ Parses(g.lines[n])
  BY <1>6, <1>8 DEF Parses
<1>11. Whole(g) = Whole(f) \ {n}
  BY <1>1, <1>6, <1>7, <1>10 DEF Whole
<1>12. \A i \in Whole(g) : EntryIn(g, i) = EntryIn(f, i)
  BY <1>1, <1>6, <1>11 DEF Whole, EntryIn
<1>13. EntryIn(g, n) = EntryIn(f, n)
  BY <1>5, <1>6 DEF EntryIn
<1> QED
  BY <1>2, <1>6, <1>9, <1>11, <1>12, <1>13 DEF Size, SharedLine

Rising(f) == \A i \in Whole(f) : \A j \in Whole(f) :
               i < j => EntryIn(f, i) < EntryIn(f, j)
LastEntry(f) == EntryIn(f, Size(f))

\* What can be read after a write.
Gains(f, k, g) ==
  /\ Readable(f) \subseteq Readable(g)
  /\ Readable(g) \subseteq Readable(f) \cup {k}
  /\ LastEntry(g) = k
Loses(f, g) ==
  /\ Readable(g) \subseteq Readable(f)
  /\ Readable(f) \subseteq Readable(g) \cup {LastEntry(f)}
  /\ LastEntry(g) = LastEntry(f)

\* What can be read after a write, whole or cut short.
LEMMA ReadAfter ==
  ASSUME NEW f, Sound(f), NEW k, NEW whole \in BOOLEAN, NEW ended \in BOOLEAN,
         NEW g, g = Written(f, k, whole, ended)
  PROVE  /\ Sound(g) /\ g.ended = ended
         /\ f.ended = TRUE => Gains(f, k, g)
         /\ f.ended = TRUE /\ whole = TRUE => k \in Readable(g)
         /\ f.ended = FALSE => Loses(f, g)
<1> DEFINE n == Size(f)
<1>1. CASE f.ended = TRUE
  <2> DEFINE more == IF whole THEN {n + 1} ELSE {}
  <2>0. Sound(g) /\ g.ended = ended /\ OwnLine(f, k, whole, g)
    BY <1>1, NewLine
  <2>1. /\ Whole(g) = Whole(f) \cup more
        /\ \A i \in Whole(f) : EntryIn(g, i) = EntryIn(f, i)
        /\ EntryIn(g, n + 1) = k
    BY <2>0 DEF OwnLine
  <2>2. more \subseteq {n + 1} /\ (whole => n + 1 \in more)
    OBVIOUS
  <2> HIDE DEF more, n
  <2>3. Readable(g) \subseteq Readable(f) \cup {k}
    BY <2>1, <2>2 DEF Readable
  <2>4. Readable(f) \subseteq Readable(g)
    BY <2>1 DEF Readable
  <2>5. whole => k \in Readable(g)
    BY <2>1, <2>2 DEF Readable
  <2>6. LastEntry(g) = k
    BY <2>0 DEF OwnLine, LastEntry
  <2> QED
    BY <1>1, <2>0, <2>3, <2>4, <2>5, <2>6 DEF Gains
<1>2. CASE f.ended = FALSE
  <2>0. Sound(g) /\ g.ended = ended /\ SharedLine(f, g)
    BY <1>2, SameLine
  <2>1. /\ Whole(g) = Whole(f) \ {n}
        /\ \A i \in Whole(g) : EntryIn(g, i) = EntryIn(f, i)
    BY <2>0 DEF SharedLine
  <2>2. LastEntry(f) = EntryIn(f, n)
    BY DEF LastEntry
  <2> HIDE DEF n
  <2>3. Readable(g) \subseteq Readable(f)
    BY <2>1 DEF Readable
  <2>4. Readable(f) \subseteq Readable(g) \cup {LastEntry(f)}
    BY <2>1, <2>2 DEF Readable
  <2>5. LastEntry(g) = LastEntry(f)
    BY <2>0 DEF SharedLine, LastEntry
  <2> QED
    BY <1>2, <2>0, <2>3, <2>4, <2>5 DEF Loses
<1> QED
  BY <1>1, <1>2 DEF Sound

\* A write of a later entry keeps the entries of a file in order.
LEMMA RisingAfter ==
  ASSUME NEW f, Sound(f), Rising(f), NEW k \in Nat, \A e \in Readable(f) : e < k,
         NEW whole \in BOOLEAN, NEW ended \in BOOLEAN,
         NEW g, g = Written(f, k, whole, ended)
  PROVE  Rising(g)
<1> DEFINE n == Size(f)
<1>1. CASE f.ended = TRUE
  <2>0. OwnLine(f, k, whole, g)
    BY <1>1, NewLine
  <2>1. /\ \A i \in Whole(g) : i \in Whole(f) \/ i = n + 1
        /\ \A i \in Whole(f) : EntryIn(g, i) = EntryIn(f, i)
        /\ EntryIn(g, n + 1) = k
    BY <2>0 DEF OwnLine
  <2>2. n \in Nat /\ \A i \in Whole(f) : i \in 1..n
    BY ListIs DEF Sound, Whole, Size
  <2>3. \A i \in Whole(f) : EntryIn(f, i) < k
    BY DEF Readable
  <2> HIDE DEF n
  <2>4. ASSUME NEW i \in Whole(g), NEW j \in Whole(g), i < j
        PROVE  EntryIn(g, i) < EntryIn(g, j)
    <3>1. i \in Whole(f)
      BY <2>1, <2>2, <2>4
    <3>2. CASE j \in Whole(f)
      BY <2>1, <2>4, <3>1, <3>2 DEF Rising
    <3>3. CASE j = n + 1
      BY <2>1, <2>3, <3>1, <3>3
    <3> QED
      BY <2>1, <3>2, <3>3
  <2> QED
    BY <2>4 DEF Rising
<1>2. CASE f.ended = FALSE
  <2>1. SharedLine(f, g)
    BY <1>2, SameLine
  <2> QED
    BY <2>1 DEF Rising, SharedLine
<1> QED
  BY <1>1, <1>2 DEF Sound

\* A non-empty set of line numbers has a greatest member.
LEMMA LastOfSome ==
  ASSUME NEW n \in Nat, NEW E, E \subseteq 1..n, E # {}
  PROVE  Max(E) \in E /\ \A i \in E : i <= Max(E)
<1> DEFINE T == {n - i : i \in E}
<1>1. T \subseteq Nat /\ T # {}
  <2>1. \A i \in E : n - i \in Nat
    OBVIOUS
  <2> QED
    BY <2>1
<1>2. PICK k \in T : \A l \in T : ~ (<<l, k>> \in OpToRel(<, Nat))
  <2> HIDE DEF T
  <2> QED
    BY <1>1, NatLessThanWellFounded, WFMin
<1>3. PICK i \in E : k = n - i
  BY <1>2
<1>4. \A j \in E : ~ (n - j < k)
  <2>1. \A j \in E : n - j \in T /\ n - j \in Nat
    BY <1>1
  <2>2. k \in Nat
    BY <1>1, <1>2
  <2> HIDE DEF T
  <2> QED
    BY <1>2, <2>1, <2>2 DEF OpToRel
<1>5. \A j \in E : i >= j
  BY <1>3, <1>4
<1>6. \E x \in E : \A y \in E : x >= y
  BY <1>5
<1>7. Max(E) \in E /\ \A y \in E : Max(E) >= y
  BY <1>6 DEF Max
<1> QED
  BY <1>7

---------------------------------------------------------------------------
\* The author's log: entries in the order of the attempts, each behind one
\* that was there before it.  latest_hash() is never behind what can be read.

Linked ==
  /\ Sound(log) /\ Rising(log) /\ previous \in Seq(Nat)
  /\ Readable(log) \subseteq 1..Len(previous)
  /\ latest # None => latest \in 0..Len(previous)
                        /\ \A k \in Readable(log) : k <= latest
  /\ \A k \in 1..Len(previous) : previous[k] < k
  /\ \A k \in Readable(log) : \A m \in Readable(log) :
       k < m => k <= previous[m]

\* The head an author builds on, cached or scanned, is none behind the
\* last entry that can be read.
LEMMA HeadIsLast ==
  ASSUME Linked
  PROVE  /\ latest_hash \in 0..Len(previous)
         /\ \A k \in Readable(log) : k <= latest_hash
<1>1. CASE latest # None
  BY <1>1 DEF Linked, latest_hash
<1>2. CASE latest = None
  <2> DEFINE h == ScannedHead(log)
             W == Whole(log)
  <2>1. latest_hash = h
    BY <1>2 DEF latest_hash
  <2>2. CASE W = {}
    <3>1. h = 0 /\ Readable(log) = {}
      BY <2>2 DEF ScannedHead, Readable, GENESIS
    <3>2. Len(previous) \in Nat
      BY DEF Linked
    <3> QED
      BY <2>1, <3>1, <3>2
  <2>3. CASE W # {}
    <3> DEFINE last == Max(W)
    <3>1. Len(log.lines) \in Nat /\ W \subseteq 1..Len(log.lines)
      BY ListIs DEF Linked, Sound, Whole
    <3>2. last \in W /\ \A i \in W : i <= last
      <4> HIDE DEF W
      <4> QED
        BY <2>3, <3>1, LastOfSome
    <3>3. h = EntryIn(log, last)
      BY <2>3 DEF ScannedHead
    <3> HIDE DEF last, h
    <3>4. h \in Readable(log)
      BY <3>2, <3>3 DEF Readable
    <3>5. \A i \in W : i < last => EntryIn(log, i) < h
      BY <3>2, <3>3 DEF Linked, Rising
    <3>6. \A i \in W : EntryIn(log, i) <= h
      <4>1. \A i \in W : i < last \/ i = last
        BY <3>1, <3>2
      <4>2. \A i \in W : EntryIn(log, i) \in Readable(log)
        BY DEF Readable
      <4>3. \A e \in Readable(log) : e \in Nat
        BY DEF Linked
      <4> HIDE DEF W
      <4> QED
        BY <3>3, <3>4, <3>5, <4>1, <4>2, <4>3
    <3>7. h \in 1..Len(previous)
      BY <3>4 DEF Linked
    <3>8. \A k \in Readable(log) : k <= h
      BY <3>6 DEF Readable
    <3> QED
      BY <2>1, <3>7, <3>8
  <2> QED
    BY <2>2, <2>3
<1> QED
  BY <1>1, <1>2

\* A write of any kind, or none.
Writes(f, k, g) ==
  g = f \/ \E whole \in BOOLEAN, ended \in BOOLEAN : g = Written(f, k, whole, ended)

\* A write that is cut short is a write of some kind, or none.
LEMMA CutShortWrites ==
  ASSUME NEW f, NEW k, NEW g \in CutShort(f, k)
  PROVE  Writes(f, k, g)
BY DEF CutShort, Writes

\* A write makes at most its own entry readable.
LEMMA WritesRead ==
  ASSUME NEW f, Sound(f), NEW k, NEW g, Writes(f, k, g)
  PROVE  Sound(g) /\ Readable(g) \subseteq Readable(f) \cup {k}
<1>1. CASE g = f
  BY <1>1
<1>2. ASSUME NEW whole \in BOOLEAN, NEW ended \in BOOLEAN,
             g = Written(f, k, whole, ended)
      PROVE  Sound(g) /\ Readable(g) \subseteq Readable(f) \cup {k}
  <2>1. Sound(g)
    BY <1>2, ReadAfter
  <2>2. CASE f.ended = TRUE
    <3>1. Gains(f, k, g)
      BY <1>2, <2>2, ReadAfter
    <3> QED
      BY <2>1, <3>1 DEF Gains
  <2>3. CASE f.ended = FALSE
    <3>1. Loses(f, g)
      BY <1>2, <2>3, ReadAfter
    <3> QED
      BY <2>1, <3>1 DEF Loses
  <2> QED
    BY <2>2, <2>3 DEF Sound
<1> QED
  BY <1>1, <1>2 DEF Writes

\* It keeps the order.
LEMMA WritesRise ==
  ASSUME NEW f, Sound(f), Rising(f), NEW k \in Nat, \A e \in Readable(f) : e < k,
         NEW g, Writes(f, k, g)
  PROVE  Rising(g)
BY RisingAfter DEF Writes

\* An attempt to append keeps the log linked, however it ends.
LEMMA LinkedBuilds ==
  ASSUME Linked, Builds, Writes(log, Len(previous'), log'),
         \/ latest' \in {Len(previous'), None}
         \/ log' = log /\ latest' = latest
  PROVE  Linked'
<1> DEFINE n == Len(previous)
           h == latest_hash
           R == Readable(log)
           S == Readable(log')
<1>1. n \in Nat /\ previous \in Seq(Nat) /\ R \subseteq 1..n
  BY DEF Linked
<1>2. h \in 0..n /\ h \in Nat /\ \A k \in R : k <= h
  BY <1>1, HeadIsLast
<1>3. previous' = Append(previous, h)
  BY DEF Builds
<1> HIDE DEF h
<1>4. /\ previous' \in Seq(Nat) /\ Len(previous') = n + 1 /\ previous'[n + 1] = h
      /\ \A k \in 1..n : previous'[k] = previous[k]
  BY <1>1, <1>2, <1>3, AppendProperties
<1>5. \A e \in R : e < n + 1
  BY <1>1
<1>6. Sound(log') /\ S \subseteq R \cup {n + 1}
  BY <1>4, WritesRead DEF Linked
<1>7. Rising(log')
  BY <1>1, <1>4, <1>5, WritesRise DEF Linked
<1> HIDE DEF R, S
<1>8. S \subseteq 1..Len(previous')
  BY <1>1, <1>4, <1>6
<1>9. latest' # None => latest' \in 0..Len(previous') /\ \A k \in S : k <= latest'
  <2>1. CASE latest' = n + 1
    BY <1>1, <1>4, <1>6, <2>1
  <2>2. CASE log' = log /\ latest' = latest
    <3>1. S = R
      BY <2>2 DEF R, S
    <3>2. latest # None => latest \in 0..n /\ \A k \in R : k <= latest
      BY DEF Linked, R
    <3> QED
      BY <1>1, <1>4, <2>2, <3>1, <3>2
  <2> QED
    BY <1>4, <2>1, <2>2
<1>10. \A k \in 1..Len(previous') : previous'[k] < k
  <2>1. \A k \in 1..n : previous[k] < k
    BY DEF Linked
  <2>2. \A k \in 1..n : previous'[k] < k
    BY <1>4, <2>1
  <2>3. previous'[n + 1] < n + 1
    BY <1>1, <1>2, <1>4
  <2>4. \A k \in 1..(n + 1) : k \in 1..n \/ k = n + 1
    BY <1>1
  <2> HIDE DEF n
  <2> QED
    BY <1>4, <2>2, <2>3, <2>4
<1>11. \A k \in S : \A m \in S : k < m => k <= previous'[m]
  <2>1. \A k \in R : \A m \in R : k < m => k <= previous[m]
    BY DEF Linked, R
  <2>2. ASSUME NEW k \in S, NEW m \in S, k < m
        PROVE  k <= previous'[m]
    <3>1. CASE m \in R
      <4>1. k \in R
        BY <1>1, <1>6, <2>2, <3>1
      <4> QED
        BY <1>1, <1>4, <2>1, <2>2, <3>1, <4>1
    <3>2. CASE m = n + 1
      <4>1. k \in R
        BY <1>1, <1>6, <2>2, <3>2
      <4> QED
        BY <1>2, <1>4, <3>2, <4>1
    <3> QED
      BY <1>6, <3>1, <3>2
  <2> QED
    BY <2>2
<1> QED
  BY <1>4, <1>6, <1>7, <1>8, <1>9, <1>10, <1>11 DEF Linked, S

---------------------------------------------------------------------------
\* The file with nothing but its header.
LEMMA FirstFile ==
  /\ Sound(NewFile) /\ NewFile.ended = TRUE
         /\ Whole(NewFile) = {} /\ Size(NewFile) = 0
<1>1. NewFile.lines = <<>> /\ NewFile.ended = TRUE
  BY DEF NewFile
<1>2. IsList(<<>>) /\ DOMAIN <<>> = {} /\ Len(<<>>) = 0
  BY DEF IsList
<1> QED
  BY <1>1, <1>2 DEF Sound, Whole, Size

\* The file whose header was cut short.
LEMMA FirstTorn ==
  /\ Sound(TornHeader) /\ TornHeader.ended = FALSE
         /\ Whole(TornHeader) = {}
<1> DEFINE g == TornHeader
<1>1. g = Written(NewFile, GENESIS, FALSE, FALSE)
  BY DEF TornHeader
<1> HIDE DEF g
<1>2. Sound(g) /\ g.ended = FALSE /\ OwnLine(NewFile, GENESIS, FALSE, g)
  BY <1>1, FirstFile, NewLine
<1>3. Whole(g) = {}
  BY <1>2, FirstFile DEF OwnLine
<1> QED
  BY <1>2, <1>3 DEF g

\* The log is linked at first.
LEMMA LinkedInit ==
  ASSUME TornInit
  PROVE  Linked
<1>1. Sound(log) /\ Whole(log) = {}
  BY FirstFile, FirstTorn DEF TornInit
<1>2. Readable(log) = {} /\ Rising(log)
  BY <1>1 DEF Readable, Rising
<1>3. previous \in Seq(Nat) /\ Len(previous) = 0 /\ latest = None
  BY DEF TornInit
<1> QED
  BY <1>1, <1>2, <1>3 DEF Linked

\* Nobody else touches it; the cached hash may be dropped.
LEMMA LinkedStays ==
  ASSUME Linked, UNCHANGED <<log, previous>>, latest' = latest \/ latest' = None
  PROVE  Linked'
<1>1. CASE latest' = latest
  BY <1>1 DEF Linked, Sound, Rising, Readable, Whole, EntryIn
<1>2. CASE latest' = None
  BY <1>2 DEF Linked, Sound, Rising, Readable, Whole, EntryIn
<1> QED
  BY <1>1, <1>2

\* Every step keeps it linked.
LEMMA LinkedStep ==
  ASSUME Linked, [TornNext]_tornVars
  PROVE  Linked'
<1>1. CASE AppendEvent
  <2>1. Builds /\ latest' = Len(previous')
        /\ log' = Written(log, Len(previous'), TRUE, TRUE)
    BY <1>1 DEF AppendEvent
  <2>2. Writes(log, Len(previous'), log')
    BY <2>1 DEF Writes
  <2> QED
    BY <2>1, <2>2, LinkedBuilds
<1>2. CASE AppendCutShort
  <2>1. Builds /\ log' \in CutShort(log, Len(previous'))
        /\ latest' = IF log' = log THEN latest ELSE None
    BY <1>2 DEF AppendCutShort
  <2>2. Writes(log, Len(previous'), log')
    BY <2>1, CutShortWrites
  <2>3. latest' = None \/ (log' = log /\ latest' = latest)
    BY <2>1
  <2> QED
    BY <2>1, <2>2, <2>3, LinkedBuilds
<1>3. CASE AuthorRestarts
  <2>1. UNCHANGED <<log, previous>> /\ latest' = None
    BY <1>3 DEF AuthorRestarts
  <2> QED
    BY <2>1, LinkedStays
<1>4. CASE Pull \/ AcceptEntry \/ AcceptCutShort \/ PeerRestarts
           \/ UNCHANGED tornVars
  <2>1. UNCHANGED <<log, previous>> /\ latest' = latest
    BY <1>4 DEF Pull, AcceptEntry, AcceptCutShort, PeerRestarts,
                Accepted, tornVars
  <2> QED
    BY <2>1, LinkedStays
<1> QED
  BY <1>1, <1>2, <1>3, <1>4 DEF TornNext

\* A linked log has no fork.
LEMMA LinkedForks ==
  ASSUME Linked
  PROVE  NoForkInLog
<1> DEFINE R == Readable(log)
<1>1. previous \in Seq(Nat) /\ R \subseteq 1..Len(previous)
  BY DEF Linked
<1>2. \A k \in R : previous[k] \in Nat /\ k \in Nat /\ previous[k] < k
  BY <1>1 DEF Linked
<1>3. \A k \in R : \A m \in R : k < m => k <= previous[m]
  BY DEF Linked
<1> HIDE DEF R
<1>4. \A k \in R : \A m \in R : k < m => previous[k] # previous[m]
  BY <1>2, <1>3
<1>5. \A k, m \in R : previous[k] = previous[m] => k = m
  BY <1>2, <1>4
<1> QED
  BY <1>5 DEF NoForkInLog, R

\* No two entries that can be read follow the same one, however many writes
\* of the log were cut short and however often its author was restarted
\* (signed_log.py append_event, latest_hash).
THEOREM OneEntryAfterAnother == TornSpec => []NoForkInLog
<1> QED
  BY LinkedInit, LinkedStep, LinkedForks, PTL DEF TornSpec
---------------------------------------------------------------------------
\* What is lost: entries of which K tells and which cannot be read.

Lost(K, f) == K \ Readable(f)
Open(f) == IF f.ended = TRUE THEN 0 ELSE 1

\* A set counts no more than one it is part of.
LEMMA LosesNone ==
  ASSUME NEW A, IsFiniteSet(A), NEW B, B \subseteq A
  PROVE  IsFiniteSet(B) /\ Cardinality(B) <= Cardinality(A) /\ Cardinality(B) \in Nat
BY FS_Subset, FS_CardinalityType

\* One more element counts one at most.
LEMMA LosesOne ==
  ASSUME NEW A, IsFiniteSet(A), NEW a, NEW B, B \subseteq A \cup {a}
  PROVE  IsFiniteSet(B) /\ Cardinality(B) <= Cardinality(A) + 1 /\ Cardinality(B) \in Nat
<1>1. IsFiniteSet(A \cup {a}) /\ Cardinality(A) \in Nat
  BY FS_AddElement, FS_CardinalityType
<1>2. Cardinality(A \cup {a}) <= Cardinality(A) + 1
  BY <1>1, FS_AddElement
<1>3. IsFiniteSet(B) /\ Cardinality(B) <= Cardinality(A \cup {a}) /\ Cardinality(B) \in Nat
  BY <1>1, LosesNone
<1>4. Cardinality(A \cup {a}) \in Nat
  BY <1>1, FS_CardinalityType
<1> QED
  BY <1>1, <1>2, <1>3, <1>4

\* Two more count two at most.
LEMMA LosesTwo ==
  ASSUME NEW A, IsFiniteSet(A), NEW a, NEW b, NEW B, B \subseteq A \cup {a, b}
  PROVE  IsFiniteSet(B) /\ Cardinality(B) <= Cardinality(A) + 2 /\ Cardinality(B) \in Nat
<1> DEFINE C == A \cup {a}
<1>1. IsFiniteSet(C) /\ Cardinality(C) <= Cardinality(A) + 1 /\ Cardinality(C) \in Nat
  BY LosesOne
<1>2. B \subseteq C \cup {b} /\ Cardinality(A) \in Nat
  BY FS_CardinalityType
<1> HIDE DEF C
<1>3. IsFiniteSet(B) /\ Cardinality(B) <= Cardinality(C) + 1 /\ Cardinality(B) \in Nat
  BY <1>1, <1>2, LosesOne
<1> QED
  BY <1>1, <1>2, <1>3

\* The bill of a file: nothing more is lost by a write to an ended file, the
\* entry of the open line by one that goes on in it, which is open no longer.
LEMMA LostAfter ==
  ASSUME NEW f, Sound(f), NEW K, NEW k, NEW g, Writes(f, k, g)
  PROVE  /\ f.ended = TRUE => Lost(K, g) \subseteq Lost(K, f)
         /\ f.ended = FALSE => Lost(K, g) \subseteq Lost(K, f) \cup {LastEntry(f)}
<1>1. CASE g = f
  BY <1>1 DEF Lost
<1>2. ASSUME NEW whole \in BOOLEAN, NEW ended \in BOOLEAN,
             g = Written(f, k, whole, ended)
      PROVE  /\ f.ended = TRUE => Lost(K, g) \subseteq Lost(K, f)
             /\ f.ended = FALSE => Lost(K, g) \subseteq Lost(K, f) \cup {LastEntry(f)}
  <2>1. CASE f.ended = TRUE
    <3>1. Gains(f, k, g)
      BY <1>2, <2>1, ReadAfter
    <3> QED
      BY <2>1, <3>1 DEF Gains, Lost
  <2>2. CASE f.ended = FALSE
    <3>1. Loses(f, g)
      BY <1>2, <2>2, ReadAfter
    <3> QED
      BY <2>2, <3>1 DEF Loses, Lost
  <2> QED
    BY <2>1, <2>2 DEF Sound
<1> QED
  BY <1>1, <1>2 DEF Writes

\* The entry at the end is never behind: it stays, or is the one written.
LEMMA LastAfter ==
  ASSUME NEW f, Sound(f), NEW k, NEW g, Writes(f, k, g), g.ended = FALSE
  PROVE  LastEntry(g) = k \/ (f.ended = FALSE /\ LastEntry(g) = LastEntry(f))
<1>1. CASE g = f
  BY <1>1
<1>2. ASSUME NEW whole \in BOOLEAN, NEW ended \in BOOLEAN,
             g = Written(f, k, whole, ended)
      PROVE  LastEntry(g) = k \/ (f.ended = FALSE /\ LastEntry(g) = LastEntry(f))
  <2>1. CASE f.ended = TRUE
    <3>1. Gains(f, k, g)
      BY <1>2, <2>1, ReadAfter
    <3> QED
      BY <3>1 DEF Gains
  <2>2. CASE f.ended = FALSE
    <3>1. Loses(f, g)
      BY <1>2, <2>2, ReadAfter
    <3> QED
      BY <2>2, <3>1 DEF Loses
  <2> QED
    BY <2>1, <2>2 DEF Sound
<1> QED
  BY <1>1, <1>2 DEF Writes

\* Each fault pays for one entry, lost already or in a line left open.
AuthorPays ==
  /\ faults \in Nat /\ returned \subseteq 1..Len(previous)
  /\ log.ended = FALSE => LastEntry(log) \notin returned
  /\ IsFiniteSet(Lost(returned, log))
  /\ Cardinality(Lost(returned, log)) + Open(log) <= faults

\* An append that returns closes an open line and loses its entry to it.
LEMMA AuthorAppends ==
  ASSUME Linked, AuthorPays, AppendEvent
  PROVE  AuthorPays'
<1> DEFINE n == Len(previous) + 1
           L == Lost(returned, log)
           M == Lost(returned', log')
<1>1. previous \in Seq(Nat) /\ Sound(log) /\ Len(previous) \in Nat
  BY DEF Linked
<1>2. /\ previous' = Append(previous, latest_hash) /\ faults' = faults
      /\ returned' = returned \cup {Len(previous')}
  BY DEF AppendEvent, Builds
<1>3. latest_hash \in Nat
  BY <1>1, HeadIsLast
<1>4. Len(previous') = n
  BY <1>1, <1>2, <1>3, AppendProperties
<1>5. returned' = returned \cup {n}
  BY <1>2, <1>4
<1>13. PICK whole \in BOOLEAN, ended \in BOOLEAN :
         whole = TRUE /\ ended = TRUE /\ log' = Written(log, n, whole, ended)
  <2>1. log' = Written(log, Len(previous'), TRUE, TRUE)
    BY DEF AppendEvent
  <2>2. log' = Written(log, n, TRUE, TRUE)
    BY <1>4, <2>1
  <2> HIDE DEF n
  <2> QED
    BY <2>2
<1>6. IsFiniteSet(L) /\ Cardinality(L) \in Nat /\ faults \in Nat
      /\ Cardinality(L) + Open(log) <= faults
  BY FS_CardinalityType DEF AuthorPays
<1>14. log' = Written(log, n, whole, ended)
  BY <1>13
<1>7. log'.ended = TRUE
  <2>1. log'.ended = ended
    <3> HIDE DEF n
    <3> QED
      BY <1>1, <1>14, ReadAfter
  <2> QED
    BY <1>13, <2>1
<1>8. IsFiniteSet(M) /\ Cardinality(M) <= faults
  <2>1. CASE log.ended = TRUE
    <3>1. Gains(log, n, log')
      <4> HIDE DEF n
      <4> QED
        BY <1>1, <1>14, <2>1, ReadAfter
    <3>4. n \in Readable(log')
      BY <1>1, <1>13, <1>14, <2>1, ReadAfter
    <3>2. M \subseteq L
      BY <1>5, <3>1, <3>4 DEF Gains, Lost
    <3>3. Open(log) = 0
      BY <2>1 DEF Open
    <3> HIDE DEF L, M
    <3> QED
      BY <1>6, <3>2, <3>3, LosesNone
  <2>2. CASE log.ended = FALSE
    <3>1. Loses(log, log')
      BY <1>1, <1>13, <2>2, ReadAfter
    <3>2. LastEntry(log) \notin returned
      BY <2>2 DEF AuthorPays
    <3>3. M \subseteq L \cup {n}
      BY <1>5, <3>1, <3>2 DEF Loses, Lost
    <3>4. Open(log) = 1
      BY <2>2 DEF Open
    <3> HIDE DEF L, M, n
    <3>5. IsFiniteSet(M) /\ Cardinality(M) <= Cardinality(L) + 1 /\ Cardinality(M) \in Nat
      BY <1>6, <3>3, LosesOne
    <3> QED
      BY <1>6, <3>4, <3>5
  <2> QED
    BY <1>1, <2>1, <2>2 DEF Sound
<1>9. Open(log') = 0
  BY <1>7 DEF Open
<1>10. Cardinality(M) \in Nat
  BY <1>8, FS_CardinalityType
<1>11. Cardinality(M) + Open(log') <= faults'
  <2> HIDE DEF M
  <2> QED
    BY <1>2, <1>6, <1>8, <1>9, <1>10
<1>12. returned' \subseteq 1..Len(previous')
  <2>1. returned \subseteq 1..Len(previous)
    BY DEF AuthorPays
  <2>2. returned' \subseteq 1..Len(previous')
    <3>1. \A k \in returned' : k \in 1..Len(previous) \/ k = n
      BY <1>5, <2>1
    <3>2. \A k : k \in 1..Len(previous) \/ k = n => k \in 1..n
      BY <1>1
    <3> HIDE DEF n
    <3> QED
      BY <1>4, <3>1, <3>2
  <2> QED
    BY <2>2
<1> QED
  BY <1>2, <1>6, <1>7, <1>8, <1>11, <1>12 DEF AuthorPays

\* One that raises was never promised, and pays for the line it leaves open.
LEMMA AuthorIsCut ==
  ASSUME Linked, AuthorPays, AppendCutShort
  PROVE  AuthorPays'
<1> DEFINE n == Len(previous) + 1
           L == Lost(returned, log)
           M == Lost(returned', log')
<1>1. previous \in Seq(Nat) /\ Sound(log) /\ Len(previous) \in Nat
  BY DEF Linked
<1>2. /\ previous' = Append(previous, latest_hash) /\ faults' = faults + 1
      /\ log' \in CutShort(log, Len(previous')) /\ returned' = returned
  BY DEF AppendCutShort, Builds, Fault
<1>3. latest_hash \in Nat
  BY <1>1, HeadIsLast
<1>4. Len(previous') = n
  BY <1>1, <1>2, <1>3, AppendProperties
<1>5. Writes(log, n, log')
  BY <1>2, <1>4, CutShortWrites
<1>6. IsFiniteSet(L) /\ Cardinality(L) \in Nat /\ faults \in Nat
      /\ Cardinality(L) + Open(log) <= faults
  BY FS_CardinalityType DEF AuthorPays
<1>7. M \subseteq L
  <2>1. CASE log.ended = TRUE
    BY <1>1, <1>2, <1>5, <2>1, LostAfter
  <2>2. CASE log.ended = FALSE
    <3>1. LastEntry(log) \notin returned
      BY <2>2 DEF AuthorPays
    <3>2. M \subseteq L \cup {LastEntry(log)}
      BY <1>1, <1>2, <1>5, <2>2, LostAfter
    <3> QED
      BY <1>2, <3>1, <3>2 DEF Lost
  <2> QED
    BY <1>1, <2>1, <2>2 DEF Sound
<1>8. IsFiniteSet(M) /\ Cardinality(M) <= Cardinality(L) /\ Cardinality(M) \in Nat
  <2> HIDE DEF L, M
  <2> QED
    BY <1>6, <1>7, LosesNone
<1>9. Open(log) \in {0, 1} /\ Open(log') \in {0, 1}
  BY DEF Open
<1>10. faults' \in Nat /\ Cardinality(M) + Open(log') <= faults'
  <2> HIDE DEF L, M
  <2> QED
    BY <1>2, <1>6, <1>8, <1>9
<1>11. returned' \subseteq 1..Len(previous') /\ n \notin returned
  BY <1>1, <1>2, <1>4 DEF AuthorPays
<1>12. log'.ended = FALSE => LastEntry(log') \notin returned'
  <2>1. SUFFICES ASSUME log'.ended = FALSE
                 PROVE  LastEntry(log') \notin returned
    BY <1>2
  <2>2. LastEntry(log') = n \/ (log.ended = FALSE /\ LastEntry(log') = LastEntry(log))
    BY <1>1, <1>5, <2>1, LastAfter
  <2> QED
    BY <1>11, <2>2 DEF AuthorPays
<1> QED
  BY <1>8, <1>10, <1>11, <1>12 DEF AuthorPays

\* The steps of the peer cost the author nothing.
LEMMA AuthorStays ==
  ASSUME AuthorPays, UNCHANGED <<log, previous, returned>>,
         faults' = faults \/ faults' = faults + 1
  PROVE  AuthorPays'
<1>1. faults \in Nat /\ faults' \in Nat /\ faults <= faults'
  BY DEF AuthorPays
<1>2. Lost(returned, log)' = Lost(returned, log) /\ Open(log)' = Open(log)
      /\ LastEntry(log)' = LastEntry(log)
  BY DEF Lost, Open, LastEntry, Readable, Whole, EntryIn, Size
<1>3. Cardinality(Lost(returned, log)) \in Nat /\ Open(log) \in Nat
  BY FS_CardinalityType DEF AuthorPays, Open
<1> QED
  BY <1>1, <1>2, <1>3 DEF AuthorPays

\* Every step is paid for by the author's faults.
LEMMA AuthorStep ==
  ASSUME Linked, AuthorPays, [TornNext]_tornVars
  PROVE  AuthorPays'
<1>1. CASE AppendEvent
  BY <1>1, AuthorAppends
<1>2. CASE AppendCutShort
  BY <1>2, AuthorIsCut
<1>3. CASE AuthorRestarts \/ Pull \/ AcceptEntry \/ AcceptCutShort
           \/ PeerRestarts \/ UNCHANGED tornVars
  <2>1. UNCHANGED <<log, previous, returned>> /\ (faults' = faults \/ faults' = faults + 1)
    BY <1>3 DEF AuthorRestarts, Pull, AcceptEntry, AcceptCutShort,
                PeerRestarts, Accepted, Fault, tornVars
  <2> QED
    BY <2>1, AuthorStays
<1> QED
  BY <1>1, <1>2, <1>3 DEF TornNext
---------------------------------------------------------------------------
\* Each fault pays for two entries of the peer: the one whose write was cut
\* short, which a scan may have counted, and the next one in its line.
PeerPays ==
  /\ faults \in Nat /\ Sound(stored)
  /\ IsFiniteSet(Lost(Known, stored))
  /\ Cardinality(Lost(Known, stored)) + 2 * Open(stored) <= 2 * faults

\* The index after a step is the file's, or what the object kept.
LEMMA KnownIs ==
  ASSUME NEW K, seen' = K
  PROVE  Known' = K \/ Known' = Readable(stored')
BY DEF Known

\* What an index loses is lost of what it knew.
LEMMA LostFewer ==
  ASSUME NEW K, seen' = K
  PROVE  Lost(Known', stored') \subseteq Lost(K, stored')
BY KnownIs DEF Lost

\* An entry accepted into an open line is lost with it.
LEMMA PeerAccepts ==
  ASSUME PeerPays, AcceptEntry
  PROVE  PeerPays'
<1> DEFINE e == Head(batch)
           K == Known
           L == Lost(K, stored)
           M == Lost(Known', stored')
<1>1. /\ seen' = K \cup {e} /\ faults' = faults
      /\ e \in K => stored' = stored
  BY DEF AcceptEntry, Accepted
<1>2. IsFiniteSet(L) /\ Cardinality(L) \in Nat /\ faults \in Nat /\ Sound(stored)
      /\ Cardinality(L) + 2 * Open(stored) <= 2 * faults
  BY FS_CardinalityType DEF PeerPays
<1>3. M \subseteq Lost(K \cup {e}, stored')
  <2> HIDE DEF e, K
  <2> QED
    BY <1>1, LostFewer
<1>4. CASE e \in K
  <2>1. stored' = stored /\ K \cup {e} = K
    BY <1>1, <1>4
  <2>2. M \subseteq L /\ Sound(stored') /\ Open(stored') = Open(stored)
    <3>1. Lost(K \cup {e}, stored') = Lost(K, stored)
      BY <2>1
    <3> QED
      BY <1>2, <1>3, <2>1, <3>1
  <2>3. IsFiniteSet(M) /\ Cardinality(M) <= Cardinality(L) /\ Cardinality(M) \in Nat
    <3> HIDE DEF L, M
    <3> QED
      BY <1>2, <2>2, LosesNone
  <2>4. Open(stored) \in Nat
    BY DEF Open
  <2>5. faults' \in Nat /\ Cardinality(M) + 2 * Open(stored') <= 2 * faults'
    <3> HIDE DEF L, M
    <3> QED
      BY <1>1, <1>2, <2>2, <2>3, <2>4
  <2> QED
    BY <2>2, <2>3, <2>5 DEF PeerPays
<1>5. CASE e \notin K
  <2>1. PICK whole \in BOOLEAN, ended \in BOOLEAN :
          whole = TRUE /\ ended = TRUE /\ stored' = Written(stored, e, whole, ended)
    <3>1. stored' = Written(stored, e, TRUE, TRUE)
      BY <1>5 DEF AcceptEntry
    <3> HIDE DEF e
    <3> QED
      BY <3>1
  <2>2. stored' = Written(stored, e, whole, ended)
    BY <2>1
  <2> HIDE DEF e
  <2>3. Sound(stored') /\ stored'.ended = ended
    BY <1>2, <2>2, ReadAfter
  <2>4. stored'.ended = TRUE
    BY <2>1, <2>3
  <2>5. Open(stored') = 0
    BY <2>4 DEF Open
  <2>6. IsFiniteSet(M) /\ Cardinality(M) \in Nat /\ Cardinality(M) <= 2 * faults
    <3>1. CASE stored.ended = TRUE
      <4>1. Gains(stored, e, stored')
        BY <1>2, <2>2, <3>1, ReadAfter
      <4>2. e \in Readable(stored')
        BY <1>2, <2>1, <2>2, <3>1, ReadAfter
      <4>3. M \subseteq L
        <5> HIDE DEF K
        <5> QED
          BY <1>3, <4>1, <4>2 DEF Gains, Lost
      <4>4. Open(stored) = 0
        BY <3>1 DEF Open
      <4> HIDE DEF L, M
      <4>5. IsFiniteSet(M) /\ Cardinality(M) <= Cardinality(L) /\ Cardinality(M) \in Nat
        BY <1>2, <4>3, LosesNone
      <4> QED
        BY <1>2, <4>4, <4>5
    <3>2. CASE stored.ended = FALSE
      <4>1. Loses(stored, stored')
        BY <1>2, <2>2, <3>2, ReadAfter
      <4> DEFINE last == LastEntry(stored)
      <4>2. M \subseteq L \cup {e, last}
        <5> HIDE DEF K
        <5> QED
          BY <1>3, <4>1 DEF Loses, Lost
      <4>3. Open(stored) = 1
        BY <3>2 DEF Open
      <4> HIDE DEF L, M, last
      <4>4. IsFiniteSet(M) /\ Cardinality(M) <= Cardinality(L) + 2 /\ Cardinality(M) \in Nat
        BY <1>2, <4>2, LosesTwo
      <4> QED
        BY <1>2, <4>3, <4>4
    <3> QED
      BY <1>2, <3>1, <3>2 DEF Sound
  <2>7. faults' \in Nat /\ Cardinality(M) + 2 * Open(stored') <= 2 * faults'
    <3> HIDE DEF M
    <3> QED
      BY <1>1, <1>2, <2>5, <2>6
  <2> QED
    BY <2>3, <2>6, <2>7 DEF PeerPays
<1> QED
  BY <1>4, <1>5

\* A write of the peer that raises pays for two.
LEMMA PeerIsCut ==
  ASSUME PeerPays, AcceptCutShort
  PROVE  PeerPays'
<1> DEFINE e == Head(batch)
           K == Known
           L == Lost(K, stored)
           M == Lost(Known', stored')
<1>1. seen' = K /\ faults' = faults + 1 /\ stored' \in CutShort(stored, e)
  BY DEF AcceptCutShort, Fault
<1>2. IsFiniteSet(L) /\ Cardinality(L) \in Nat /\ faults \in Nat /\ Sound(stored)
      /\ Cardinality(L) + 2 * Open(stored) <= 2 * faults
  BY FS_CardinalityType DEF PeerPays
<1> DEFINE last == LastEntry(stored)
<1> HIDE DEF e, K
<1>3. M \subseteq Lost(K, stored')
  BY <1>1, LostFewer
<1>4. Writes(stored, e, stored')
  BY <1>1, CutShortWrites
<1>5. Sound(stored')
  BY <1>2, <1>4, WritesRead
<1>6. Open(stored) \in {0, 1} /\ Open(stored') \in {0, 1}
  BY DEF Open
<1>7. IsFiniteSet(M) /\ Cardinality(M) \in Nat
      /\ Cardinality(M) <= Cardinality(L) + Open(stored)
  <2>1. CASE stored.ended = TRUE
    <3>1. M \subseteq L
      BY <1>2, <1>3, <1>4, <2>1, LostAfter
    <3>2. Open(stored) = 0
      BY <2>1 DEF Open
    <3> HIDE DEF L, M
    <3>3. IsFiniteSet(M) /\ Cardinality(M) <= Cardinality(L) /\ Cardinality(M) \in Nat
      BY <1>2, <3>1, LosesNone
    <3> QED
      BY <1>2, <3>2, <3>3
  <2>2. CASE stored.ended = FALSE
    <3>1. M \subseteq L \cup {last}
      BY <1>2, <1>3, <1>4, <2>2, LostAfter
    <3>2. Open(stored) = 1
      BY <2>2 DEF Open
    <3> HIDE DEF L, M, last
    <3>3. IsFiniteSet(M) /\ Cardinality(M) <= Cardinality(L) + 1 /\ Cardinality(M) \in Nat
      BY <1>2, <3>1, LosesOne
    <3> QED
      BY <1>2, <3>2, <3>3
  <2> QED
    BY <1>2, <2>1, <2>2 DEF Sound
<1>8. faults' \in Nat /\ Cardinality(M) + 2 * Open(stored') <= 2 * faults'
  <2> HIDE DEF L, M
  <2> QED
    BY <1>1, <1>2, <1>6, <1>7
<1> QED
  BY <1>5, <1>7, <1>8 DEF PeerPays

\* A restarted peer knows what its file tells.
LEMMA PeerScans ==
  ASSUME PeerPays, PeerRestarts
  PROVE  PeerPays'
<1> DEFINE M == Lost(Known', stored')
<1>1. seen' = None /\ stored' = stored /\ faults' = faults
  BY DEF PeerRestarts
<1>2. Known' = Readable(stored')
  BY <1>1 DEF Known
<1>3. M = {}
  BY <1>2 DEF Lost
<1>4. IsFiniteSet(M) /\ Cardinality(M) = 0
  <2> HIDE DEF M
  <2> QED
    BY <1>3, FS_EmptySet
<1>5. /\ faults \in Nat /\ Sound(stored)
      /\ Cardinality(Lost(Known, stored)) \in Nat /\ Open(stored) \in Nat
      /\ Cardinality(Lost(Known, stored)) + 2 * Open(stored) <= 2 * faults
  BY FS_CardinalityType DEF PeerPays, Open
<1>6. 2 * Open(stored) <= 2 * faults
  BY <1>5
<1>7. Cardinality(M) + 2 * Open(stored') <= 2 * faults'
  <2> HIDE DEF M
  <2> QED
    BY <1>1, <1>4, <1>5, <1>6
<1> QED
  BY <1>1, <1>4, <1>5, <1>7 DEF PeerPays

\* The steps of the author cost the peer nothing.
LEMMA PeerStays ==
  ASSUME PeerPays, UNCHANGED <<stored, seen>>, faults' = faults \/ faults' = faults + 1
  PROVE  PeerPays'
<1>1. faults \in Nat /\ faults' \in Nat /\ faults <= faults'
  BY DEF PeerPays
<1>2. Known' = Known /\ stored' = stored
  BY DEF Known
<1>3. Cardinality(Lost(Known, stored)) \in Nat /\ Open(stored) \in Nat
  BY FS_CardinalityType DEF PeerPays, Open
<1> QED
  BY <1>1, <1>2, <1>3 DEF PeerPays

\* Every step is paid for by the peer's faults.
LEMMA PeerStep ==
  ASSUME PeerPays, [TornNext]_tornVars
  PROVE  PeerPays'
<1>1. CASE AcceptEntry
  BY <1>1, PeerAccepts
<1>2. CASE AcceptCutShort
  BY <1>2, PeerIsCut
<1>3. CASE PeerRestarts
  BY <1>3, PeerScans
<1>4. CASE AppendEvent \/ AppendCutShort \/ AuthorRestarts \/ Pull
           \/ UNCHANGED tornVars
  <2>1. UNCHANGED <<stored, seen>> /\ (faults' = faults \/ faults' = faults + 1)
    BY <1>4 DEF AppendEvent, AppendCutShort, AuthorRestarts, Pull,
                Builds, Fault, tornVars
  <2> QED
    BY <2>1, PeerStays
<1> QED
  BY <1>1, <1>2, <1>3, <1>4 DEF TornNext

\* Nothing is lost at first, but a torn header is an open line.
LEMMA NothingOwed ==
  ASSUME TornInit
  PROVE  AuthorPays /\ PeerPays
<1>1. /\ faults \in Nat /\ Open(log) <= faults /\ Open(stored) = 0 /\ Open(log) \in Nat
  <2>1. stored.ended = TRUE
    BY FirstFile DEF TornInit
  <2>2. CASE log = NewFile /\ faults = 0
    BY <2>1, <2>2, FirstFile DEF Open
  <2>3. CASE log = TornHeader /\ faults = 1
    BY <2>1, <2>3, FirstTorn DEF Open
  <2> QED
    BY <2>2, <2>3 DEF TornInit
<1>2. returned = {} /\ seen = None /\ Sound(stored)
  BY FirstFile DEF TornInit
<1>3. Lost(returned, log) = {} /\ Lost(Known, stored) = {}
  BY <1>2 DEF Lost, Known
<1>4. IsFiniteSet({}) /\ Cardinality({}) = 0
  BY FS_EmptySet
<1> QED
  BY <1>1, <1>2, <1>3, <1>4 DEF AuthorPays, PeerPays

\* Bills paid are losses bounded.
LEMMA PaidInFull ==
  ASSUME AuthorPays, PeerPays
  PROVE  LossesBounded
<1>1. /\ Cardinality(Lost(returned, log)) \in Nat /\ Open(log) \in Nat /\ faults \in Nat
      /\ Cardinality(Lost(returned, log)) + Open(log) <= faults
  BY FS_CardinalityType DEF AuthorPays, Open
<1>2. /\ Cardinality(Lost(Known, stored)) \in Nat /\ Open(stored) \in Nat
      /\ Cardinality(Lost(Known, stored)) + 2 * Open(stored) <= 2 * faults
  BY FS_CardinalityType DEF PeerPays, Open
<1>3. Cardinality(Lost(returned, log)) <= faults
  BY <1>1
<1>4. Cardinality(Lost(Known, stored)) <= 2 * faults
  BY <1>1, <1>2
<1> QED
  BY <1>3, <1>4 DEF LossesBounded, Lost

\* Each write that is cut short costs the author at most one entry whose
\* append returned, and a peer at most two it takes for stored
\* (signed_log.py _persist, peer_log.py accept_entry).
THEOREM LossesPaidByFaults == TornSpec => []LossesBounded
<1> DEFINE I == Linked /\ AuthorPays /\ PeerPays
<1>1. TornInit => I
  BY LinkedInit, NothingOwed
<1>2. I /\ [TornNext]_tornVars => I'
  BY LinkedStep, AuthorStep, PeerStep
<1>3. I => LossesBounded
  BY PaidInFull
<1> QED
  BY <1>1, <1>2, <1>3, PTL DEF TornSpec
=============================================================================

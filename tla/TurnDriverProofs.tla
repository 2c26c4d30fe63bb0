-------------------------- MODULE TurnDriverProofs --------------------------
(***************************************************************************)
(* Proofs about the registry and the key pool under a watchdog, for any    *)
(* number of processes, overlays, keys, requests and threads.              *)
(*                                                                         *)
(* One started instance per overlay: the tool loop awaits one job at a     *)
(* time, and an awaited job is one for an overlay that is not registered.  *)
(* Nobody refused early: as long as a key was not benched since a request  *)
(* began to wait, what is left of its cool-down and the time the request   *)
(* has waited add up to at most one cool-down.                             *)
(***************************************************************************)
EXTENDS TurnDriver, WellFoundedInduction, TLAPS

---------------------------------------------------------------------------
\* The registry.

InstanceRecord == [id : Overlays, src : Replies, started : BOOLEAN]
Job ==
  [node : Clients, id : Overlays, at : {"lookup", "asking", "compiled"},
   src : Replies \cup {None}, awaited : BOOLEAN]

RegistryInv ==
  /\ live \in [Nodes -> Seq(InstanceRecord)]
  /\ registered \in [Nodes -> [Overlays -> Replies \cup {None}]]
  /\ cache \in [CacheDirs -> [Overlays -> Replies \cup {None}]]
  /\ \A n \in Nodes : \A i \in DOMAIN live[n] :
       live[n][i].started => live[n][i].src = registered[n][live[n][i].id]
  /\ \A n \in Nodes, id \in Overlays :
       registered[n][id] # None =>
         \E i \in DOMAIN live[n] : live[n][i].id = id /\ live[n][i].started
  /\ \A n \in Nodes : \A i, k \in DOMAIN live[n] :
       i < k /\ live[n][i].id = live[n][k].id => ~ live[n][i].started

JobsInv ==
  /\ jobs \subseteq Job
  /\ \A j \in jobs : j.at = "compiled" => j.src # None
  /\ \A j \in jobs : j.awaited => registered[j.node][j.id] = None
  /\ \A j, k \in jobs : j.awaited /\ k.awaited /\ j.node = k.node => j = k

\* An instance of an overlay that is not registered comes behind the others,
\* and is filed if it started.
LEMMA AppendKeeps ==
  ASSUME RegistryInv, NEW n \in Nodes, NEW new \in InstanceRecord, Added(n, new),
         registered[n][new.id] = None,
         registered' = IF new.started THEN [registered EXCEPT ![n][new.id] = new.src]
                       ELSE registered,
         cache' \in [CacheDirs -> [Overlays -> Replies \cup {None}]]
  PROVE  RegistryInv'
<1>1. live[n] \in Seq(InstanceRecord) /\ Len(live[n]) \in Nat
  BY DEF RegistryInv
<1>2. new.id \in Overlays /\ new.src \in Replies /\ new.started \in BOOLEAN
  BY DEF InstanceRecord
<1>3. /\ live' \in [Nodes -> Seq(InstanceRecord)]
      /\ \A p \in Nodes : p # n => live'[p] = live[p]
      /\ live'[n] = Append(live[n], new)
  <2>1. Append(live[n], new) \in Seq(InstanceRecord)
    BY <1>1
  <2> QED
    BY <2>1 DEF Added, RegistryInv
<1>4. /\ DOMAIN live'[n] = DOMAIN live[n] \cup {Len(live[n]) + 1}
      /\ \A i \in DOMAIN live[n] : live'[n][i] = live[n][i] /\ i <= Len(live[n]) /\ i \in Nat
      /\ live'[n][Len(live[n]) + 1] = new
      /\ Len(live[n]) + 1 \notin DOMAIN live[n]
  BY <1>1, <1>3
<1>5. /\ registered' \in [Nodes -> [Overlays -> Replies \cup {None}]]
      /\ \A p \in Nodes, x \in Overlays :
           registered'[p][x] = IF p = n /\ x = new.id /\ new.started THEN new.src
                               ELSE registered[p][x]
  <2>1. CASE new.started = TRUE
    BY <1>2, <2>1 DEF RegistryInv
  <2>2. CASE new.started = FALSE
    BY <2>2 DEF RegistryInv
  <2> QED
    BY <1>2, <2>1, <2>2
<1>6. \A p \in Nodes : \A i \in DOMAIN live[p] :
        /\ live[p][i].id \in Overlays
        /\ live[p][i].started => registered[p][live[p][i].id] # None
  <2> SUFFICES ASSUME NEW p \in Nodes, NEW i \in DOMAIN live[p]
               PROVE  /\ live[p][i].id \in Overlays
                      /\ live[p][i].started => registered[p][live[p][i].id] # None
    OBVIOUS
  <2>1. live[p] \in Seq(InstanceRecord)
    BY DEF RegistryInv
  <2>2. live[p][i] \in InstanceRecord
    BY <2>1
  <2>3. live[p][i].id \in Overlays /\ live[p][i].src \in Replies
    BY <2>2 DEF InstanceRecord
  <2> QED
    BY <2>3, RegistryAssumption DEF RegistryInv
<1>7. \A i \in DOMAIN live[n] : live[n][i].id = new.id => ~ live[n][i].started
  BY <1>6
<1>8. \A p \in Nodes : \A i \in DOMAIN live'[p] :
        live'[p][i].started => live'[p][i].src = registered'[p][live'[p][i].id]
  <2> SUFFICES ASSUME NEW p \in Nodes, NEW i \in DOMAIN live'[p], live'[p][i].started
               PROVE  live'[p][i].src = registered'[p][live'[p][i].id]
    OBVIOUS
  <2>1. CASE p = n /\ i = Len(live[n]) + 1
    BY <1>2, <1>4, <1>5, <2>1
  <2>2. CASE ~ (p = n /\ i = Len(live[n]) + 1)
    <3>1. i \in DOMAIN live[p] /\ live'[p][i] = live[p][i]
      BY <1>3, <1>4, <2>2
    <3>2. ~ (p = n /\ live[p][i].id = new.id) /\ live[p][i].id \in Overlays
      BY <1>6, <1>7, <3>1
    <3> QED
      BY <1>5, <3>1, <3>2 DEF RegistryInv
  <2> QED
    BY <2>1, <2>2
<1>9. \A p \in Nodes, x \in Overlays :
        registered'[p][x] # None =>
          \E i \in DOMAIN live'[p] : live'[p][i].id = x /\ live'[p][i].started
  <2> SUFFICES ASSUME NEW p \in Nodes, NEW x \in Overlays, registered'[p][x] # None
               PROVE  \E i \in DOMAIN live'[p] : live'[p][i].id = x /\ live'[p][i].started
    OBVIOUS
  <2>1. CASE p = n /\ x = new.id /\ new.started
    BY <1>4, <2>1
  <2>2. CASE ~ (p = n /\ x = new.id /\ new.started)
    <3>1. PICK i \in DOMAIN live[p] : live[p][i].id = x /\ live[p][i].started
      BY <1>5, <2>2 DEF RegistryInv
    <3>2. i \in DOMAIN live'[p] /\ live'[p][i] = live[p][i]
      BY <1>3, <1>4
    <3> QED
      BY <3>1, <3>2
  <2> QED
    BY <2>1, <2>2
<1>10. \A p \in Nodes : \A i, k \in DOMAIN live'[p] :
         i < k /\ live'[p][i].id = live'[p][k].id => ~ live'[p][i].started
  <2> SUFFICES ASSUME NEW p \in Nodes, NEW i \in DOMAIN live'[p],
                      NEW k \in DOMAIN live'[p], i < k,
                      live'[p][i].id = live'[p][k].id
               PROVE  ~ live'[p][i].started
    OBVIOUS
  <2>1. CASE p # n
    BY <1>3, <2>1 DEF RegistryInv
  <2>2. CASE p = n
    <3>1. i \in DOMAIN live[n] /\ live'[n][i] = live[n][i]
      BY <1>1, <1>4, <2>2
    <3>2. CASE k \in DOMAIN live[n]
      <4>1. live'[n][k] = live[n][k]
        BY <1>4, <3>2
      <4> QED
        BY <2>2, <3>1, <3>2, <4>1 DEF RegistryInv
    <3>3. CASE k = Len(live[n]) + 1
      BY <1>4, <1>7, <2>2, <3>1, <3>3
    <3> QED
      BY <1>4, <2>2, <3>2, <3>3
  <2> QED
    BY <2>1, <2>2
<1> QED
  BY <1>3, <1>5, <1>8, <1>9, <1>10 DEF RegistryInv

LEMMA RegisterKeeps ==
  ASSUME RegistryInv, NEW n \in Nodes, NEW id \in Overlays, NEW src \in Replies,
         registered[n][id] = None, Register(n, id, src),
         cache' \in [CacheDirs -> [Overlays -> Replies \cup {None}]]
  PROVE  RegistryInv'
<1>1. CASE Filed(n, id, src)
  <2>1. PICK new : new = Instance(id, src, TRUE)
    OBVIOUS
  <2>2. /\ new \in InstanceRecord
        /\ new.id = id /\ new.src = src /\ new.started = TRUE
    BY <2>1 DEF Instance, InstanceRecord
  <2>3. /\ Added(n, new) /\ registered[n][new.id] = None
        /\ registered' = IF new.started THEN [registered EXCEPT ![n][new.id] = new.src]
                         ELSE registered
    BY <1>1, <2>1, <2>2 DEF Filed
  <2> QED
    BY <2>2, <2>3, AppendKeeps
<1>2. CASE StartRaises(n, id, src)
  <2>1. PICK new : new = Instance(id, src, FALSE)
    OBVIOUS
  <2>2. /\ new \in InstanceRecord
        /\ new.id = id /\ new.src = src /\ new.started = FALSE
    BY <2>1 DEF Instance, InstanceRecord
  <2>3. /\ Added(n, new) /\ registered[n][new.id] = None
        /\ registered' = IF new.started THEN [registered EXCEPT ![n][new.id] = new.src]
                         ELSE registered
    BY <1>2, <2>1, <2>2 DEF StartRaises
  <2> QED
    BY <2>2, <2>3, AppendKeeps
<1>3. CASE UNCHANGED <<live, registered>>
  BY <1>3 DEF RegistryInv
<1> QED
  BY <1>1, <1>2, <1>3 DEF Register

LEMMA OthersUntouched ==
  ASSUME RegistryInv, NEW n, NEW id, NEW src, Register(n, id, src)
  PROVE  \A p \in Nodes : p # n => registered'[p] = registered[p]
<1>1. registered \in [Nodes -> [Overlays -> Replies \cup {None}]]
  BY DEF RegistryInv
<1>2. \/ registered' = [registered EXCEPT ![n][id] = src]
      \/ registered' = registered
  BY DEF Register, Filed, StartRaises
<1> QED
  BY <1>1, <1>2

LEMMA CacheTyped ==
  ASSUME RegistryInv, NEW d \in CacheDirs, NEW id \in Overlays, NEW src,
         FromCache(d, id, src) \/ FromModel(d, id, src)
  PROVE  /\ src \in Replies
         /\ cache' \in [CacheDirs -> [Overlays -> Replies \cup {None}]]
<1>1. /\ cache \in [CacheDirs -> [Overlays -> Replies \cup {None}]]
      /\ cache[d] \in [Overlays -> Replies \cup {None}]
      /\ cache[d][id] \in Replies \cup {None}
  BY DEF RegistryInv
<1>2. CASE FromCache(d, id, src)
  BY <1>1, <1>2 DEF FromCache
<1>3. CASE FromModel(d, id, src)
  <2>1. src \in Replies
    BY <1>3 DEF FromModel
  <2>2. [cache[d] EXCEPT ![id] = src] \in [Overlays -> Replies \cup {None}]
    BY <1>1, <2>1
  <2> QED
    BY <1>1, <1>3, <2>1, <2>2 DEF FromModel
<1> QED
  BY <1>2, <1>3

LEMMA RegistryStays ==
  ASSUME RegistryInv, UNCHANGED <<registered, live>>,
         cache' \in [CacheDirs -> [Overlays -> Replies \cup {None}]]
  PROVE  RegistryInv'
BY DEF RegistryInv

\* Only the processes that use aload have jobs.
LEMMA LoadKeeps ==
  ASSUME RegistryInv, JobsInv, NEW s \in Servers, NEW id \in Overlays, load(s, id)
  PROVE  RegistryInv' /\ JobsInv'
<1>1. s \in Nodes /\ s \notin Clients /\ DirOf[s] \in CacheDirs
  BY DriverAssumption, RegistryAssumption
<1>2. CASE UNCHANGED registryVars
  BY <1>2 DEF registryVars, RegistryInv, JobsInv
<1>3. ASSUME NEW src, registered[s][id] = None,
             compile_with_disk_cache(DirOf[s], id, src), Register(s, id, src),
             UNCHANGED jobs
      PROVE  RegistryInv' /\ JobsInv'
  <2>1. /\ src \in Replies
        /\ cache' \in [CacheDirs -> [Overlays -> Replies \cup {None}]]
    BY <1>1, <1>3, CacheTyped DEF compile_with_disk_cache
  <2>2. RegistryInv'
    BY <1>1, <1>3, <2>1, RegisterKeeps
  <2>3. \A j \in jobs : registered'[j.node] = registered[j.node]
    BY <1>1, <1>3, DriverAssumption, OthersUntouched DEF JobsInv, Job
  <2>4. JobsInv'
    BY <1>3, <2>3 DEF JobsInv
  <2> QED
    BY <2>2, <2>4
<1> QED
  BY <1>2, <1>3 DEF load

LEMMA AloadKeeps ==
  ASSUME RegistryInv, JobsInv, NEW a \in Clients, NEW id \in Overlays, aload(a, id)
  PROVE  RegistryInv' /\ JobsInv'
<1>1. CASE registered[a][id] # None
  BY <1>1 DEF aload, registryVars, RegistryInv, JobsInv
<1>2. CASE registered[a][id] = None
  <2> DEFINE new == [node |-> a, id |-> id, at |-> "lookup", src |-> None,
                     awaited |-> TRUE]
  <2>1. /\ \A j \in jobs : j.node # a \/ ~ j.awaited
        /\ jobs' = jobs \cup {new}
        /\ UNCHANGED <<cache, registered, live>>
    BY <1>2 DEF aload
  <2>2. new \in Job
    BY DEF Job
  <2>3. RegistryInv'
    BY <2>1 DEF RegistryInv
  <2>4. /\ new.node = a /\ new.id = id /\ new.at = "lookup" /\ new.awaited = TRUE
    OBVIOUS
  <2> HIDE DEF new
  <2>5. \A j \in jobs' : j \in jobs \/ j = new
    BY <2>1
  <2>6. \A j, k \in jobs' : j.awaited /\ k.awaited /\ j.node = k.node => j = k
    BY <2>1, <2>4, <2>5 DEF JobsInv
  <2>7. JobsInv'
    BY <1>2, <2>1, <2>2, <2>4, <2>5, <2>6 DEF JobsInv
  <2> QED
    BY <2>3, <2>7
<1> QED
  BY <1>1, <1>2

\* A job is replaced by one at another place, which is awaited only if it was.
LEMMA BecomesKeeps ==
  ASSUME JobsInv, NEW j \in jobs, NEW next \in Job, Becomes(j, next),
         UNCHANGED registered,
         next.node = j.node, next.id = j.id, next.awaited => j.awaited,
         next.at = "compiled" => next.src # None
  PROVE  JobsInv'
<1>1. jobs' = (jobs \ {j}) \cup {next}
  BY DEF Becomes
<1> QED
  BY <1>1 DEF JobsInv

LEMMA FewerJobs ==
  ASSUME JobsInv, jobs' \subseteq jobs, UNCHANGED registered
  PROVE  JobsInv'
BY DEF JobsInv

LEMMA CompileKeeps ==
  ASSUME RegistryInv, JobsInv, NEW j \in jobs,
         Lookup(j) \/ Answered(j) \/ Failed(j) \/ Finish(j)
  PROVE  RegistryInv' /\ JobsInv'
<1>1. /\ j \in Job /\ j.node \in Nodes /\ j.id \in Overlays
      /\ DirOf[j.node] \in CacheDirs
  BY DriverAssumption, RegistryAssumption DEF JobsInv, Job
<1>2. CASE Lookup(j)
  <2> DEFINE src == cache[DirOf[j.node]][j.id]
  <2>1. RegistryInv' /\ UNCHANGED registered
    BY <1>2 DEF Lookup, RegistryInv
  <2>2. src \in Replies \cup {None}
    BY <1>1 DEF RegistryInv
  <2>3. CASE Becomes(j, [j EXCEPT !.at = "asking"])
    <3>1. [j EXCEPT !.at = "asking"] \in Job
      BY <1>1 DEF Job
    <3> QED
      BY <1>1, <2>1, <2>3, <3>1, BecomesKeeps DEF Job
  <2>4. CASE src # None /\ Becomes(j, [j EXCEPT !.at = "compiled", !.src = src])
    <3> DEFINE next == [j EXCEPT !.at = "compiled", !.src = src]
    <3> HIDE DEF src
    <3>1. /\ next \in Job /\ next.node = j.node /\ next.id = j.id
          /\ next.awaited = j.awaited /\ next.src # None
      BY <1>1, <2>2, <2>4 DEF Job
    <3> QED
      BY <2>1, <2>4, <3>1, BecomesKeeps
  <2>5. CASE jobs' = jobs \ {j}
    BY <2>1, <2>5, FewerJobs
  <2> QED
    BY <1>2, <2>1, <2>3, <2>4, <2>5 DEF Lookup
<1>3. CASE Answered(j)
  <2>1. PICK src \in Replies :
          /\ FromModel(DirOf[j.node], j.id, src)
          /\ Becomes(j, [j EXCEPT !.at = "compiled", !.src = src])
    BY <1>3 DEF Answered
  <2>2. RegistryInv' /\ UNCHANGED registered
    BY <1>1, <1>3, <2>1, CacheTyped, RegistryStays DEF Answered
  <2> DEFINE next == [j EXCEPT !.at = "compiled", !.src = src]
  <2>3. /\ next \in Job /\ next.node = j.node /\ next.id = j.id
        /\ next.awaited = j.awaited /\ next.src # None
    BY <1>1, RegistryAssumption DEF Job
  <2> QED
    BY <2>1, <2>2, <2>3, BecomesKeeps
<1>4. CASE Failed(j)
  BY <1>4, FewerJobs, RegistryStays DEF Failed, RegistryInv
<1>5. CASE Finish(j) /\ ~ j.awaited
  BY <1>5, FewerJobs, RegistryStays DEF Finish, RegistryInv
<1>6. CASE Finish(j) /\ j.awaited
  <2>1. /\ jobs' = jobs \ {j} /\ Register(j.node, j.id, j.src) /\ UNCHANGED cache
        /\ registered[j.node][j.id] = None /\ j.src \in Replies
    BY <1>1, <1>6 DEF Finish, JobsInv, Job
  <2>2. RegistryInv'
    BY <1>1, <2>1, RegisterKeeps DEF RegistryInv
  <2>3. \A k \in jobs' : k.awaited => registered'[k.node] = registered[k.node]
    BY <1>1, <1>6, <2>1, DriverAssumption, OthersUntouched DEF JobsInv, Job
  <2>4. JobsInv'
    BY <2>1, <2>3 DEF JobsInv
  <2> QED
    BY <2>2, <2>4
<1> QED
  BY <1>2, <1>3, <1>4, <1>5, <1>6

LEMMA CancelKeeps ==
  ASSUME RegistryInv, JobsInv, NEW j \in jobs, Cancel(j)
  PROVE  RegistryInv' /\ JobsInv'
<1> DEFINE next == [j EXCEPT !.awaited = FALSE]
<1>1. /\ next \in Job /\ next.node = j.node /\ next.id = j.id
      /\ next.awaited = FALSE /\ next.at = j.at /\ next.src = j.src
  BY DEF JobsInv, Job
<1>2. Becomes(j, next) /\ UNCHANGED <<cache, registered, live>>
  BY DEF Cancel
<1>3. RegistryInv'
  BY <1>2 DEF RegistryInv
<1> QED
  BY <1>1, <1>2, <1>3, BecomesKeeps DEF JobsInv

---------------------------------------------------------------------------
\* The key pool.

LEMMA ModRange ==
  ASSUME NEW n \in Nat, NEW t \in Nat \ {0}
  PROVE  n % t \in 0 .. t - 1
OBVIOUS

LEMMA ModSmall ==
  ASSUME NEW t \in Nat \ {0}, NEW k \in 0 .. t - 1
  PROVE  k % t = k /\ (k + t) % t = k
OBVIOUS

LEMMA AllKeysReached ==
  ASSUME cursor \in Keys, NEW k \in Keys
  PROVE  \E i \in Keys : (cursor + i) % Total = k
<1>1. CASE k >= cursor
  <2>1. k - cursor \in Keys /\ cursor + (k - cursor) = k
    BY <1>1, PoolAssumption DEF Keys
  <2>2. k % Total = k
    BY ModSmall, PoolAssumption DEF Keys
  <2> QED
    BY <2>1, <2>2
<1>2. CASE k < cursor
  <2>1. k - cursor + Total \in Keys /\ cursor + (k - cursor + Total) = k + Total
    BY <1>2, PoolAssumption DEF Keys
  <2>2. (k + Total) % Total = k
    BY ModSmall, PoolAssumption DEF Keys
  <2> QED
    BY <2>1, <2>2
<1> QED
  BY <1>1, <1>2, PoolAssumption DEF Keys

RequestRecord ==
  [at : {"idle", "acquire", "upstream", "asleep", "answered"},
   client : Clients \cup {Nobody}, key : Keys, tried : Nat, waited : Nat,
   timer : Nat, marked : SUBSET Keys,
   status : {"none", "ok", "rejected", "throttled", "unavailable"}]

PoolTypes ==
  /\ cursor \in Keys
  /\ benched \in [Keys -> Nat]
  /\ \A k \in Keys : benched[k] <= Cooldown
  /\ requests \in [Requests -> RequestRecord]

\* What is left of a cool-down that began before the wait fits into it.
WaitCovers(r, cooldowns) ==
  r.waited > 0 /\ r.at \in {"acquire", "upstream", "asleep"} =>
    \A k \in Keys \ r.marked :
      cooldowns[k] > 0 => cooldowns[k] + r.waited - r.timer <= Cooldown

RequestSound(r) ==
  /\ r.at # "asleep" => r.timer = 0
  /\ r.status = "unavailable" => r.at = "answered" /\ r.marked = Keys
  /\ r.at # "answered" => r.status = "none"

PoolInv ==
  /\ PoolTypes
  /\ \A q \in Requests :
       RequestSound(requests[q]) /\ WaitCovers(requests[q], benched)

LEMMA FreshRequests ==
  /\ 0 \in Keys
  /\ \A client \in Clients \cup {Nobody} :
       /\ Request(client) \in RequestRecord
       /\ RequestSound(Request(client))
       /\ \A c : WaitCovers(Request(client), c)
  /\ Idle \in RequestRecord /\ RequestSound(Idle) /\ \A c : WaitCovers(Idle, c)
<1>1. 0 \in Keys
  BY PoolAssumption DEF Keys
<1> QED
  BY <1>1 DEF Request, Idle, RequestRecord, RequestSound, WaitCovers

\* One request changes, and no key is benched.
LEMMA OneRequestKeeps ==
  ASSUME PoolInv, NEW q \in Requests, NEW r \in RequestRecord,
         requests' = [requests EXCEPT ![q] = r],
         RequestSound(r), WaitCovers(r, benched),
         cursor' \in Keys, UNCHANGED benched
  PROVE  PoolInv'
<1>1. requests' \in [Requests -> RequestRecord]
  BY DEF PoolInv, PoolTypes
<1>2. \A p \in Requests : requests'[p] = IF p = q THEN r ELSE requests[p]
  BY DEF PoolInv, PoolTypes
<1>3. \A p \in Requests : RequestSound(requests'[p]) /\ WaitCovers(requests'[p], benched)
  BY <1>2 DEF PoolInv
<1>4. \A p \in Requests :
        (RequestSound(requests[p]) /\ WaitCovers(requests[p], benched))'
  BY <1>3 DEF RequestSound, WaitCovers
<1> QED
  BY <1>1, <1>4 DEF PoolInv, PoolTypes

LEMMA ArriveKeeps ==
  ASSUME PoolInv, NEW q \in Requests, NEW client \in Clients \cup {Nobody},
         Arrive(q, client)
  PROVE  PoolInv'
<1> DEFINE r == Request(client)
<1>1. r \in RequestRecord /\ RequestSound(r) /\ WaitCovers(r, benched)
  BY FreshRequests
<1>2. requests' = [requests EXCEPT ![q] = r] /\ UNCHANGED <<cursor, benched>>
  BY DEF Arrive
<1> HIDE DEF r
<1>3. cursor' \in Keys
  BY <1>2 DEF PoolInv, PoolTypes
<1> QED
  BY <1>1, <1>2, <1>3, OneRequestKeeps

LEMMA IdleKeeps ==
  ASSUME PoolInv, NEW q \in Requests,
         requests' = [requests EXCEPT ![q] = Idle], UNCHANGED <<cursor, benched>>
  PROVE  PoolInv'
BY FreshRequests, OneRequestKeeps DEF PoolInv, PoolTypes

LEMMA UnattendedKeeps ==
  ASSUME PoolInv, NEW q \in Requests, Unattended(q), UNCHANGED <<cursor, benched>>
  PROVE  PoolInv'
<1> DEFINE r == [requests[q] EXCEPT !.client = Nobody]
<1>1. requests[q] \in RequestRecord /\ RequestSound(requests[q])
      /\ WaitCovers(requests[q], benched)
  BY DEF PoolInv, PoolTypes
<1>2. r \in RequestRecord /\ RequestSound(r) /\ WaitCovers(r, benched)
  BY <1>1 DEF RequestRecord, RequestSound, WaitCovers
<1>3. requests' = [requests EXCEPT ![q] = r]
  BY DEF Unattended
<1> HIDE DEF r
<1> QED
  BY <1>2, <1>3, OneRequestKeeps DEF PoolInv, PoolTypes

LEMMA NearestIsFree ==
  ASSUME FreeSteps # {}
  PROVE  Nearest \in FreeSteps /\ FreeSteps \subseteq Nat
<1>1. FreeSteps \subseteq Nat
  BY PoolAssumption DEF FreeSteps, Keys
<1>2. \E i \in FreeSteps : \A k \in FreeSteps : i <= k
  <2>1. PICK i \in FreeSteps : \A k \in FreeSteps : ~ (<<k, i>> \in OpToRel(<, Nat))
    BY <1>1, NatLessThanWellFounded, WFMin
  <2>2. \A k \in Nat, l \in Nat : k < l => <<k, l>> \in OpToRel(<, Nat)
    BY DEF OpToRel
  <2>3. \A k \in FreeSteps : ~ (k < i)
    BY <1>1, <2>1, <2>2
  <2>4. \A k \in FreeSteps : i <= k
    <3> SUFFICES ASSUME NEW k \in FreeSteps
                 PROVE  i <= k
      OBVIOUS
    <3>1. i \in Nat /\ k \in Nat /\ ~ (k < i)
      BY <1>1, <2>3
    <3> QED
      BY <3>1
  <2> QED
    BY <2>4
<1> QED
  BY <1>1, <1>2 DEF Nearest

LEMMA AcquireKeeps ==
  ASSUME PoolInv, NEW q \in Requests, AcquireKey(q)
  PROVE  PoolInv'
<1> DEFINE idx == (cursor + Nearest) % Total
           tried == IF requests[q].tried < Total THEN requests[q].tried + 1
                    ELSE requests[q].tried
           r == [requests[q] EXCEPT !.at = "upstream", !.key = idx, !.tried = tried]
<1>1. requests[q] \in RequestRecord /\ RequestSound(requests[q])
      /\ WaitCovers(requests[q], benched)
  BY DEF PoolInv, PoolTypes
<1>2. idx \in Keys /\ (idx + 1) % Total \in Keys
  <2>1. cursor \in Nat /\ Nearest \in Nat
    BY PoolAssumption, NearestIsFree DEF AcquireKey, PoolInv, PoolTypes, Keys
  <2>2. idx \in Keys
    BY <2>1, PoolAssumption, ModRange DEF Keys
  <2> HIDE DEF idx
  <2>3. idx + 1 \in Nat
    BY <2>2, PoolAssumption DEF Keys
  <2> QED
    BY <2>2, <2>3, PoolAssumption, ModRange DEF Keys
<1>3. tried \in Nat
  BY <1>1, PoolAssumption DEF RequestRecord
<1>4. requests[q].at = "acquire" /\ requests' = [requests EXCEPT ![q] = r]
      /\ cursor' = (idx + 1) % Total /\ UNCHANGED benched
  BY <1>1 DEF AcquireKey, RequestRecord
<1> HIDE DEF idx, tried
<1>5. /\ r \in RequestRecord
      /\ r.at = "upstream" /\ r.waited = requests[q].waited /\ r.timer = requests[q].timer
      /\ r.marked = requests[q].marked /\ r.status = requests[q].status
  BY <1>1, <1>2, <1>3 DEF RequestRecord
<1> HIDE DEF r
<1>6. RequestSound(r) /\ WaitCovers(r, benched)
  BY <1>1, <1>4, <1>5 DEF RequestSound, WaitCovers
<1> QED
  BY <1>2, <1>4, <1>5, <1>6, OneRequestKeeps

\* Whoever gives up has waited longer than a cool-down, so that every key
\* still benched was benched anew.
LEMMA WaitForKeyKeeps ==
  ASSUME PoolInv, NEW q \in Requests, WaitForKey(q)
  PROVE  PoolInv'
<1> DEFINE old == requests[q]
           refused == [old EXCEPT !.at = "answered", !.key = 0, !.status = "unavailable"]
           longer == old.waited + Slice
           sleeping == [old EXCEPT !.at = "asleep", !.timer = Slice, !.waited = longer]
<1>1. /\ old \in RequestRecord /\ RequestSound(old) /\ WaitCovers(old, benched)
      /\ old.at = "acquire" /\ old.timer = 0 /\ old.status = "none"
      /\ old.waited \in Nat /\ old.marked \in SUBSET Keys
  BY DEF PoolInv, PoolTypes, WaitForKey, RequestSound, RequestRecord
<1>2. \A k \in Keys : benched[k] \in Nat /\ benched[k] > 0 /\ benched[k] <= Cooldown
  <2> SUFFICES ASSUME NEW k \in Keys
               PROVE  benched[k] \in Nat /\ benched[k] > 0 /\ benched[k] <= Cooldown
    OBVIOUS
  <2>1. PICK i \in Keys : (cursor + i) % Total = k
    BY AllKeysReached DEF PoolInv, PoolTypes
  <2>2. benched[k] # 0
    BY <2>1 DEF WaitForKey, FreeSteps
  <2> QED
    BY <2>2 DEF PoolInv, PoolTypes
<1>3. UNCHANGED <<cursor, benched>> /\ cursor' \in Keys
  BY DEF WaitForKey, PoolInv, PoolTypes
<1>4. CASE old.waited >= WaitBudget
  <2>1. requests' = [requests EXCEPT ![q] = refused]
    BY <1>4 DEF WaitForKey, Status
  <2>2. old.marked = Keys
    <3>1. ASSUME NEW k \in Keys, k \notin old.marked
          PROVE  FALSE
      BY <1>1, <1>2, <1>4, <3>1, PoolAssumption DEF WaitCovers
    <3> QED
      BY <1>1, <3>1
  <2>3. /\ refused \in RequestRecord /\ refused.at = "answered"
        /\ refused.timer = 0 /\ refused.marked = Keys
    BY <1>1, <2>2, FreshRequests DEF RequestRecord
  <2> HIDE DEF refused
  <2>4. RequestSound(refused) /\ WaitCovers(refused, benched)
    BY <2>3 DEF RequestSound, WaitCovers
  <2> QED
    BY <1>3, <2>1, <2>3, <2>4, OneRequestKeeps
<1>5. CASE ~ (old.waited >= WaitBudget)
  <2>1. requests' = [requests EXCEPT ![q] = sleeping]
    BY <1>5 DEF WaitForKey
  <2>2. /\ sleeping \in RequestRecord /\ sleeping.at = "asleep" /\ sleeping.timer = Slice
        /\ sleeping.waited = old.waited + Slice /\ sleeping.marked = old.marked
        /\ sleeping.status = "none"
    <3>1. longer \in Nat /\ Slice \in Nat
      BY <1>1, PoolAssumption
    <3> HIDE DEF old, longer
    <3>2. sleeping \in RequestRecord
      BY <1>1, <3>1 DEF RequestRecord
    <3>3. sleeping.waited = longer
      BY <1>1 DEF RequestRecord
    <3>4. /\ sleeping.at = "asleep" /\ sleeping.timer = Slice
          /\ sleeping.marked = old.marked /\ sleeping.status = "none"
      BY <1>1 DEF RequestRecord
    <3> QED
      BY <3>2, <3>3, <3>4 DEF longer
  <2>3. \A k \in Keys \ old.marked : benched[k] + old.waited <= Cooldown
    <3> SUFFICES ASSUME NEW k \in Keys \ old.marked
                 PROVE  benched[k] + old.waited <= Cooldown
      OBVIOUS
    <3> QED
      BY <1>1, <1>2, PoolAssumption DEF WaitCovers
  <2> HIDE DEF sleeping
  <2>4. RequestSound(sleeping)
    BY <2>2 DEF RequestSound
  <2>5. WaitCovers(sleeping, benched)
    BY <1>1, <1>2, <2>2, <2>3, PoolAssumption DEF WaitCovers
  <2> QED
    BY <1>3, <2>1, <2>2, <2>4, <2>5, OneRequestKeeps
<1> QED
  BY <1>4, <1>5

LEMMA WakeKeeps ==
  ASSUME PoolInv, NEW q \in Requests, Wake(q)
  PROVE  PoolInv'
<1> DEFINE r == [requests[q] EXCEPT !.at = "acquire"]
<1>1. requests[q] \in RequestRecord /\ RequestSound(requests[q])
      /\ WaitCovers(requests[q], benched)
      /\ requests[q].at = "asleep" /\ requests[q].timer = 0
  BY DEF PoolInv, PoolTypes, Wake
<1>2. r \in RequestRecord /\ RequestSound(r) /\ WaitCovers(r, benched)
  BY <1>1 DEF RequestRecord, RequestSound, WaitCovers
<1>3. requests' = [requests EXCEPT ![q] = r] /\ UNCHANGED <<cursor, benched>>
  BY DEF Wake
<1> HIDE DEF r
<1> QED
  BY <1>2, <1>3, OneRequestKeeps DEF PoolInv, PoolTypes

LEMMA PassThroughKeeps ==
  ASSUME PoolInv, NEW q \in Requests, NEW status \in {"ok", "rejected"},
         PassThrough(q, status)
  PROVE  PoolInv'
<1> DEFINE r == [requests[q] EXCEPT !.at = "answered", !.key = 0, !.status = status]
<1>1. requests[q] \in RequestRecord /\ RequestSound(requests[q])
      /\ requests[q].at = "upstream"
  BY DEF PoolInv, PoolTypes, PassThrough
<1>2. /\ r \in RequestRecord /\ r.at = "answered" /\ r.timer = 0
      /\ r.status # "unavailable"
  BY <1>1, FreshRequests DEF RequestRecord, RequestSound
<1>3. requests' = [requests EXCEPT ![q] = r] /\ UNCHANGED <<cursor, benched>>
  BY DEF PassThrough, Status
<1> HIDE DEF r
<1>4. RequestSound(r) /\ WaitCovers(r, benched)
  BY <1>2 DEF RequestSound, WaitCovers
<1> QED
  BY <1>2, <1>3, <1>4, OneRequestKeeps DEF PoolInv, PoolTypes

\* A key is benched for everyone, and everyone who waits takes note of it.
LEMMA BenchKeeps ==
  ASSUME PoolInv, NEW q \in Requests, NEW r \in RequestRecord, NEW k \in Keys,
         RequestSound(r), r.at \in {"acquire", "answered"},
         r.at = "acquire" => r.status = "none",
         WaitCovers(r, benched),
         Bench(k), requests' = Marking([requests EXCEPT ![q] = r], k),
         UNCHANGED cursor
  PROVE  PoolInv'
<1> DEFINE between == [requests EXCEPT ![q] = r]
<1>1. /\ between \in [Requests -> RequestRecord]
      /\ \A p \in Requests : RequestSound(between[p]) /\ WaitCovers(between[p], benched)
  BY DEF PoolInv, PoolTypes
<1>2. /\ benched' \in [Keys -> Nat]
      /\ \A x \in Keys : benched'[x] = IF x = k THEN Cooldown ELSE benched[x]
      /\ \A x \in Keys : benched'[x] <= Cooldown
  BY PoolAssumption DEF Bench, PoolInv, PoolTypes
<1> HIDE DEF between
<1>3. \A p \in Requests :
        /\ requests'[p] \in RequestRecord
        /\ RequestSound(requests'[p])
        /\ WaitCovers(requests'[p], benched')
  <2> SUFFICES ASSUME NEW p \in Requests
               PROVE  /\ requests'[p] \in RequestRecord
                      /\ RequestSound(requests'[p])
                      /\ WaitCovers(requests'[p], benched')
    OBVIOUS
  <2>1. between[p] \in RequestRecord /\ RequestSound(between[p])
        /\ WaitCovers(between[p], benched)
    BY <1>1
  <2>2. CASE between[p].waited > 0 /\ between[p].at # "answered"
    <3> DEFINE m == [between[p] EXCEPT !.marked = between[p].marked \cup {k}]
    <3>1. requests'[p] = m
      BY <2>2 DEF Marking, between
    <3>2. /\ m \in RequestRecord /\ m.at = between[p].at /\ m.waited = between[p].waited
          /\ m.timer = between[p].timer /\ m.marked = between[p].marked \cup {k}
          /\ m.status = between[p].status
      BY <2>1 DEF RequestRecord
    <3> HIDE DEF m
    <3>3. RequestSound(m)
      BY <2>1, <2>2, <3>2 DEF RequestSound
    <3>4. WaitCovers(m, benched')
      BY <1>2, <2>1, <3>2 DEF WaitCovers
    <3> QED
      BY <3>1, <3>2, <3>3, <3>4
  <2>3. CASE ~ (between[p].waited > 0 /\ between[p].at # "answered")
    <3>1. requests'[p] = between[p]
      BY <2>3 DEF Marking, between
    <3> QED
      BY <2>1, <2>3, <3>1 DEF WaitCovers
  <2> QED
    BY <2>2, <2>3
<1>4. requests' \in [Requests -> RequestRecord]
  BY <1>3 DEF Marking
<1>5. cursor' \in Keys
  BY DEF PoolInv, PoolTypes
<1> QED
  BY <1>2, <1>3, <1>4, <1>5 DEF PoolInv, PoolTypes, RequestSound, WaitCovers

LEMMA ThrottledKeeps ==
  ASSUME PoolInv, NEW q \in Requests, Throttled(q)
  PROVE  PoolInv'
<1> DEFINE old == requests[q]
           passed == [old EXCEPT !.at = "answered", !.key = 0, !.status = "throttled"]
           again == [old EXCEPT !.at = "acquire", !.key = 0]
           r == IF old.tried >= Total THEN passed ELSE again
<1>1. /\ old \in RequestRecord /\ RequestSound(old) /\ WaitCovers(old, benched)
      /\ old.at = "upstream" /\ old.key \in Keys
  BY DEF PoolInv, PoolTypes, Throttled, RequestRecord
<1>2. /\ Bench(old.key) /\ UNCHANGED cursor
      /\ requests' = Marking([requests EXCEPT ![q] = r], old.key)
  BY DEF Throttled
<1> HIDE DEF old
<1>3. /\ passed \in RequestRecord /\ passed.at = "answered" /\ passed.timer = 0
      /\ passed.status = "throttled"
  BY <1>1, FreshRequests DEF RequestRecord, RequestSound
<1>4. /\ again \in RequestRecord /\ again.at = "acquire" /\ again.timer = old.timer
      /\ again.waited = old.waited /\ again.marked = old.marked
      /\ again.status = "none" /\ old.timer = 0
  BY <1>1, FreshRequests DEF RequestRecord, RequestSound
<1> HIDE DEF passed, again
<1>5. RequestSound(passed) /\ WaitCovers(passed, benched)
  BY <1>3 DEF RequestSound, WaitCovers
<1>6. RequestSound(again) /\ WaitCovers(again, benched)
  BY <1>1, <1>4 DEF RequestSound, WaitCovers
<1>7. /\ r \in RequestRecord /\ RequestSound(r) /\ WaitCovers(r, benched)
      /\ r.at \in {"acquire", "answered"} /\ (r.at = "acquire" => r.status = "none")
  BY <1>3, <1>4, <1>5, <1>6
<1> HIDE DEF r
<1> QED
  BY <1>1, <1>2, <1>7, BenchKeeps

LEMMA TransportErrorKeeps ==
  ASSUME PoolInv, NEW q \in Requests, TransportError(q)
  PROVE  PoolInv'
<1> DEFINE old == requests[q]
           r == [old EXCEPT !.at = "acquire"]
<1>1. /\ old \in RequestRecord /\ RequestSound(old) /\ WaitCovers(old, benched)
      /\ old.at = "upstream" /\ old.key \in Keys
  BY DEF PoolInv, PoolTypes, TransportError, RequestRecord
<1> DEFINE next == [r EXCEPT !.key = 0]
<1>2. /\ Bench(old.key) /\ UNCHANGED cursor
      /\ requests' = Marking([requests EXCEPT ![q] = next], old.key)
  BY DEF TransportError
<1> HIDE DEF old
<1>3. /\ next \in RequestRecord /\ next.at = "acquire" /\ next.timer = old.timer
      /\ next.waited = old.waited /\ next.marked = old.marked
      /\ next.status = "none" /\ old.timer = 0
  BY <1>1, FreshRequests DEF RequestRecord, RequestSound
<1> HIDE DEF next
<1>4. RequestSound(next) /\ WaitCovers(next, benched)
  BY <1>1, <1>3 DEF RequestSound, WaitCovers
<1> QED
  BY <1>1, <1>2, <1>3, <1>4, BenchKeeps

LEMMA NewPool ==
  ASSUME cursor = 0, benched = [k \in Keys |-> 0], requests = [q \in Requests |-> Idle]
  PROVE  PoolInv
BY FreshRequests, PoolAssumption DEF PoolInv, PoolTypes

LEMMA RestartKeeps ==
  ASSUME ProxyRestarts
  PROVE  PoolInv'
BY FreshRequests, PoolAssumption
   DEF ProxyRestarts, PoolInv, PoolTypes, RequestSound, WaitCovers

\* A sleeper's clock and those of the keys run down together.
LEMMA TickKeeps ==
  ASSUME PoolInv, PoolTick
  PROVE  PoolInv'
<1>1. /\ benched' \in [Keys -> Nat] /\ cursor' \in Keys
      /\ \A k \in Keys : /\ benched'[k] <= Cooldown
                         /\ benched'[k] > 0 => benched'[k] = benched[k] - 1
  <2>1. \A t \in Nat : Less(t) \in Nat /\ Less(t) <= t /\ (Less(t) > 0 => Less(t) = t - 1)
    BY DEF Less
  <2>2. \A k \in Keys : benched'[k] = Less(benched[k])
    BY DEF PoolTick
  <2>3. \A k \in Keys : benched[k] \in Nat /\ benched[k] <= Cooldown
    BY DEF PoolInv, PoolTypes
  <2>4. benched' \in [Keys -> Nat] /\ cursor' \in Keys
    BY <2>1, <2>3 DEF PoolTick, PoolInv, PoolTypes
  <2>5. ASSUME NEW k \in Keys
        PROVE  /\ benched'[k] <= Cooldown
               /\ benched'[k] > 0 => benched'[k] = benched[k] - 1
    <3> DEFINE t == benched[k]
    <3>1. t \in Nat /\ t <= Cooldown /\ Cooldown \in Nat /\ benched'[k] = Less(t)
      BY <2>2, <2>3, PoolAssumption
    <3>2. Less(t) \in Nat /\ Less(t) <= t /\ (Less(t) > 0 => Less(t) = t - 1)
      BY <2>1, <3>1
    <3> HIDE DEF t
    <3>3. Less(t) <= Cooldown
      BY <3>1, <3>2
    <3> QED
      BY <3>1, <3>2, <3>3 DEF t
  <2> QED
    BY <2>4, <2>5
<1>2. \A q \in Requests :
        /\ requests'[q] \in RequestRecord
        /\ RequestSound(requests'[q])
        /\ WaitCovers(requests'[q], benched')
  <2> SUFFICES ASSUME NEW q \in Requests
               PROVE  /\ requests'[q] \in RequestRecord
                      /\ RequestSound(requests'[q])
                      /\ WaitCovers(requests'[q], benched')
    OBVIOUS
  <2> DEFINE old == requests[q]
             left == Less(old.timer)
             r == [old EXCEPT !.timer = left]
  <2>1. old \in RequestRecord /\ RequestSound(old) /\ WaitCovers(old, benched)
    BY DEF PoolInv, PoolTypes
  <2>2. requests'[q] = r
    BY DEF PoolTick
  <2> HIDE DEF old
  <2>3. /\ left \in Nat /\ old.timer \in Nat /\ old.waited \in Nat
        /\ left <= old.timer /\ old.timer <= left + 1
    BY <2>1 DEF Less, RequestRecord
  <2> HIDE DEF left
  <2>4. /\ r \in RequestRecord /\ r.at = old.at /\ r.waited = old.waited
        /\ r.timer = left /\ r.marked = old.marked /\ r.status = old.status
    BY <2>1, <2>3 DEF RequestRecord
  <2> HIDE DEF r
  <2>5. RequestSound(r)
    BY <2>1, <2>3, <2>4 DEF RequestSound
  <2>6. WaitCovers(r, benched')
    <3> SUFFICES ASSUME r.waited > 0, r.at \in {"acquire", "upstream", "asleep"},
                        NEW k \in Keys \ r.marked, benched'[k] > 0
                 PROVE  benched'[k] + r.waited - r.timer <= Cooldown
      BY DEF WaitCovers
    <3>1. /\ benched[k] \in Nat /\ benched'[k] = benched[k] - 1
          /\ benched'[k] \in Nat /\ Cooldown \in Nat
      BY <1>1, PoolAssumption DEF PoolInv, PoolTypes
    <3>2. benched[k] + old.waited - old.timer <= Cooldown
      BY <2>1, <2>4, <3>1 DEF WaitCovers
    <3> QED
      BY <2>3, <2>4, <3>1, <3>2
  <2> QED
    BY <2>2, <2>4, <2>5, <2>6
<1>3. requests' \in [Requests -> RequestRecord]
  BY <1>2 DEF PoolTick
<1> QED
  BY <1>1, <1>2, <1>3 DEF PoolInv, PoolTypes, RequestSound, WaitCovers

LEMMA ForwardKeeps ==
  ASSUME PoolInv, NEW q \in Requests, Forward(q)
  PROVE  PoolInv'
<1>1. ASSUME Close(q)
      PROVE  PoolInv'
  BY <1>1, IdleKeeps DEF Close
<1> QED
  BY <1>1, AcquireKeeps, WaitForKeyKeeps, WakeKeeps, ThrottledKeeps,
     TransportErrorKeeps, PassThroughKeeps DEF Forward

---------------------------------------------------------------------------
\* Under the watchdog.

DriverInv == RegistryInv /\ JobsInv /\ PoolInv

LEMMA StartsSound ==
  ASSUME Init
  PROVE  DriverInv
<1>1. PoolInv
  BY NewPool DEF Init, PoolInit
<1>2. BootInstances(<<>>) \in Seq(InstanceRecord) /\ DOMAIN BootInstances(<<>>) = {}
  BY DEF BootInstances
<1>3. /\ \A n \in Nodes : live[n] = BootInstances(<<>>)
      /\ live \in [Nodes -> Seq(InstanceRecord)]
      /\ \A n \in Nodes : DOMAIN live[n] = {}
  BY <1>2 DEF Init
<1>4. /\ registered \in [Nodes -> [Overlays -> Replies \cup {None}]]
      /\ \A n \in Nodes, id \in Overlays : registered[n][id] = None
      /\ cache \in [CacheDirs -> [Overlays -> Replies \cup {None}]]
  BY DEF Init, Booted
<1>5. RegistryInv
  BY <1>3, <1>4 DEF RegistryInv
<1>6. JobsInv
  BY DEF Init, JobsInv
<1> QED
  BY <1>1, <1>5, <1>6 DEF DriverInv

LEMMA RegistryUntouched ==
  ASSUME RegistryInv, JobsInv, UNCHANGED registryVars
  PROVE  RegistryInv' /\ JobsInv'
BY DEF registryVars, RegistryInv, JobsInv

LEMMA PoolUntouched ==
  ASSUME PoolInv, UNCHANGED poolVars
  PROVE  PoolInv'
BY DEF poolVars, PoolInv, PoolTypes, RequestSound, WaitCovers

LEMMA DriveKeeps ==
  ASSUME DriverInv, NEW a \in Clients, Drive(a)
  PROVE  DriverInv'
<1>1. ASSUME UNCHANGED poolVars, UNCHANGED registryVars
      PROVE  DriverInv'
  BY <1>1, RegistryUntouched, PoolUntouched DEF DriverInv
<1>2. ASSUME NEW q \in Requests, Ask(a, q)
      PROVE  DriverInv'
  BY <1>2, RegistryUntouched, ArriveKeeps DEF Ask, DriverInv
<1>3. ASSUME NEW q \in Requests, Reply(a, q)
      PROVE  DriverInv'
  BY <1>3, RegistryUntouched, IdleKeeps DEF Reply, DriverInv
<1>4. ASSUME NEW q \in Requests, CallTimesOut(a, q)
      PROVE  DriverInv'
  BY <1>4, RegistryUntouched, UnattendedKeeps DEF CallTimesOut, DriverInv
<1>5. ASSUME TurnTimesOut(a)
      PROVE  DriverInv'
  BY <1>5, CancelKeeps, PoolUntouched DEF TurnTimesOut, Awaited, DriverInv
<1>6. ASSUME NEW id \in Overlays, LoadingTool(a, id)
      PROVE  DriverInv'
  BY <1>6, AloadKeeps, PoolUntouched DEF LoadingTool, DriverInv
<1>7. ASSUME \/ \E snapshot \in Taken, late \in BOOLEAN : Look(a, snapshot, late)
             \/ NextTick(a) \/ OpenclawEnds(a) \/ AskFails(a) \/ ConnectionLost(a)
             \/ PlainTool(a) \/ ToolsDone(a)
      PROVE  UNCHANGED poolVars /\ UNCHANGED registryVars
  BY <1>7 DEF Look, NextTick, OpenclawEnds, AskFails, ConnectionLost, PlainTool, ToolsDone
<1> QED
  BY <1>1, <1>2, <1>3, <1>4, <1>5, <1>6, <1>7 DEF Drive

LEMMA StepKeeps ==
  ASSUME DriverInv, [Next]_vars
  PROVE  DriverInv'
<1>1. ASSUME NEW q \in Requests, Proxy(q)
      PROVE  DriverInv'
  BY <1>1, RegistryUntouched, ForwardKeeps DEF Proxy, DriverInv
<1>2. ASSUME NEW q \in Requests, OtherRequest(q)
      PROVE  DriverInv'
  BY <1>2, RegistryUntouched, ArriveKeeps DEF OtherRequest, DriverInv
<1>3. ASSUME NEW j \in jobs, Compile(j)
      PROVE  DriverInv'
  BY <1>3, PoolUntouched, CompileKeeps DEF Compile, DriverInv
<1>4. ASSUME NEW s \in Servers, NEW id \in Overlays, ServerLoads(s, id)
      PROVE  DriverInv'
  BY <1>4, PoolUntouched, LoadKeeps DEF ServerLoads, DriverInv
<1>5. ASSUME RestartProxy
      PROVE  DriverInv'
  BY <1>5, RegistryUntouched, RestartKeeps DEF RestartProxy, DriverInv
<1>6. ASSUME Tick
      PROVE  DriverInv'
  BY <1>6, RegistryUntouched, TickKeeps DEF Tick, DriverInv
<1>7. ASSUME UNCHANGED vars
      PROVE  DriverInv'
  BY <1>7, RegistryUntouched, PoolUntouched DEF vars, DriverInv
<1> QED
  BY <1>1, <1>2, <1>3, <1>4, <1>5, <1>6, <1>7, DriveKeeps DEF Next

LEMMA DriverSound == Spec => []DriverInv
<1>1. Spec => Init /\ [][Next]_vars
  BY PTL DEF Spec
<1> QED
  BY <1>1, StartsSound, StepKeeps, PTL

LEMMA InstancesFiled ==
  ASSUME RegistryInv
  PROVE  OneInstance
<1> SUFFICES ASSUME NEW n \in Nodes, NEW id \in Overlays
             PROVE  registered[n][id] # None <=>
                      \E i \in DOMAIN live[n] :
                        live[n][i] = Instance(id, registered[n][id], TRUE)
  BY DEF OneInstance, RegistryInv
<1>1. \A i \in DOMAIN live[n] :
        /\ live[n][i] = Instance(live[n][i].id, live[n][i].src, live[n][i].started)
        /\ live[n][i].src \in Replies /\ live[n][i].started \in BOOLEAN
  <2> SUFFICES ASSUME NEW i \in DOMAIN live[n]
               PROVE  /\ live[n][i] = Instance(live[n][i].id, live[n][i].src,
                                               live[n][i].started)
                      /\ live[n][i].src \in Replies /\ live[n][i].started \in BOOLEAN
    OBVIOUS
  <2>1. live[n] \in Seq(InstanceRecord)
    BY DEF RegistryInv
  <2>2. live[n][i] \in InstanceRecord
    BY <2>1
  <2> QED
    BY <2>2 DEF InstanceRecord, Instance
<1>2. CASE registered[n][id] # None
  <2>1. PICK i \in DOMAIN live[n] : live[n][i].id = id /\ live[n][i].started
    BY <1>2 DEF RegistryInv
  <2>2. live[n][i].src = registered[n][id] /\ live[n][i].started = TRUE
    BY <1>1, <2>1 DEF RegistryInv
  <2> QED
    BY <1>1, <1>2, <2>1, <2>2
<1>3. ASSUME NEW i \in DOMAIN live[n], live[n][i] = Instance(id, registered[n][id], TRUE)
      PROVE  registered[n][id] # None
  <2>1. live[n][i].src = registered[n][id]
    BY <1>3 DEF Instance
  <2> QED
    BY <1>1, <2>1, RegistryAssumption
<1> QED
  BY <1>2, <1>3

\* Whatever loads at the same time, in threads or beside it, whichever turns
\* are cancelled and whichever instances fail to start, a process has at
\* most one started instance of an overlay, which is the one its registry
\* hands out (protocol/registry.py:118-126, 156-163).
THEOREM OverlaysLoadedOnce == Spec => []OneInstance
<1>1. DriverInv => OneInstance
  BY InstancesFiled DEF DriverInv
<1> QED
  BY <1>1, DriverSound, PTL

\* Every source that runs, and every one a thread is about to register, went
\* through all gates of the compiler.
AcceptedInv ==
  /\ \A n \in Nodes : \A i \in DOMAIN live[n] :
       compile_overlay(live[n][i].id, live[n][i].src)
  /\ \A j \in jobs : j.at = "compiled" => compile_overlay(j.id, j.src)

LEMMA RegisterAccepted ==
  ASSUME RegistryInv, AcceptedInv, NEW n \in Nodes, NEW id, NEW src,
         compile_overlay(id, src), Register(n, id, src), jobs' \subseteq jobs
  PROVE  AcceptedInv'
<1>1. CASE UNCHANGED <<live, registered>>
  BY <1>1 DEF AcceptedInv, compile_overlay
<1>2. ASSUME NEW new, new.id = id, new.src = src, Added(n, new)
      PROVE  AcceptedInv'
  <2>1. /\ live[n] \in Seq(InstanceRecord)
        /\ live' = [live EXCEPT ![n] = Append(live[n], new)]
    BY <1>2 DEF RegistryInv, Added
  <2>2. ASSUME NEW p \in Nodes, NEW i \in DOMAIN live'[p]
        PROVE  compile_overlay(live'[p][i].id, live'[p][i].src)
    <3>1. CASE p = n
      <4>1. live'[p] = Append(live[n], new)
        BY <2>1, <3>1 DEF RegistryInv
      <4>2. live'[p][i] = new \/ (i \in DOMAIN live[n] /\ live'[p][i] = live[n][i])
        BY <2>1, <4>1
      <4> QED
        BY <1>2, <4>2 DEF AcceptedInv
    <3>2. CASE p # n
      BY <2>1, <3>2 DEF RegistryInv, AcceptedInv
    <3> QED
      BY <3>1, <3>2
  <2>3. \A j \in jobs' : j.at = "compiled" => compile_overlay(j.id, j.src)
    BY DEF AcceptedInv
  <2> QED
    BY <2>2, <2>3 DEF AcceptedInv, compile_overlay
<1>3. CASE Filed(n, id, src)
  BY <1>2, <1>3 DEF Filed, Instance
<1>4. CASE StartRaises(n, id, src)
  BY <1>2, <1>4 DEF StartRaises, Instance
<1> QED
  BY <1>1, <1>3, <1>4 DEF Register

LEMMA BecomesAccepted ==
  ASSUME AcceptedInv, NEW j, NEW next, Becomes(j, next), UNCHANGED live,
         next.at = "compiled" => compile_overlay(next.id, next.src)
  PROVE  AcceptedInv'
BY DEF Becomes, AcceptedInv, compile_overlay

LEMMA FewerAccepted ==
  ASSUME AcceptedInv, jobs' \subseteq jobs, UNCHANGED live
  PROVE  AcceptedInv'
BY DEF AcceptedInv, compile_overlay

LEMMA CompileAccepted ==
  ASSUME DriverInv, AcceptedInv, NEW j \in jobs, Compile(j)
  PROVE  AcceptedInv'
<1>1. j \in Job /\ j.node \in Nodes
  BY DriverAssumption DEF DriverInv, JobsInv, Job
<1>2. CASE Lookup(j)
  <2> DEFINE src == cache[DirOf[j.node]][j.id]
  <2>1. [j EXCEPT !.at = "asking"].at = "asking"
    BY <1>1 DEF Job
  <2>2. /\ [j EXCEPT !.at = "compiled", !.src = src].id = j.id
        /\ [j EXCEPT !.at = "compiled", !.src = src].src = src
    BY <1>1 DEF Job
  <2>3. \/ Becomes(j, [j EXCEPT !.at = "asking"])
        \/ /\ compile_overlay(j.id, src)
           /\ Becomes(j, [j EXCEPT !.at = "compiled", !.src = src])
        \/ jobs' = jobs \ {j}
    BY <1>2 DEF Lookup
  <2>4. UNCHANGED live
    BY <1>2 DEF Lookup
  <2> QED
    BY <2>1, <2>2, <2>3, <2>4, BecomesAccepted, FewerAccepted
<1>3. CASE Answered(j)
  <2>1. PICK src \in Replies :
          /\ compile_overlay(j.id, src)
          /\ Becomes(j, [j EXCEPT !.at = "compiled", !.src = src])
    BY <1>3 DEF Answered, FromModel
  <2>2. /\ [j EXCEPT !.at = "compiled", !.src = src].id = j.id
        /\ [j EXCEPT !.at = "compiled", !.src = src].src = src
    BY <1>1 DEF Job
  <2> QED
    BY <1>3, <2>1, <2>2, BecomesAccepted DEF Answered
<1>4. CASE Failed(j)
  BY <1>4, FewerAccepted DEF Failed
<1>5. CASE Finish(j)
  <2>1. jobs' \subseteq jobs /\ compile_overlay(j.id, j.src)
    BY <1>5 DEF Finish, AcceptedInv
  <2> QED
    BY <1>1, <1>5, <2>1, RegisterAccepted, FewerAccepted DEF Finish, DriverInv
<1> QED
  BY <1>2, <1>3, <1>4, <1>5 DEF Compile

LEMMA StepAccepted ==
  ASSUME DriverInv, AcceptedInv, [Next]_vars
  PROVE  AcceptedInv'
<1>1. CASE UNCHANGED registryVars
  BY <1>1 DEF registryVars, AcceptedInv, compile_overlay
<1>2. ASSUME NEW a \in Clients, NEW id \in Overlays, LoadingTool(a, id)
      PROVE  AcceptedInv'
  <2> DEFINE new == [node |-> a, id |-> id, at |-> "lookup", src |-> None,
                     awaited |-> TRUE]
  <2>1. UNCHANGED registryVars \/ (jobs' = jobs \cup {new} /\ UNCHANGED live)
    BY <1>2 DEF LoadingTool, aload
  <2>2. new.at # "compiled"
    OBVIOUS
  <2> HIDE DEF new
  <2> QED
    BY <1>1, <2>1, <2>2 DEF AcceptedInv, compile_overlay
<1>3. ASSUME NEW a \in Clients, TurnTimesOut(a)
      PROVE  AcceptedInv'
  <2>1. PICK j \in jobs : Cancel(j)
    BY <1>3 DEF TurnTimesOut, Awaited
  <2> DEFINE next == [j EXCEPT !.awaited = FALSE]
  <2>2. j \in Job /\ next.at = j.at /\ next.id = j.id /\ next.src = j.src
    BY <2>1 DEF DriverInv, JobsInv, Job
  <2>3. Becomes(j, next) /\ UNCHANGED live
    BY <2>1 DEF Cancel
  <2> QED
    BY <2>2, <2>3, BecomesAccepted DEF AcceptedInv
<1>4. ASSUME NEW s \in Servers, NEW id \in Overlays, ServerLoads(s, id)
      PROVE  AcceptedInv'
  <2>1. \/ UNCHANGED registryVars
        \/ \E src : compile_overlay(id, src) /\ Register(s, id, src) /\ UNCHANGED jobs
    BY <1>4 DEF ServerLoads, load, compile_with_disk_cache
  <2> QED
    BY <1>1, <2>1, RegisterAccepted, DriverAssumption DEF DriverInv
<1>5. ASSUME NEW a \in Clients, Drive(a)
      PROVE  AcceptedInv'
  <2>1. \/ UNCHANGED registryVars
        \/ TurnTimesOut(a)
        \/ \E id \in Overlays : LoadingTool(a, id)
    BY <1>5 DEF Drive, Look, NextTick, OpenclawEnds, AskFails, ConnectionLost, Ask,
       Reply, CallTimesOut, PlainTool, ToolsDone
  <2> QED
    BY <1>1, <1>2, <1>3, <2>1
<1>6. ASSUME \/ \E q \in Requests : Proxy(q) \/ OtherRequest(q)
             \/ RestartProxy \/ Tick \/ UNCHANGED vars
      PROVE  UNCHANGED registryVars
  BY <1>6 DEF Proxy, OtherRequest, RestartProxy, Tick, vars
<1> QED
  BY <1>1, <1>4, <1>5, <1>6, CompileAccepted DEF Next

\* A source that passed packs the test vectors to the descriptor's bytes.
LEMMA AcceptedInteroperate ==
  ASSUME AcceptedInv
  PROVE  InstancesInteroperate
<1>1. ASSUME NEW n \in Nodes, NEW i \in DOMAIN live[n],
             NEW v \in ElementsOf(Descriptor[live[n][i].id].vectors)
      PROVE  /\ v.message \in DOMAIN live[n][i].src.formats
             /\ PackMessage(v.values, live[n][i].src.formats[v.message]) = v.bytes
  <2> DEFINE md == Descriptor[live[n][i].id]
             src == live[n][i].src
  <2>1. Compiles(md, live[n][i].id, src)
    BY DEF AcceptedInv, compile_overlay
  <2> HIDE DEF md, src
  <2>2. v \in ElementsOf(md.vectors)
    BY DEF md
  <2>3. v.message \in {m.name : m \in ElementsOf(md.messages)}
    BY <2>1, <2>2 DEF Compiles, validate_schema
  <2>4. v.message \in DOMAIN src.formats
    BY <2>1, <2>3 DEF Compiles, EveryPayloadThere
  <2>5. run_test_vector(src.formats[v.message], v)
    BY <2>1, <2>2 DEF Compiles
  <2> QED
    BY <2>4, <2>5 DEF run_test_vector, src
<1> QED
  BY <1>1 DEF InstancesInteroperate

\* The same bytes from every instance when sources are compiled in threads,
\* whichever turn that asked for one is over before its thread is done, and
\* with a cache two processes share (protocol/registry.py, aload).
THEOREM ThreadsInteroperate == Spec => []InstancesInteroperate
<1>1. Spec => Init /\ [][Next]_vars
  BY PTL DEF Spec
<1>2. Init => AcceptedInv
  <2> SUFFICES ASSUME Init
               PROVE  AcceptedInv
    OBVIOUS
  <2>1. \A n \in Nodes : live[n] = BootInstances(<<>>)
    BY DEF Init
  <2>2. DOMAIN BootInstances(<<>>) = {}
    BY DEF BootInstances
  <2> QED
    BY <2>1, <2>2 DEF Init, AcceptedInv
<1>3. AcceptedInv /\ DriverInv /\ [Next]_vars => AcceptedInv'
  BY StepAccepted
<1>4. AcceptedInv => InstancesInteroperate
  BY AcceptedInteroperate
<1> QED
  BY <1>1, <1>2, <1>3, <1>4, DriverSound, PTL

\* With a budget longer than the cool-down, a request is refused for want
\* of a key only when every key was benched anew while it waited
\* (scripts/llm_proxy.py).
THEOREM NobodyRefusedEarly == Spec => []RefusedUnderLoad
<1>1. DriverInv => RefusedUnderLoad
  BY DEF DriverInv, PoolInv, RequestSound, RefusedUnderLoad
<1> QED
  BY <1>1, DriverSound, PTL
=============================================================================

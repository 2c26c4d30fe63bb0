------------------------------ MODULE SignedLog ------------------------------
(***************************************************************************)
(* redteam/primitives/signed_log.py: several SignedAppendOnlyLog instances *)
(* on one log file, and the read-side index that                           *)
(* redteam/integration/server.py keeps over one of them.                   *)
(*                                                                         *)
(* An instance belongs to one process.  The MCP process of an agent has    *)
(* two, the runtime's and its HTTP server's, the watchdog process a third, *)
(* all on one file.  A step is one access to the file, so another process  *)
(* may act between any two of them.                                        *)
(*                                                                         *)
(* The k-th entry written is identified by k, its hash is k, GENESIS is 0, *)
(* and the file holds each entry's previous_hash.  The file only grows, so *)
(* its stat signature (mtime, size) is its length.  Signing and JSON are   *)
(* left out.                                                               *)
(***************************************************************************)
EXTENDS AgentLog, Integers, Sequences, FiniteSets

CONSTANTS
  Threads,      \* threads of control that use the log
  Instances,    \* SignedAppendOnlyLog objects on the file
  InstanceOf,   \* the instance each thread uses
  Appenders,    \* threads that call append_event
  Readers       \* threads that serve GET /head and GET /entries

\* The deployment the code sets up: every append goes through one instance
\* (the runtime's), and a thread that reads through an instance is the only
\* one to use it, because a process calls its log from its event loop.
ASSUME DeploymentAssumption ==
  /\ InstanceOf \in [Threads -> Instances]
  /\ Appenders \subseteq Threads
  /\ Readers \subseteq Threads
  /\ \A a, b \in Appenders : InstanceOf[a] = InstanceOf[b]
  /\ \A r \in Readers, t \in Threads : InstanceOf[r] = InstanceOf[t] => r = t
  /\ None \notin Threads

VARIABLES
  file,         \* file[k]: previous_hash of the k-th entry
  latestHash,   \* _latest_hash of each instance
  latestSig,    \* _latest_sig of each instance
  lock,         \* holder of each instance's _lock
  pc,           \* where each thread is
  head,         \* result of each thread's latest_hash()
  index         \* _entries_cache of each reading thread: [head, entries]

vars == <<file, latestHash, latestSig, lock, pc, head, index>>

Sig == Len(file)

Init ==
  /\ file = <<>>
  /\ latestHash = [i \in Instances |-> None]
  /\ latestSig = [i \in Instances |-> None]
  /\ lock = [i \in Instances |-> None]
  /\ pc = [t \in Threads |-> "idle"]
  /\ head = [t \in Threads |-> GENESIS]
  /\ index = [t \in Readers |-> [head |-> None, entries |-> 0]]

Goto(t, place) == pc' = [pc EXCEPT ![t] = place]

---------------------------------------------------------------------------
\* latest_hash(), called by an appender that holds the lock ("append") or by
\* a request handler that holds nothing ("read").

\* Where the caller goes on with the head it got.
Continue(t) == Goto(t, IF pc[t] \in {"append", "append_scanned"}
                       THEN "write" ELSE "serve")

\* The signature is that of the cached head: no scan.
CacheHit(t) ==
  LET i == InstanceOf[t] IN
  /\ pc[t] \in {"append", "read"}
  /\ latestHash[i] # None /\ latestSig[i] = Sig
  /\ head' = [head EXCEPT ![t] = latestHash[i]]
  /\ Continue(t)
  /\ UNCHANGED <<file, latestHash, latestSig, lock, index>>

\* The file changed since, or was never read.
CacheMiss(t) ==
  LET i == InstanceOf[t] IN
  /\ pc[t] \in {"append", "read"}
  /\ ~ (latestHash[i] # None /\ latestSig[i] = Sig)
  /\ Goto(t, IF pc[t] = "append" THEN "append_scan" ELSE "read_scan")
  /\ UNCHANGED <<file, latestHash, latestSig, lock, head, index>>

\* Scan to the end of the file; the last entry is the head.
Scan(t) ==
  /\ pc[t] \in {"append_scan", "read_scan"}
  /\ head' = [head EXCEPT ![t] = Len(file)]
  /\ latestHash' = [latestHash EXCEPT ![InstanceOf[t]] = Len(file)]
  /\ Goto(t, IF pc[t] = "append_scan" THEN "append_scanned" ELSE "read_scanned")
  /\ UNCHANGED <<file, latestSig, lock, index>>

\* Re-stat after the scan.
Restat(t) ==
  /\ pc[t] \in {"append_scanned", "read_scanned"}
  /\ latestSig' = [latestSig EXCEPT ![InstanceOf[t]] = Sig]
  /\ Continue(t)
  /\ UNCHANGED <<file, latestHash, lock, head, index>>

---------------------------------------------------------------------------
\* append_event(): build the entry on the head, write it, cache it.

\* Mutant: append_event does not wait for the lock.
AcquireHeld(t) ==
  /\ t \in Appenders /\ pc[t] = "idle" /\ Len(file) < MaxEntries
  /\ lock' = [lock EXCEPT ![InstanceOf[t]] = t]
  /\ Goto(t, "append")
  /\ UNCHANGED <<file, latestHash, latestSig, head, index>>

Acquire(t) ==
  /\ t \in Appenders
  /\ pc[t] = "idle"
  /\ lock[InstanceOf[t]] = None
  /\ Len(file) < MaxEntries
  /\ lock' = [lock EXCEPT ![InstanceOf[t]] = t]
  /\ Goto(t, "append")
  /\ UNCHANGED <<file, latestHash, latestSig, head, index>>

Release(t) == lock' = [lock EXCEPT ![InstanceOf[t]] = None]

\* _persist: write, flush, fsync, then remember the new head.
Persist(t) ==
  /\ pc[t] = "write"
  /\ file' = Append(file, head[t])
  /\ latestHash' = [latestHash EXCEPT ![InstanceOf[t]] = Len(file')]
  /\ Goto(t, "written")
  /\ UNCHANGED <<latestSig, lock, head, index>>

\* The rest of _persist: the signature of the file as it is now.
StatWritten(t) ==
  /\ pc[t] = "written"
  /\ latestSig' = [latestSig EXCEPT ![InstanceOf[t]] = Sig]
  /\ Release(t)
  /\ Goto(t, "idle")
  /\ UNCHANGED <<file, latestHash, head, index>>

\* Mutant: an append that raises leaves the lock held.
AppendRaisesHoldingLock(t) ==
  /\ pc[t] \in {"append", "write"}
  /\ Goto(t, "idle")
  /\ UNCHANGED <<file, latestHash, latestSig, lock, head, index>>

\* Mutant: an append that raises resets the cached head.
AppendRaisesForgetting(t) ==
  /\ pc[t] \in {"append", "write"}
  /\ Release(t)
  /\ latestHash' = [latestHash EXCEPT ![InstanceOf[t]] = GENESIS]
  /\ Goto(t, "idle")
  /\ UNCHANGED <<file, latestSig, head, index>>

\* A check of a witness entry fails, or the write raises before anything
\* reaches the file: the with-statement releases the lock, the rest stays.
AppendRaises(t) ==
  /\ pc[t] \in {"append", "write"}
  /\ Release(t)
  /\ Goto(t, "idle")
  /\ UNCHANGED <<file, latestHash, latestSig, head, index>>

---------------------------------------------------------------------------
\* The server's read side.

StartRead(t) ==
  /\ t \in Readers
  /\ pc[t] = "idle"
  /\ Goto(t, "read")
  /\ UNCHANGED <<file, latestHash, latestSig, lock, head, index>>

\* GET /head answers with the head; GET /entries answers from the index when
\* its head is still the log's.
ServeCached(t) ==
  /\ pc[t] = "serve"
  /\ Goto(t, "idle")
  /\ UNCHANGED <<file, latestHash, latestSig, lock, head, index>>

\* Mutant: the head is read again after the entries.
RebuildIndexHeadLast(t) ==
  /\ pc[t] = "serve"
  /\ index[t].head # head[t]
  /\ index' = [index EXCEPT ![t] = [head |-> Len(file), entries |-> head[t]]]
  /\ Goto(t, "idle")
  /\ UNCHANGED <<file, latestHash, latestSig, lock, head>>

\* _ensure_entries_cache finds another head and reads the entries again.
RebuildIndex(t) ==
  /\ pc[t] = "serve"
  /\ index[t].head # head[t]
  /\ index' = [index EXCEPT ![t] = [head |-> head[t], entries |-> Len(file)]]
  /\ Goto(t, "idle")
  /\ UNCHANGED <<file, latestHash, latestSig, lock, head>>

Step(t) ==
  \/ CacheHit(t) \/ CacheMiss(t) \/ Scan(t) \/ Restat(t)
  \/ Persist(t) \/ StatWritten(t) \/ AppendRaises(t)
  \/ ServeCached(t) \/ RebuildIndex(t)

Next == \E t \in Threads : Step(t) \/ Acquire(t) \/ StartRead(t)

\* A thread inside a call goes on; nobody is obliged to start one.
Fairness == \A t \in Threads : WF_vars(Step(t))

Spec == Init /\ [][Next]_vars /\ Fairness

---------------------------------------------------------------------------
AppendSteps == {"append", "append_scan", "append_scanned", "write", "written"}
ReadSteps == {"read", "read_scan", "read_scanned", "serve"}

\* Type invariant.
TypeOK ==
  /\ file \in Seq(Nat)
  /\ latestHash \in [Instances -> Nat \cup {None}]
  /\ latestSig \in [Instances -> Nat \cup {None}]
  /\ lock \in [Instances -> Threads \cup {None}]
  /\ pc \in [Threads -> {"idle"} \cup AppendSteps \cup ReadSteps]
  /\ head \in [Threads -> Nat]
  /\ index \in [Readers -> [head : Nat \cup {None}, entries : Nat]]

\* Every entry links to the one written just before it, whatever the threads
\* of the writing instance and the other instances do in between: the chain
\* check of verify_integrity passes (signed_log.py:127-130, 502-513).
ChainIntact == \A k \in 1..Len(file) : file[k] = k - 1

\* A thread that reads the head again never gets an older one, so a peer's
\* pull cursor never points past what the server admits to have
\* (signed_log.py:157-170).
HeadNeverRetreats ==
  [][\A t \in Threads : head'[t] >= head[t]]_vars

\* The head a GET /entries response carries is among the entries behind the
\* response, although the two are read one after the other
\* (redteam/integration/server.py:334-349).
IndexCoversHead ==
  \A t \in Readers :
    index[t].head # None => index[t].head <= index[t].entries

\* No append, finished or failed, keeps the lock: another can always follow
\* (signed_log.py:182-192).
LockAlwaysFreed == \A i \in Instances : []<>(lock[i] = None)

\* "Keying the cache on the file's stat signature invalidates it whenever ANY
\* instance appends" (signed_log.py:143-145): a cached head that passes for
\* current is the head of the file.
CachedHeadIsCurrent ==
  \A t \in Threads :
    LET i == InstanceOf[t] IN
    pc[t] = "idle" /\ latestHash[i] # None /\ latestSig[i] = Sig
      => latestHash[i] = Len(file)
=============================================================================

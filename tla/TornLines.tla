------------------------------ MODULE TornLines ------------------------------
(***************************************************************************)
(* What a write that is cut short does to the JSONL files: the log of an   *)
(* agent (redteam/primitives/signed_log.py) and the file a peer keeps of   *)
(* it (redteam/primitives/peer_log.py).  A full disk or a death leaves a   *)
(* part of a line, or all of it but its newline, and the next write goes   *)
(* on in that line.  Readers skip a line that is not one JSON object.      *)
(*                                                                         *)
(* Entries are numbered in the order of the attempts to write them.        *)
(* Verification, several PeerLog objects and lost requests are those of    *)
(* PeerSync, which has no torn lines.                                      *)
(***************************************************************************)
EXTENDS AgentLog, Integers, Sequences, SequencesExt, FiniteSets

CONSTANTS
  Batch,        \* pull_batch
  MaxFaults,    \* bound on the writes that raise or are cut short
  MaxRestarts   \* bound on the restarts of the peer

VARIABLES
  log,        \* the author's file
  previous,   \* previous_hash of each entry
  latest,     \* _latest_hash of the writing object, None if the file changed since
  returned,   \* entries whose append_event returned
  stored,     \* the peer's file
  seen,       \* _seen of its PeerLog object, None before the first scan
  cursor,     \* where its pull loop is
  batch,      \* served entries that accept_entry has not had
  faults, restarts

tornVars == <<log, previous, latest, returned, stored, seen, cursor, batch, faults, restarts>>

---------------------------------------------------------------------------
\* Files.

Piece(k, whole) == [entry |-> k, whole |-> whole]

\* The file after a write to its end.
Written(jsonl, k, whole, ended) ==
  [lines |-> IF jsonl.ended THEN Append(jsonl.lines, <<Piece(k, whole)>>)
             ELSE [jsonl.lines EXCEPT ![Len(jsonl.lines)] = Append(@, Piece(k, whole))],
   ended |-> ended]

Parses(line) == Len(line) = 1 /\ line[1].whole

\* Mutant: reading ends at the first line that does not parse.
WholeUpToDamage(jsonl) ==
  {i \in DOMAIN jsonl.lines : \A j \in 1 .. i : Parses(jsonl.lines[j])}

\* read_entries and the scan of a peer's file: the lines they do not skip.
Whole(jsonl) == {i \in DOMAIN jsonl.lines : Parses(jsonl.lines[i])}
EntryIn(jsonl, i) == jsonl.lines[i][1].entry
Readable(jsonl) == {EntryIn(jsonl, i) : i \in Whole(jsonl)}

ScannedHead(jsonl) ==
  IF Whole(jsonl) = {} THEN GENESIS ELSE EntryIn(jsonl, Max(Whole(jsonl)))

NewFile == [lines |-> <<>>, ended |-> TRUE]

\* The header is a line of its own, unless it was cut short.
TornHeader == Written(NewFile, GENESIS, FALSE, FALSE)

TornInit ==
  /\ \/ log = NewFile /\ faults = 0
     \/ log = TornHeader /\ faults = 1
  /\ previous = <<>> /\ latest = None /\ returned = {}
  /\ stored = NewFile /\ seen = None
  /\ cursor = GENESIS /\ batch = <<>>
  /\ restarts = 0

\* A write raises: nothing of the line is there, or a part, or all of it but
\* the newline, or all, when only fsync failed.
CutShort(jsonl, k) ==
  {jsonl} \cup {Written(jsonl, k, whole, FALSE) : whole \in BOOLEAN}
         \cup {Written(jsonl, k, TRUE, TRUE)}

Fault == faults < MaxFaults /\ faults' = faults + 1

---------------------------------------------------------------------------
\* The author.

latest_hash == IF latest # None THEN latest ELSE ScannedHead(log)

Builds ==
  /\ Len(previous) < MaxEntries
  /\ previous' = Append(previous, latest_hash)
  /\ UNCHANGED <<stored, seen, cursor, batch, restarts>>

\* Mutant: the new stat signature is kept, the new hash is not.
AppendKeepsHash ==
  /\ Builds
  /\ log' = Written(log, Len(previous'), TRUE, TRUE)
  /\ latest' = latest_hash
  /\ returned' = returned \cup {Len(previous')}
  /\ UNCHANGED faults

\* append_event
AppendEvent ==
  /\ Builds
  /\ log' = Written(log, Len(previous'), TRUE, TRUE)
  /\ latest' = Len(previous')
  /\ returned' = returned \cup {Len(previous')}
  /\ UNCHANGED faults

\* It raises; a file that changed has another signature than the cached hash.
AppendCutShort ==
  /\ Builds /\ Fault
  /\ log' \in CutShort(log, Len(previous'))
  /\ latest' = IF log' = log THEN latest ELSE None
  /\ UNCHANGED returned

AuthorRestarts ==
  /\ latest' = None
  /\ UNCHANGED <<log, previous, returned, stored, seen, cursor, batch, faults, restarts>>

---------------------------------------------------------------------------
\* The peer.

Known == IF seen = None THEN Readable(stored) ELSE seen

\* pull_once as far as GET /entries: nothing new, 404 for a cursor that is
\* not there (an error of this peer, the cursor stays), or a batch.
Pull ==
  /\ batch = <<>>
  /\ cursor = ScannedHead(log) => cursor = GENESIS
  /\ cursor \in {GENESIS} \cup Readable(log)
  /\ LET after == {i \in Whole(log) : cursor = GENESIS
                     \/ \E j \in Whole(log) : j < i /\ EntryIn(log, j) = cursor}
         Nth(n) == CHOOSE i \in after : Cardinality({j \in after : j <= i}) = n
     IN /\ after # {}
        /\ batch' = [n \in 1 .. Min({Batch, Cardinality(after)}) |-> EntryIn(log, Nth(n))]
  /\ UNCHANGED <<log, previous, latest, returned, stored, seen, cursor, faults, restarts>>

\* The rest of the batch, or the end of the pull.
Accepted(e) ==
  /\ batch' = Tail(batch)
  /\ cursor' = IF Len(batch) = 1 THEN e ELSE cursor
  /\ UNCHANGED <<log, previous, latest, returned, faults, restarts>>

\* accept_entry: a duplicate, or a line more.
AcceptEntry ==
  /\ batch # <<>>
  /\ LET e == Head(batch) IN
     /\ stored' = IF e \in Known THEN stored ELSE Written(stored, e, TRUE, TRUE)
     /\ seen' = Known \cup {e}
     /\ Accepted(e)

\* Its write raises, which ends the pull without a new cursor.
AcceptCutShort ==
  /\ batch # <<>> /\ Head(batch) \notin Known
  /\ Fault
  /\ stored' \in CutShort(stored, Head(batch))
  /\ seen' = Known
  /\ batch' = <<>>
  /\ UNCHANGED <<log, previous, latest, returned, cursor, restarts>>

\* Mutant: the cursor is taken from the file (initial_state).
RestartAtTail ==
  /\ restarts < MaxRestarts /\ restarts' = restarts + 1
  /\ seen' = None /\ cursor' = ScannedHead(stored) /\ batch' = <<>>
  /\ UNCHANGED <<log, previous, latest, returned, stored, faults>>

\* The peer comes up again, without a cursor.
PeerRestarts ==
  /\ restarts < MaxRestarts /\ restarts' = restarts + 1
  /\ seen' = None /\ cursor' = GENESIS /\ batch' = <<>>
  /\ UNCHANGED <<log, previous, latest, returned, stored, faults>>

TornNext ==
  \/ AppendEvent \/ AppendCutShort \/ AuthorRestarts
  \/ Pull \/ AcceptEntry \/ AcceptCutShort \/ PeerRestarts

\* The pull loop goes on.
TornSpec == TornInit /\ [][TornNext]_tornVars /\ WF_tornVars(Pull \/ AcceptEntry)

---------------------------------------------------------------------------
\* A write that is cut short costs an author at most one entry it was told
\* is in the log, the next one in the same line; and a peer at most two it
\* takes for stored, as a restart may count a line without its newline
\* (signed_log.py:67-70, peer_log.py:162-165, the lines that are skipped).
LossesBounded ==
  /\ Cardinality(returned \ Readable(log)) <= faults
  /\ Cardinality(Known \ Readable(stored)) <= 2 * faults

\* No two entries of the log follow the same one, although the writer that
\* had to scan may link past an entry that was lost.
NoForkInLog ==
  \A k, m \in Readable(log) : previous[k] = previous[m] => k = m

\* A peer that comes up again gets every entry the author can read, whatever
\* its file, its index and its cursor had missed before, unless a write is
\* cut short again or a line was left open (pull_loop.py:15, 181-184).
FreshPullHeals ==
  \A f \in 0 .. MaxFaults :
    (faults = f /\ seen = None /\ batch = <<>> /\ log.ended /\ stored.ended) ~>
      (faults > f \/ Readable(log) \subseteq Readable(stored))

=============================================================================

# DelftClaw: specifications

TLA+ models of DelftClaw, a community of LLM agents that rents seedboxes
together without a treasurer.  Each agent signs an append-only log of its own;
the agents pull each other's logs and every one of them computes who is a
member, what the treasury holds and whether a new seedbox may be bought by
replaying all the logs it has.  Around that core an agent asks others for
admission and for overlays over UDP, loads code that a language model wrote,
is driven turn by turn by a watchdog, and may use its tools through a gateway
that bans misbehaving subjects.

Paths are relative to `src/`.

## 1. The system

| component | state it keeps | operations | interacts with | modules |
|---|---|---|---|---|
| community rules (`agent/community_state.py`) | none: an aggregate folded from entries | three validators, `replay_community` | called by the runtime on every look | CommunityRules, CommunityReplay |
| manifest (`protocol/manifest.py`) | none | `parse_manifest` | its policy is what the rules compare with | NetworkManifest |
| signed log (`redteam/primitives/signed_log.py`, `verify.py`) | one JSONL file; per object a cached head, its stat signature, a lock | `append_event`, `latest_hash`, `verify_integrity`, `verify_foreign_entry`; the standalone verifier | objects in the MCP process (runtime, HTTP server) and in the watchdog process share the file | AgentLog, SignedLog, TornLines, EntryChecks, StandaloneVerify |
| log server (`redteam/integration/server.py`) | read index over the log | `GET /head`, `GET /entries`, `POST /entries`, `POST /log` | serves the pull loops of the peers | SignedLog, PeerSync |
| peer log, pull loop (`redteam/primitives/peer_log.py`, `redteam/integration/pull_loop.py`) | one file per peer; per object a dedup index; per driver cursors and cool-downs | `accept_entry`, `pull_once`, `run_pull_loop` | HTTP to the peers' servers; files shared by three objects in two processes | PeerSync, TornLines, LogReplication |
| runtime (`agent/runtime.py`) | loaded manifest, memo of the community state | `load_manifest`, `community_state`, join handler | logs, wire, registry | Community, AgentServices |
| tools (`agent/tools.py`, `agent/mcp_server.py`) | none | donate, join, purchase proposal, provisioned, fetch and load overlays, join a network | runtime, wallet, wire | Community, AgentServices |
| wallet (`identity/wallet.py`) | sats spent, in memory | `send` | tools | Community, AgentServices |
| seedbox wire (`communication/community.py`) | pending futures by peer or hash, offers, published texts | join, overlay and manifest exchange, introductions | IPv8 datagrams | SeedboxWire |
| donation verifier (`admission/`) | none | `verify` | asked by the gatekeeper's join handler | SeedboxWire |
| overlay registry, compiler (`protocol/`) | loaded overlays, disk cache | `load`, `aload`, `compile_overlay` | tools, IPv8, a language model | OverlayRegistry, OverlayCompiler |
| claw community service (`claw_community/`) | one JSON file with treasury, members, seedboxes | create, fund, buy, join, expand, files | providers, audit log | ClawCommunity |
| watchdog (`deploy/watchdog.py`, `stop_predicates.py`, `agent/loop.py`) | turn, error count, snapshots | turn loop, tool loop, stop predicates | an agent of its own on the files of the MCP process; the LLM proxy | TurnDriver, StopPredicates |
| LLM proxy (`scripts/llm_proxy.py`) | key pool, cool-downs | acquire, mark exhausted, forward | upstream API | KeyPool |
| security gateway (`security/`) | scores, bans, seedboxes, proofs, tasks; its log | tool calls, scans, audits, reload from the log | its own signed log | SecurityGateway |
| security scenarios (`deploy/security_agent_tools.py`) | evidence file, one gateway log per layer | layer tools, integrated episode | gateways, stop predicates | SecurityLayers |
| scenario boot (`deploy/scenario.py`, `mission.py`, `scenario_boot.py`) | files it writes | parse, manifest and environment of the units | starts everything else | ScenarioBoot |
| BitTorrent (`communication/bittorrent.py`) | futures per magnet | add, seed, poll | libtorrent | - |

Hard behaviours: several objects and processes on one file, each with a cache
or a copy; pulls that fail, are rejected half way, or are cut by a crash;
entries that arrive late and sort early because they are ordered by their
authors' clocks; checks made on a replica and judged later on another one;
datagrams that are lost, repeated and reordered while callers time out and ask
again; awaits between a check and its use; threads that outlive the turn that
started them; scores recomputed in place while others read them; deaths between
two effects.  `PROJECT.json` lists every hazard at its line, with the
properties that watch it, or why none does.

What makes each component correct, in a sentence:

- rules: whatever entries are folded, money and growth are accounted for and
  everybody who acts was admitted before; every manifest that parses leaves
  room for the next donor;
- signed log: the chain never forks and no reader sees it go backwards; both
  verifiers say the same of a file;
- replication: nothing is skipped, invented or forgotten, and a peer that can
  be reached is caught up with whatever the others do, up to what its server's
  cached head hides;
- runtime and tools: what an agent acts on is a replay of its files that lacks
  nothing its own log or its own `PeerLog` stored, a donation is paid for, and
  all agents end up with one view;
- wire: an answer is believed only for the request it can belong to, and every
  call ends; registry: one started instance per overlay, instances compiled
  apart pack the test vectors alike;
- service: no file ever written is overdrawn or holds what nobody reported;
- watchdog and proxy: the watchdog ends, nobody is refused a key for one
  throttled minute;
- gateway: verdicts follow from the log, through rescans and restarts; layers:
  what was shown stays shown.

## 2. Modules

```
CommunityRules --- CommunityReplay --- MCCommunityReplay     (run replay)
      |                   '----------- CommunityProofs
      |----------- Community --------- MCCommunity           (run community)
      |                   '----------- CommunityProofs
      '=== AgentServicesProofs --- ScenarioBoot
LogReplication === PeerSync ---------- MCPeerSync            (run peer_sync)
                     |    '----------- PeerSyncProofs
EntryChecks --- StandaloneVerify
AgentLog --- SignedLog --------------- MCSignedLog           (run signed_log)
      |              '---------------- SignedLogProofs
      '----- TornLines --------------- MCTornLines           (run torn_lines)
                     '---------------- SignedLogProofs

NetworkNodes --- SeedboxWire -------------.
      '--------- OverlayRegistry ------ AgentServices --- MCAgentServices (run wire)
OverlayCompiler ----' |   NetworkManifest --'    '--- AgentServicesProofs
                      |         '--- ScenarioBoot --- MCAgentServices
KeyPool -------- TurnDriver ----------- MCTurnDriver         (run turns)
                     | '--------------- TurnDriverProofs
StopPredicates ------'--- SecurityLayers, ScenarioBoot
SecurityGateway --- SecurityLayers ---- MCSecurityGateway    (run gateway)
      '-------------------------------- SecurityGatewayProofs
ClawCommunity ------------------------- MCClawCommunity      (run claw_service)
      '-------------------------------- ClawCommunityProofs
Recursion === CommunityProofs, ClawCommunityProofs, SecurityGatewayProofs
```

(`---` EXTENDS, `===` INSTANCE with a substitution.)  The pieces of the log
meet in `Community`: it takes the rules as they are, and of replication and of
the log what `PeerSync` and `SignedLog` establish, namely that an agent gets
prefixes of its peers' logs, and that a log is a chain to which its author
appends.

**CommunityRules** has the pure part: the manifest's policy, the three
validators, the effect of an accepted entry, the sort key and `Replay`.
Reporter ids, timestamps and hashes are only compared, so they are numbers or
model values; `shape` stands for the type checks of a validator.  `Replay`
applies the latest entry to the replay of the others, the fold of the code seen
from its end, so that it needs no recursion operator.

**CommunityReplay** is the loop of `replay_community` as a machine: each step
folds any possible next entry, so that its behaviours are all sorted logs.

**NetworkManifest** says which documents `parse_manifest` takes and what it
reads from them.  A document is a sequence of sections of lines; a regular
expression is a set of the cells it matches; a cell that `int()` takes is an
integer.  Other sections may stand between the required ones, and the last of
two lines with one key counts, as in the code.

**ScenarioBoot** has the parsers of scenarios and missions, the choice of the
genesis agent, the environment of an agent's units and the manifest the boot
writes, as a document of NetworkManifest.

**SignedLog** is `signed_log.py` at the granularity of file accesses:
`latest_hash` compares the stat signature, scans, and stats again; an append
holds the object's lock from reading the head to recording the new one.  An
object belongs to a process: the runtime's and the HTTP server's live in the
MCP process, where the event loop makes a call atomic for the others, the
watchdog has a third one.  `DeploymentAssumption` states what the start-up code
sets up: every append goes through one object (the runtime's when OpenClaw
drives the turns, the watchdog's in direct mode), and a reading object has one
user.  `RebuildIndex` is the read index of `server.py`.  AgentLog holds what it
shares with TornLines: entries are numbers, and an entry's number is its hash.

**EntryChecks** and **StandaloneVerify** are the checks of an entry, of a
witness's fields and of a whole file in the log class, and the same written
again in `verify.py`.  A signature is a verdict, a hash a value.  PeerSync uses
them for the entries a peer turns down.

**PeerSync** is the pull loop as it takes the peers in turn: `AskHead`,
`HeadAnswered`, `EntriesServed`, `BatchAccepted`, with `PullFails` and
`StoreFails` at any point, the cool-down, `Crash` of the MCP process within a
batch, and the other ways into the peer files: the join handler (`Ship`),
`POST /entries` (`Post`) and the pull loop of the watchdog (`WatchdogPull`).
`copies` counts the lines an entry takes in a file, `seen` and `scanned` are
the dedup index of each `PeerLog` object.  A peer answers with the head its
server has cached (`server`): `CacheHit` when the signature is that of the file,
else `Scan` and `Restat`, between which the peer's log may grow by its other
process, so that a cached head may pass for current and be behind (`Masked`) for
as long as the peer neither appends nor starts again.  The entries come from an
index kept for that head and read after it, hence whole.  Answering and
receiving a head is one step, since it is only compared with the puller's own
cursor; a batch is served and received in two.  The back-off delay is abstracted
to a cool-down that ends some time.

**TornLines** is what a write that is cut short leaves, by a full disk or a
death: nothing of a line, a part, or all but its newline, in the author's file
or the peer's copy, and the next write goes on in the same line.  A file is a
sequence of lines made of pieces of entries; a reader takes the lines that are
one whole piece (`Whole`), in their order.  It is separate from `PeerSync`, where a write that fails
leaves nothing, because there the file may be a number of copies per entry,
which is what the proofs count.

**LogReplication** is what replication promises: a node learns entries of a
peer that the peer has written and that verify, and never forgets one.

**Community** has agents whose tools check the memoised replay of what they
hold, debit their wallet and append, while entries travel between them and a
gatekeeper stores the donation a joiner ships.  Clocks are the number of entries
written plus a constant per agent.  `have` is what the files of an agent hold
and the replay reads; `known` is the index of the runtime's own `PeerLog`, filled
from a file when it is first touched and afterwards by what this object stores.
The memo's key is the own log's head and the tails of that index (`Indexed`), so
what `POST /entries` or the watchdog stores through an object of its own
(`StoreElsewhere`, into the files of the agents in `Shared`) is in the files and
not in the key.  `masked` are the entries a server's cached head hides (of the
agents in `MayHide`), as `PeerSync` has it in detail.  `Restart` brings an agent up again with its files,
without a network and with a full wallet, since the wallet only counts in
memory.

**SeedboxWire** has a handler per message and a request per flow.  The wire is
the set of all datagrams sent; one may arrive at any time, again or never.
`waits` are the futures, `pending` says which of them a slot of the four dicts
holds.  **OverlayCompiler** decides which descriptor and which source of the
model pass the parser, the sandbox, the structural contract and the test
vectors; packing is done on bytes, because a vector is compared byte by byte.
**OverlayRegistry** has the disk cache shared by an agent's processes, `load`
in one step, and `aload` as a job whose thread may outlive its cancelled turn.
To register is to construct, append to `ipv8.overlays`, start and file, any of
which may raise (`Register`): an instance whose `started()` raised stays in
`ipv8.overlays`, unfiled.
**AgentServices** puts the three together under the tools of an agent: what a
tool does between two awaits is one step, every await has its timeout, and a
process may die and come up again with `--manifest` and `--genesis`.

**ClawCommunity**: an operation reads the file once and becomes the list of
effects that follow from it; `Effect` performs one of them.  A write is two,
because opening the file empties it.  An expansion within a join reads the file
again, as `maybe_expand_seedboxes` does.  `Mishap` ends a process, or makes an
I/O operation raise, between any two effects.

**SecurityGateway**: a request is a list of effects too (look at the bans,
decide and run, write entries, scan), since the HTTP server has a thread per
request and no lock.  A scan empties the shared scores in one step and adds the
lines in another.  `reload_runtime_state` folds the log with
`replay_log_entry`.  A report is an entry with the action and the details its
sender chose, so it may look like what a gateway writes itself; the charges of
the gateway's own audits have the tool `audit` in the model to tell them apart.
Ids of donations and proofs, owners, donors and provers are the caller's or else
the gateway's (`Named`).  An audit checks a seedbox in one step and remembers and
charges it in others (`AuditNext`, `ChargeOwner`, `WriteEntry`), with other
audits in between.  **SecurityLayers** runs the layer tools of the scenarios
on gateways of their own, one per layer, whose logs stay, with the shared
evidence file and the watchdog that may die anywhere; `Tampered` is the log
tamper suite.  **StopPredicates** are the predicates of `stop_predicates.py`
over snapshots; `resolve` looks at the name only, and a word where a number
belongs raises in the watchdog's loop (`Raised`).

**KeyPool** is the proxy: keys handed out round-robin, benched for a cool-down,
waited for in slices up to a budget.  **TurnDriver** is the watchdog over it:
the checks before a turn, the tool loop whose calls of the model block the
event loop, or the openclaw subprocess, the timeouts of a turn and a call, the
counts of turns and consecutive errors.  Time is counted down in units; the
steps of an event loop take no time against one.

## 3. Runs

| run | instance | shows |
|---|---|---|
| `replay` | 3 agents, amounts 0..4, cap 3, seedbox price 2, 7 entries | `TreasurySolvent`, `PurchasesCloseInOrder`, `GrowthJustified`, `DonationsWithinBootstrapCap`, `SignersDonatedFirst`, `DuplicatesIgnored` |
| `signed_log` | 2 appending threads, 1 reader with an object of its own, 4 entries | `ChainIntact`, `IndexCoversHead`, `HeadNeverRetreats`, `LockAlwaysFreed` |
| `peer_sync` | 2 peers with 1 and up to 3 entries, batch 2, 1 crash, any number of watchdog restarts | `NoGapBehindCursor`, `CopiesBounded`, `ImplementsReplication`, `Convergence` |
| `torn_lines` | 5 attempts to append, batch 2, 2 writes cut short, 2 restarts of the peer | `LossesBounded`, `NoForkInLog`, `FreshPullHeals` |
| `community` | 2 agents, the second clock ahead by 3, 4 entries, amounts 1 and 3, wallets of 3 sats, 1 restart of an agent, other `PeerLog` objects in the files of the second, the server of the first hiding entries behind its cached head | `MemoCovers`, `DonationsPaid`, `OwnDonationAdmits`, `ViewsConverge` |
| `wire` | an agent and two gatekeepers booted from a scenario's manifest, one of which publishes an overlay, 2 requests, 1 extra (restart, introduction, offer, stray text, publication) | `AcceptedByTheOneAsked`, `FetchedWhatWasAsked`, `NewestWaiterReachable`, `AdmittedByDonation`, `InstancesInteroperate`, `CallsReturn` |
| `claw_service` | 2 processes, 2 agents, one community, 4 operations, 1 mishap, seedboxes that hold one agent | `Solvent`, `RecordsBacked`, `HousedInOrder`, `NothingLostAlone` |
| `gateway` | 2 clients, up to 3 requests from an empty or a filled log, 3 reports, 1 restart or failing append; the layer tools with 3 runs and 1 death | `VerdictFromLog`, `ScoresNeverFall`, `ReloadReproduces`, `NoFurtherCharge`, `FirstRunDone`, `LayerStaysDone` |
| `turns` | a watchdog, the MCP process beside it, 2 keys, 3 turns, 1 extra (other request, proxy restart, load by the server), 1 overlay that does not start | `DriversStop`, `OneInstance`, `RefusedUnderLoad` |

Bounds.  `replay`: seven entries are three donations, two purchases with their
closing, or fewer and entries that are turned down; a second purchase needs all
three members, so every rule is at its limit.  Agents are interchangeable and
are a symmetry set.  `signed_log`: four entries let each thread append while
the other waits and the reader's scan be overtaken twice.  `peer_sync`: with
three entries and batches of two a pull takes two turns; the third entry of
peer 2 does not verify, so batches end by length, by the log's end and by
rejection; peer 1 comes first in the list and may fail for ever, so that only
the loop's error isolation brings peer 2 its turn.  The server and the
watchdog store the second entry of peer 2 as well (`Doubled`), so that it may be
in the file before the one it follows, or twice.
`torn_lines` (`MaxEntries`, `MaxFaults`, `MaxRestarts`): five attempts are one
cut short, the one that is lost in its line, one that links to it, a second one
cut short and one after it.  `community` (`MaxEntries`,
`MaxRestarts`): four entries are two donations, a purchase and its closing; a donation, a
restart and what the new life adds to it; or one that is hidden, one that brings
it to light and those of the other agent.  The skew of 3 puts an entry of the
second agent behind several later ones of the first.  A wallet of 3 sats is
empty after one donation at the cap.
`wire` (`MaxWaits`, `MaxExtras`): two requests share a slot or cross at two
gatekeepers, one timing out before the other is answered; the model answers
with a right source and with one whose bytes are wrong.  In the same run TLC
evaluates, as assumptions, which of the scenarios that parse get a manifest that
parses, and that the parsers turn down documents, missions and scenarios with
one thing wrong.  `claw_service` (`MaxOps`, `MaxMishaps`): four operations are a
creation, a funding and two that buy or join from copies of each other.
`gateway` (`Starts`, `MaxRequests`, `MaxMishaps`, `MaxRuns`, `MaxDeaths`):
weights are those of the code and the threshold is 20 so that two requests ban.
A start is a mode, a log and the number of requests that log stands for: three
requests on an empty log in defended mode, two in baseline mode, and two more
behind a log with a seedbox and a donation to it, which are then an audit and
another beside it; the reports are one of negative weight, a charge and a
registration from a later step, the last two in the guise of the gateway's own; three runs of a layer are one cut short, one on the scores
that left and one more.  `turns`
(`MaxTotalTurns`, `MaxIterations`, `MaxToolCalls`, `MaxJobs`, `MaxRaised`,
`MaxExtras`): two
keys can be benched in one request, three turns reach each of the limits on
turns and on consecutive errors; a slice of the wait is the whole budget and a
turn has no grace beyond its call, since either only adds ticks in which nothing
else happens.

Three more runs exhibit disagreements between the code and what it says; others
are told in section 7:

- `signed_log_stale_head`: the head cache takes the stat after the scan, so an
  append of another process in between is masked until the next one, which
  `signed_log.py:143-145` and `167-168` rule out;
- `memo_other_store`: an entry that the HTTP server or the watchdog stored in a
  peer's file moves no head of the memo's key, against "invalidated whenever any
  head advances" (`agent/runtime.py:464-466`);
- `admission_via_replication`: two agents may both donate within the cap they
  see, and once both donations are replicated only the one that sorts first is
  certain to count; `agent/tools.py:328-329` promises admission regardless.

Deadlock is checked in the runs of PeerSync and Community.  `replay`, `signed_log`
and `torn_lines` end when the log has its maximal length, `wire`, `claw_service`
and `gateway` when their bounds are used up, and `turns` when the watchdog has
stopped.

## 4. Fairness

`SignedLog`: a thread that is inside a call goes on (`WF` per thread); nobody
has to start one, and waiting for a lock is not assumed to succeed.
`PeerSync`: the loop goes on and each request ends, because the HTTP client has
a timeout of 10 s (`agent/runtime.py:201`); a cool-down passes; for the
*reliable* peers only, requests that are made again and again are answered some
time, lookups of the head they wait for included (`SF`).  That a masked head is
ever corrected is not assumed, as nothing in the code does it.  Nothing is
assumed of the others.  `TornLines`: the pull loop goes on (`WF`); no write is assumed to succeed.  `Community`: the pull loop of
every agent brings what is there and not hidden (`WF` of `Pull` of what is not
`masked`, which is what `Convergence` of `PeerSync` gives for reachable peers
with entries that verify), and an
agent without a network is told one.  `AgentServices`: the timers of `wait_for` run
and a coroutine whose future is done is resumed (`WF` per request and per
call); no datagram need ever arrive.  `TurnDriver`: the event loops of the
watchdog and of the proxy run and clocks go on; nothing is assumed of the
model, the other users of the proxy or the compiling threads.  `ClawCommunity`
and `SecurityGateway` have safety properties only and no fairness.

## 5. Proofs

TLAPS checks the following for all values of the constants that satisfy the
named assumptions.  A type invariant that is proved is not checked by a run as
well.

- `Recursion` is about functions defined by recursion over the subsets of a
  finite set: there is one (`Exists`), two whose steps are the same below a set
  agree there (`Agree`), and the value of a set is one step from that without
  the element picked (`OneMore`; `NextIndex` for lists, whose indices are such a
  set).  They rest on the well-foundedness of strict inclusion.  The library's
  induction theorems take the induction hypothesis as an operator, which the
  provers cannot instantiate; here base, pick and step are constants of the
  module, and `INSTANCE Recursion WITH` gives them an operator with a name, so
  each use says its theorems of one fold.  That is how what is below about
  `Replay`, sums and scores of a log of any length is proved.
- `CommunityProofs` (from `PolicyAssumption`, `ReplayAssumption`,
  `CommunityAssumption`).  All invariants of `CommunityReplay`: two more
  conjuncts make them inductive, the sum of the donations is at most their
  number times the bootstrap cap (so the floored average, the cap of the next
  donor, never exceeds it), and no record carries the position of an entry still
  to come.  And of `Community`: `MemoCovers`, `OwnDonationAdmits`,
  `DonationsPaid`.  The first two have the hypothesis that no agent is told of a
  second network, `OneNetwork`; without it they are false, as
  `load_manifest` does not clear the memo.  `MemoCovers` is what the memo's key
  does give: a state of the network loaded that has all of the own log and of the
  index of the runtime's `PeerLog`; that it has all the files hold is false
  (`memo_other_store`).  Its invariant says that what was replayed held what the
  key stands for, and that an index which has not grown since stands for no more.
  `OwnDonationAdmits` is about that state, the one the checks were made on, not
  about entries other objects had stored unseen.  For `OwnDonationAdmits`, a set of
  entries that is closed under earlier ones has, by induction over the subsets,
  a replay with fewer members and a higher cap than any set around it
  (`ReplayGrows`): the average can only fall.  So a donation the tool checked
  against the replay of what it saw is valid where it sorts among that, too.
  For `DonationsPaid` the sum over an agent's donations is a fold, and which
  element is added last does not matter (`SumAny`).
- `SignedLogProofs` (from `LogAssumption`, `DeploymentAssumption`): type
  correctness, `ChainIntact`, `IndexCoversHead` and `HeadNeverRetreats` for any
  number of threads and objects.  The invariant says who holds which lock, that the
  appending object's head is the file's whenever its signature is, and that a
  reading object's head is never ahead of the file nor of what its thread
  remembers.
  Also here, of `TornLines` (from `LogAssumption`), for any number of entries,
  faults and restarts: `NoForkInLog` and `LossesBounded`.  For the first
  (`Linked`) an entry is linked no earlier than the last one that can be read,
  whether its author had cached the head or had to scan for it, so of two
  entries that can be read the later is linked past the one the earlier is
  linked to.  For the second, faults are counted against bills.  A line left
  open by a cut costs its author one entry when it is next written to
  (`AuthorPays`: what is lost and what lies open together never exceed the
  faults); it holds nothing that was promised, as the append that left it open
  raised.  A peer pays twice (`PeerPays`), because a scan may have counted the
  open line.
- `PeerSyncProofs` (from `SyncAssumption`): type correctness,
  `NoGapBehindCursor`, `CopiesBounded` and the refinement of `LogReplication`,
  for any peers, logs and batch sizes.  The invariant counts, for each entry,
  its lines plus the `PeerLog` objects that could still add one; that sum never
  grows.
  Also here: the two verifiers accept the same files of entries
  of version 2, of any length (`VerifiersAgree`), and what they accept a peer
  takes entry by entry (`VerifiedLogReplicates`).  The chain is checked against
  the stored hash in one and the recomputed one in the other; in an accepted
  file they are equal, so no induction is needed.
- `AgentServicesProofs` (from `WireAssumption`, `ServicesAssumption`): the four
  invariants of the wire, for any number of nodes, overlays, requests and
  restarts.  The invariant says that a slot names a future of its own node and
  key, the newest one that waits; that a datagram on the wire says no more than
  its sender was entitled to (a positive answer stands for an acceptance, a
  text for its id); and that acceptances and the ledger only grow, so a datagram
  stays true however late it arrives.
  Also here, of manifests (from `ManifestAssumption`): the nodes' manifest, like
  any that parses, meets `PolicyAssumption` (`PolicyIsSound`), so the results
  about the replay hold in every network an agent can load; the least donation
  of a newcomer is then valid in every state (`NewcomersFit`: the cap is never
  below the minimum); and the manifest of a boot parses (`BuiltManifestParses`),
  under the two conditions that `parse_scenario` leaves open, a name in snake
  case and no overlay published twice.
  And of the overlays: `InstancesInteroperate`, for any descriptors, sources and
  caches.  It speaks of the bytes that test vectors pack to; a message without a
  vector, and what a source makes of the bytes it gets, are not covered by the
  gates nor by the theorem.  No two nodes are compared step by step: every source that runs went
  through the gates of the compiler (`SourcesInv`), on whichever of the three
  ways it came in, and what the gates accept has a class for every message of a
  test vector and packs the vector to the descriptor's own bytes.
- `ClawCommunityProofs` (from `ClawAssumption`): `Solvent`, `RecordsBacked`,
  `HousedInOrder` and `NothingLostAlone`, for any number of processes, members
  and seedboxes.  For the first three the invariant covers, besides the file, every copy an operation holds and still
  has to write, because a write from an old copy brings that copy back.  What a
  copy names must be there when it is written, so of the effects that are left
  the invariant knows what those before the write will have reported or
  launched; neither the audit log nor the machines ever get fewer.
  `NothingLostAlone` needs a second invariant (`AloneInv`): as long as no two
  operations overlapped and none died, the effects still to come of the one
  under way lead, from the file and the audit log as they are, to a file and a
  log that agree (`Balanced`).  A join is the case that needs it said of the
  future: its expansion reads the file again after the join is written, so
  what it starts from must already agree with the log.  `ClawAssumption` says
  that the values for an absent community and a torn file are no community and
  no file; in the code they are `None` and text that `json.loads` refuses.
- `TurnDriverProofs` (from `RegistryAssumption`, `DriverAssumption`,
  `PoolAssumption`): `OneInstance` and `RefusedUnderLoad`, for any processes,
  overlays, keys and requests.  For the first, a process has one started instance
  of an overlay at most, the one filed; the others are of loads whose `started()`
  raised.  A process awaits one job at a
  time, and an awaited job is for an overlay that is not registered, because
  `aload` is called by the tool loop only.  For the second: as long as a key was
  not benched since a request began to wait, what is left of its cool-down and
  the time the request waited add up to at most one cool-down, which is shorter
  than the budget.
  `InstancesInteroperate` once more (test vectors only), of sources compiled in
  threads, where a thread may register what it compiled after the turn that
  asked is over (`AcceptedInv` also speaks of the jobs between the gates and the
  registry).
- `SecurityGatewayProofs` (from `GatewayAssumption`): type correctness,
  `ScoresNeverFall`, `VerdictFromLog` and `NoFurtherCharge`, for any agents,
  clients, requests and length of the log.  A score is a fold over the log, so
  an entry more adds its weight, and none is negative.  For the verdict the
  invariant (`ScansWhole`) says that, as long as no two requests overlapped, one
  that is about to scan finds the scores cleared and one that decides finds the
  bans of the whole log.  For the charges the invariant (`ChargedKnown`) says
  that a seedbox the log has a charge for, or for which a charge is about to be
  written, is marked as audited, also after a reload, which marks those of the
  log; so the check, which looks at the mark, makes up its mind to charge no such
  seedbox.  Audits that overlap may have checked before the mark was set, and
  then each of them charges; the model has the check and the mark as two steps,
  and nothing says that they charge once.
  Also here, of the tools that play the attacks (from `LayersAssumption`):
  `FirstRunDone` and `LayerStaysDone`, for any number of runs of any tools and
  deaths of watchdogs.  The invariant (`LayersInv`) has a part per tool.  What a
  first run has seen is said call by call, with the score its gateway then has:
  0, 10, 35 for layer 2 and 0, 0, 10, 20, 30 for the episode, each the weights of
  `DEFAULT_WEIGHTS` its own calls bring on, which for layer 2 rests on the
  seedbox registered by the first call being the one the second donates to its
  owner.  Any run: a layer that is done left a score of 30 or more in its log, a
  score never falls, so the first call of the next run is refused, reading its
  result raises, and the evidence file stays.  Layer 1 is never banned by its
  own calls in one run and may be by many; a run of it that is not refused goes
  as told, so what it writes is always that the layer is done.  Layer 3 writes
  what the guardrail probe said, which is kept once it is written.  Tools have
  gateways of their own, so no step of one disturbs what is said of another.
  And `ReloadReproduces`, from any log gateways wrote. The reload is a fold of
  the log, so an entry more is one step of `replay_log_entry` more, which keeps
  what every reached state has (`Sane`): seedboxes registered before their
  tasks. The invariant (`LogFollows`) says that, as long as the gateway is not
  disturbed, what a start would rebuild is the state there is, or lacks one
  entry, which the request under way is still to write before it decides or
  audits anything else. Disturbed is the gateway, until it starts anew, when
  requests overlapped, an append failed, an id of a donation or proof was used
  again (the gateway keeps both, the reload one), or a report passes for what
  only gateways write (`Misleads`: a charge, a tool's success with an output, or
  a step later than the gateway's): the endpoint logs the action and details it
  is given and changes nothing else, the reload acts on them. It also says that
  a decision still to come uses an id that is in no ledger, so that to replay
  its entry appends what the tool appended. Each tool has its lemmas: what it
  gives (`OutputGiven`), what the replay of its entry makes of that
  (`NewIsReplayed`), and that of the entries of a request one at most changes
  anything (`WrittenOk`).

  `GatewayAssumption` says of a start that its log is one gateways wrote: steps
  are natural numbers, severities integers, what a registration or an audit put
  out is there.  Requests may name anybody as owner, donor or prover, and give
  any id.  A report may have any action, severity, step and output but one
  marked as an audit's, a mark that only the gateway's own charges have in the
  model and that tells them from reports; `NoFurtherCharge` is about charges.

Only model-checked: liveness (`LockAlwaysFreed`, `Convergence`,
`FreshPullHeals`, `ViewsConverge`, `CallsReturn`, `DriversStop`), which is
beyond the prover.  Every invariant and every action property a passing run
checks is also a theorem.

## 6. Plan

1. *done*: the rules and the replay; the signed log; replication; torn
   lines; the community of agents on top of them; the wire, the registry and
   the tools over them; the community service; the watchdog and the proxy; the gateway and the security
   scenarios; manifests and scenarios.
2. *open*: the phases of `scenario_boot._bring_up` with an agent that
   does not come up; BitTorrent's futures.

## 7. What the models brought to light

Beyond the three disagreements above, the models and reading the code for them
showed:

- A masked head (`signed_log_stale_head`) makes the pull loops of all peers
  short-circuit (`pull_loop.py:85`), and the last entry is not fetched until the
  peer appends another or starts again, the failure that `signed_log.py:138-145`
  says is ruled out.  `Convergence` is as strong as that leaves it: without
  `[]Masked` TLC finds it violated.
- The memo of the community state leaves out the manifest (`runtime.py:476`), and
  `load_manifest` (374) does not clear it: an agent that loads a second network
  goes on showing the first until some log grows, against
  `runtime.py:456`.  With two networks per agent TLC finds `MemoFresh` and
  `MemoCovers` violated; the run `community` and the theorems are about one.
- An overlay whose `started()` raises is in `ipv8.overlays` and not in the
  registry (`registry.py:118-126`, `156-163`), so the next load adds a second
  instance, which `protocol/registry.py:63-65` rules out; no gate of the compiler
  runs `started()`.  `OneInstance` says what is left: one of them is started.
- `parse_scenario` takes names the manifest parser refuses (upper case,
  hyphens, a leading digit), and a genesis agent that publishes an overlay
  twice: such a boot stops in the middle, with units running
  (`deploy/scenario.py:143`, `protocol/manifest.py:157`, `303`).
- Two `PeerLog` objects may store an entry twice, although
  `agent/runtime.py:192-194` counts on `accept_entry` being idempotent across
  them.  The lines are bounded (`CopiesBounded`) and the replay does not mind
  (`DuplicatesIgnored`).
- After a write to a peer's file that was cut short, the entry written next is
  reported stored and called a duplicate from then on, while no reader finds it;
  `peer_log.py:88-89` says a duplicate is in the file.
- A line without its newline takes the next entry with it (`LossesBounded`).
  Where the writing process read its head before, the entry after that links to
  one nobody can read, so `verify_integrity` fails from there on; a peer whose
  cursor is an entry of such a line, served before it was spoiled, is answered
  404 until it starts again without a cursor (`FreshPullHeals`).  Had it
  resumed from the tail of its own file, as the docstring of `run_pull_loop`
  suggests for `initial_state`, what is missing before that tail would never be
  fetched: that is the mutant of `FreshPullHeals`.  Beginning a write
  with a newline where the file does not end in one would avoid all of it.
- A genesis agent's units publish only its first overlay
  (`deploy/scenario_boot.py:294`), the manifest lists all of them (`759`):
  joiners ask for overlays nobody has.
- Ports are compared among the ipv8, among the mcp and among the log server
  ports; the watchdog's own port, 1000 above, is not looked at.
- The units have no `--manifest`: an MCP process that systemd restarts has no
  network until it is told again.  The restart in `AgentServices` is that of a
  process started with `--manifest`.
- `network_join` donates to the manifest's gatekeeper and asks the first
  genesis peer it knows; `AdmittedByDonation` holds because the verifier of the
  one asked looks for its own address.
- Test vectors: `docs/architecture.md:196` asks for two per message, the
  compiler for one in all.
- Two operations of the claw service that overlap lose one; a process that dies
  while writing leaves an empty file that every later operation refuses; an
  agent that joins twice pays twice.
- Every `seedbox_donation_broadcast` adds weight, so a subject that donates
  often enough is banned; overlapping scans may count lines twice or leave the
  scores empty for a moment, a donation logged before the seedbox it is for is
  dropped at a reload, and of two donations or two proofs with one id, which a
  caller may give, the last is kept (`VerdictFromLog` and `ReloadReproduces` say
  so much as one request at a time and fresh ids allow).
- `/security/report` logs any action and details.  One that says
  `seedbox_missing_proof`, or `tool_execution_success` with an output, or a step,
  weighs on its subject only, until the gateway starts again: then the seedbox
  counts as audited, the tool as run, and steps go on from the one given.
- Two audits that overlap may both find a seedbox uncharged
  (`gateway.py:229`) before either remembers it (`232`), and charge its owner
  twice.
- A donation whose `details` is not an object, or an entry of a known kind whose
  timestamp is not text, is not skipped by `replay_community` but raises out of
  it (`community_state.py:195-212`); the models have entries of the right shape.
- In `llm_proxy.py` the number of tries is capped for throttled keys but not for
  transport errors; `turn_lock.py` and `mcp_snapshot.py` are used by nobody;
  `max_total_turns` lets one turn less run.
- `verify.py` does not look at the version of an entry, and stops at the first
  malformed line.

## 8. Not modelled

Cryptography, and parsing and formatting below the level of a document's
lines, are inputs: a verdict per entry, a model value per name, a set per
regular expression.  What a language model writes is an input: any of a few
sources, any tool calls.  Identity derivation is a pure function over external
libraries; BitTorrent is decided by libtorrent; traces and evidence reports
only format logs; deployment to hosts, the demo drivers and the order in which
`scenario_boot` brings up the units are linear scripts.  The text of prompts,
the metric counters of the gateway, and the stub boot path of `cli.py` are left
out.  A peer whose log is truncated or replaced by hand is not modelled: no code
does that.

-------------------------- MODULE SecurityGateway --------------------------
(***************************************************************************)
(* The gateway through which agents use their tools                        *)
(* (security/integration/gateway.py): it asks the reputation engine        *)
(* whether the subject is banned, runs the tool behind the allowlist of    *)
(* Hands or, as the undefended baseline, with every tool there is, and     *)
(* writes what happened to a signed log.  Scores and bans are read from    *)
(* that log at every request, and seedboxes, donations, proofs, tasks and  *)
(* files are rebuilt from it at start.                                     *)
(*                                                                         *)
(* The HTTP server gives every request a thread and nothing is locked but  *)
(* the log's append, so a request is a list of effects, one per step.  A   *)
(* scan of the log clears the shared scores, then adds the lines to        *)
(* whatever the scores are by then; the lines are added in one step.       *)
(***************************************************************************)
EXTENDS Integers, Sequences, SequencesExt, FiniteSets

CONSTANTS
  Clients,       \* processes that send requests, one at a time each
  Agents,        \* agent ids
  AgentOf,       \* per client: the agent id it gives
  Seedboxes, FileIds,
  MaxRisk,       \* highest risk Hands runs: 0 safe, 1 sensitive, 2 dangerous
  BanThreshold,
  Starts,        \* a mode, a log, and how many requests are behind that log
  Requests,      \* tool calls agents make
  Reports,       \* entries others report: action and details are the caller's
  None,
  MaxRequests, MaxMishaps

\* An id a caller may give, or the one it gets.
Named(given, default) == IF given = None THEN default ELSE given

\* A log as gateways write it: integer severities and steps, the output of a
\* tool that is one, and audits that charge the owner of a seedbox.
Given(tool, out) ==
  tool = "register_seedbox" => None # [owner |-> out.owner, fake |-> out.fake]
IsAudit(e) == e.tool = "audit"
EntryShape(e) ==
  /\ e.severity \in Int /\ e.step \in Nat
  /\ e.output # None => Given(e.tool, e.output)
Written(entries) ==
  /\ entries \in Seq({entries[i] : i \in DOMAIN entries})
  /\ \A i \in DOMAIN entries :
       /\ EntryShape(entries[i])
       /\ IsAudit(entries[i]) =>
            entries[i].action = "seedbox_missing_proof" /\ entries[i].output # None

ASSUME GatewayAssumption ==
  /\ AgentOf \in [Clients -> Agents]
  /\ \A e \in Reports : EntryShape(e) /\ ~ IsAudit(e)
  /\ \A a \in Agents, fake \in {FALSE} \cup {r.value : r \in Requests} :
       None # [owner |-> a, fake |-> fake]
  /\ \A r \in Requests : r.who \in Agents \cup {None}
  /\ MaxRisk \in 0..2 /\ BanThreshold \in Nat
  /\ IsFiniteSet(Seedboxes) /\ IsFiniteSet(FileIds)
  /\ \A start \in Starts :
       /\ start[1] \in {"defended", "baseline"} /\ start[3] \in Nat
       /\ Written(start[2])
  /\ None # "audit" /\ \A s \in Seedboxes : None # [box |-> s]

VARIABLES
  mode,
  log,        \* entries of the signed log
  mem,        \* what the gateway knows, rebuilt from the log at start
  scores, banned,   \* of the reputation engine
  doing,      \* per client: effects of its request still to come
  plan,       \* per client: requests its tool sends after this one
  requests, mishaps,
  disturbed   \* requests overlapped, one failed, an id was used again, or a
              \* report passes for what a gateway writes itself

vars == <<mode, log, mem, scores, banned, doing, plan, requests, mishaps, disturbed>>

---------------------------------------------------------------------------
\* Tools.

Safe == {"send_message", "summarize_payload", "list_seedbox_files",
         "search_seedbox_files", "pick_random_seedbox_file"}
Sensitive == {"register_seedbox", "broadcast_seedbox_donation",
              "submit_seedbox_proof", "submit_atomic_microtask",
              "verify_atomic_microtask", "report_security_event",
              "index_seedbox_file"}
Dangerous == {"exfiltrate_private_key", "run_shell"}
risk_value(tool) == IF tool \in Safe THEN 0 ELSE 1
allowed_tools == Safe \cup Sensitive

\* A request: the tool, whether all its arguments are there, and those that
\* matter: a seedbox, an id, a value, and whom it names as owner, donor or
\* prover, which is the agent itself unless it says otherwise.
Request(tool, complete, box, id, value) ==
  [tool |-> tool, complete |-> complete, box |-> box, id |-> id, value |-> value,
   who |-> None]
Naming(r, agent) == [r EXCEPT !.who = agent]

\* An action that is not in the table weighs nothing.
DEFAULT_WEIGHTS(action) ==
  CASE action = "seedbox_donation_broadcast" -> 5
    [] action \in {"unauthorized_tool_request", "unauthorized_tool_use",
                   "fake_seedbox_created", "seedbox_missing_proof",
                   "atomic_microtask_rejected"} -> 10
    [] action \in {"unauthorized_tool_execution", "self_donation",
                   "log_spoof_attempt"} -> 15
    [] action \in {"wash_trade_detected", "reputation_trap_detected",
                   "log_integrity_failure", "private_key_access_attempt",
                   "iptables_modification_attempt"} -> 20
    [] action = "private_key_exfiltration" -> 25
    [] OTHER -> 0

\* An entry of the log; step, tool and output are those of its details, which
\* have a tool and an output when a tool succeeded.  Step 0 stands for none.
Entry(subject, action, severity, step, tool, output) ==
  [subject |-> subject, action |-> action, severity |-> severity,
   step |-> step, tool |-> tool, output |-> output]
Event(subject, action, step) ==
  Entry(subject, action, DEFAULT_WEIGHTS(action), step, None, None)

\* Mutant: the severity of the entry as it stands.
WeightAsGiven(e) == e.severity

\* A severity never counts for less than its action's default.
Weight(e) == LET least == DEFAULT_WEIGHTS(e.action)
             IN IF e.severity > least THEN e.severity ELSE least

Score(entries, a) ==
  FoldLeft(LAMBDA sum, e : IF e.subject = a THEN sum + Weight(e) ELSE sum, 0, entries)

---------------------------------------------------------------------------
\* The state the gateway keeps, changed by a tool and by the replay of the log.

Fresh ==
  [boxes |-> [s \in Seedboxes |-> None], donations |-> <<>>, proofs |-> <<>>,
   tasks |-> <<>>, files |-> [f \in FileIds |-> None], audited |-> {}, step |-> 0]

Registered(m) == {s \in Seedboxes : m.boxes[s] # None}
get(m, task) ==
  LET found == {i \in DOMAIN m.tasks : m.tasks[i].task = task}
  IN IF found = {} THEN None ELSE m.tasks[CHOOSE i \in found : \A j \in found : j <= i]

index_file(m, out) == [m EXCEPT !.files[out.file] = out.box]

\* What a tool puts into the state, as its output says.
Applied(m, tool, out) ==
  CASE tool = "register_seedbox" ->
         [m EXCEPT !.boxes[out.box] = [owner |-> out.owner, fake |-> out.fake]]
    [] tool = "broadcast_seedbox_donation" -> [m EXCEPT !.donations = Append(@, out)]
    [] tool = "submit_seedbox_proof" -> [m EXCEPT !.proofs = Append(@, out)]
    [] tool \in {"submit_atomic_microtask", "verify_atomic_microtask"} ->
         [m EXCEPT !.tasks = Append(@, out)]
    [] tool = "index_seedbox_file" -> index_file(m, out)
    [] OTHER -> m

\* Mutant: a replayed donation takes the place of those to its seedbox.
ReplayByBox(m, e) ==
  IF e.action = "seedbox_missing_proof" /\ e.output # None
  THEN [m EXCEPT !.audited = @ \cup {e.output.box}]
  ELSE IF e.action # "tool_execution_success" \/ e.output = None THEN m
  ELSE IF e.tool = "broadcast_seedbox_donation"
  THEN [m EXCEPT !.donations =
          Append(SelectSeq(@, LAMBDA d : d.box # e.output.box), e.output)]
  ELSE Applied(m, e.tool, e.output)

Without(list, id) ==
  FoldLeft(LAMBDA others, d : IF d.id = id THEN others ELSE Append(others, d),
           <<>>, list)

\* A seedbox the log has not named yet is an error, and the entry is skipped;
\* a donation or proof replaces that of the same id.
replay_log_entry(m, e) ==
  IF e.action = "seedbox_missing_proof" /\ e.output # None
  THEN [m EXCEPT !.audited = @ \cup {e.output.box}]
  ELSE IF e.action # "tool_execution_success" \/ e.output = None THEN m
  ELSE IF e.tool # "register_seedbox" /\ e.output.box \notin Registered(m) THEN m
  ELSE Applied(CASE e.tool = "broadcast_seedbox_donation" ->
                      [m EXCEPT !.donations = Without(@, e.output.id)]
                 [] e.tool = "submit_seedbox_proof" ->
                      [m EXCEPT !.proofs = Without(@, e.output.id)]
                 [] OTHER -> m,
               e.tool, e.output)

reload_runtime_state(entries) ==
  LET Later(m, e) == [m EXCEPT !.step = IF e.step > @ THEN e.step ELSE @]
  IN FoldLeft(LAMBDA m, e : replay_log_entry(Later(m, e), e), Fresh, entries)

---------------------------------------------------------------------------
\* What a tool gives for a request of agent a: its output, or None when it
\* raises.  The id of a donation or proof is the caller's or else the clock's,
\* here the number of the request.

OutputOf(m, a, r, now) ==
  IF ~ r.complete THEN None ELSE
  CASE r.tool = "register_seedbox" ->
         [box |-> r.box, owner |-> Named(r.who, a), fake |-> r.value]
    [] r.tool = "broadcast_seedbox_donation" /\ r.box \in Registered(m) ->
         [box |-> r.box, id |-> <<Named(r.id, now)>>, donor |-> Named(r.who, a),
          recipient |-> m.boxes[r.box].owner, fake |-> m.boxes[r.box].fake]
    [] r.tool = "submit_seedbox_proof" /\ r.box \in Registered(m) ->
         [box |-> r.box, id |-> <<Named(r.id, now)>>]
    [] r.tool = "submit_atomic_microtask" /\ r.box \in Registered(m) ->
         [box |-> r.box, task |-> r.id, prover |-> Named(r.who, a), hash |-> r.value,
          verified |-> FALSE]
    [] r.tool = "verify_atomic_microtask" /\ get(m, r.id) # None ->
         LET held == get(m, r.id) IN
         IF held.hash = r.value
         THEN [box |-> held.box, task |-> held.task, prover |-> held.prover,
               hash |-> held.hash, verified |-> TRUE]
         ELSE None
    [] r.tool = "index_seedbox_file" /\ r.box \in Registered(m) ->
         [box |-> r.box, file |-> r.id]
    [] r.tool \in {"send_message", "summarize_payload", "list_seedbox_files",
                   "search_seedbox_files", "report_security_event"} -> [box |-> None]
    [] r.tool = "pick_random_seedbox_file" /\ \E f \in FileIds : m.files[f] # None ->
         [box |-> None]
    [] OTHER -> None

\* A task claimed, verified or rejected is written by the tool itself.
TaskEvents(m, r, out) ==
  CASE r.tool \in {"submit_atomic_microtask", "verify_atomic_microtask"} /\ out # None ->
         <<Event(out.prover, IF out.verified THEN "atomic_microtask_verified"
                             ELSE "atomic_microtask_claimed", m.step)>>
    [] r.tool = "verify_atomic_microtask" /\ out = None /\ get(m, r.id) # None ->
         <<Event(get(m, r.id).prover, "atomic_microtask_rejected", m.step)>>
    [] OTHER -> <<>>

\* Hands and the baseline executor: may the tool run, and is that an attack.
Runs(by, r) ==
  IF by = "defended"
  THEN r.tool \in allowed_tools /\ risk_value(r.tool) <= MaxRisk /\ r.complete
  ELSE r.tool \in allowed_tools \cup Dangerous
Authorized(by, r) ==
  by = "defended" /\ r.tool \in allowed_tools /\ risk_value(r.tool) <= MaxRisk

\* The output of a tool behind that decision.
Ran(by, m, a, r, now) ==
  IF Runs(by, r) /\ r.tool \notin Dangerous THEN OutputOf(m, a, r, now) ELSE None

DonationEvents(a, out, step) ==
  <<Event(a, "seedbox_donation_broadcast", step)>>
    \o IF out.donor = out.recipient
       THEN <<Event(a, "wash_trade_detected", step)>> ELSE <<>>

\* What is written after the tool (_record_result).
SuccessEvents(m, a, r, out) ==
  <<Entry(a, "tool_execution_success", 0, 0, r.tool, out)>>
    \o CASE r.tool = "register_seedbox" /\ r.value = TRUE ->
              <<Event(a, "fake_seedbox_created", m.step)>>
         [] r.tool = "broadcast_seedbox_donation" -> DonationEvents(a, out, m.step)
         [] r.tool = "submit_seedbox_proof" -> <<Event(a, "seedbox_proof_of_service", 0)>>
         [] OTHER -> <<>>

record_result(by, m, a, r, out) ==
  IF r.tool \in Dangerous /\ Runs(by, r)
  THEN <<Event(a, IF r.tool = "exfiltrate_private_key" THEN "private_key_exfiltration"
                  ELSE "unauthorized_tool_execution", m.step)>>
  ELSE IF Runs(by, r) /\ out # None THEN SuccessEvents(m, a, r, out)
  ELSE IF Authorized(by, r) /\ ~ r.complete THEN <<>>
  ELSE <<Event(a, "unauthorized_tool_request", m.step)>>

---------------------------------------------------------------------------
\* Effects.

Clear == [do |-> "clear"]
AddLog == [do |-> "add"]
Scan == <<Clear, AddLog>>
Decide(r, now) == [do |-> "decide", request |-> r, now |-> now]
Write(e) == [do |-> "write", entry |-> e]
Writes(events) == [i \in DOMAIN events |-> Write(events[i])]
Audit(boxes, count) == [do |-> "audit", boxes |-> boxes, count |-> count]
Charge(box, owner) == [do |-> "charge", box |-> box, owner |-> owner]

Init ==
  /\ \E start \in Starts : mode = start[1] /\ log = start[2] /\ requests = start[3]
  /\ mem = reload_runtime_state(log)
  /\ scores = [a \in Agents |-> 0] /\ banned = {}
  /\ doing = [c \in Clients |-> <<>>] /\ plan = [c \in Clients |-> <<>>]
  /\ mishaps = 0 /\ disturbed = FALSE

Idle(c) == doing[c] = <<>>

\* Two of one id: the gateway keeps both, a reload the later one.
Reused(r, now) ==
  LET Has(list) == \E i \in DOMAIN list : list[i].id = <<Named(r.id, now)>> IN
  \/ r.tool = "broadcast_seedbox_donation" /\ Has(mem.donations)
  \/ r.tool = "submit_seedbox_proof" /\ Has(mem.proofs)

\* A reload takes such a report for an audit or a tool that succeeded, or goes
\* on from its step; the gateway it was sent to does not.
Restored(e) ==
  e.output # None /\ e.action \in {"seedbox_missing_proof", "tool_execution_success"}
Misleads(e) == Restored(e) \/ e.step > mem.step

Overlaps == \E d \in Clients : ~ Idle(d)

\* A request arrives and its thread begins; all but queries count the step.
Arrives(c, steps, effects) ==
  /\ Idle(c) /\ requests < MaxRequests /\ requests' = requests + 1
  /\ Overlaps => ~ disturbed     \* a bound: once between two restarts
  /\ mem' = [mem EXCEPT !.step = @ + steps]
  /\ doing' = [doing EXCEPT ![c] = effects]
  /\ UNCHANGED <<mode, log, mishaps>>

\* Mutant: the scan starts from the scores there are.
KeepScores == scores' = scores /\ banned' = banned

\* scan_log begins with no scores and no bans.
ClearScores == scores' = [a \in Agents |-> 0] /\ banned' = {}

\* handle_tool_call, sent by a tool that has more to send after it.
Send(c, r, more) ==
  /\ Arrives(c, 1, <<AddLog, Decide(r, requests + 1)>>) /\ ClearScores
  /\ plan' = [plan EXCEPT ![c] = more]
  /\ disturbed' = (disturbed \/ Overlaps \/ Reused(r, requests + 1))

ToolCall(c, r) == plan[c] = <<>> /\ Send(c, r, <<>>)

\* A text in natural language asks for one tool, and nothing is sent before
\* it names all that the tool needs.
AgenticTools ==
  allowed_tools \ {"summarize_payload", "report_security_event"}

handle_agentic_request(c, r) ==
  /\ plan[c] = <<>> /\ r.tool \in AgenticTools /\ r.complete
  /\ Send(c, r, <<>>)

\* delftclaw_buy_community_seedbox registers what it bought and proves it;
\* delftclaw_import_community_file_catalog indexes the files one by one.
BuyCommunitySeedbox(c, s) ==
  /\ plan[c] = <<>>
  /\ Send(c, Request("register_seedbox", TRUE, s, None, FALSE),
          <<Request("submit_seedbox_proof", TRUE, s, None, None)>>)

ImportCatalog(c, s) ==
  /\ plan[c] = <<>> /\ FileIds # {}
  /\ LET Row(f) == Request("index_seedbox_file", TRUE, s, f, None)
         rows == [i \in 1..Cardinality(FileIds) |-> Row(SetToSeq(FileIds)[i])]
     IN Send(c, Head(rows), Tail(rows))

\* The next request of a tool goes out whatever the one before came to.
SendNext(c) == plan[c] # <<>> /\ Send(c, Head(plan[c]), Tail(plan[c]))

\* handle_security_report writes what it is given.
SecurityReport(c, e) ==
  /\ plan[c] = <<>>
  /\ Arrives(c, 1, <<Write(e)>> \o Scan)
  /\ disturbed' = (disturbed \/ Overlaps \/ Misleads(e))
  /\ UNCHANGED <<scores, banned, plan>>

AuditSeedboxes(c) ==
  /\ plan[c] = <<>>
  /\ Arrives(c, 1, <<Audit(SetToSeq(Registered(mem)), Cardinality(Registered(mem)))>>
                    \o Scan)
  /\ disturbed' = (disturbed \/ Overlaps)
  /\ UNCHANGED <<scores, banned, plan>>

\* /metrics and /reputation scan the log too.
Query(c) ==
  /\ Arrives(c, 0, <<AddLog>>) /\ ClearScores
  /\ disturbed' = (disturbed \/ Overlaps)
  /\ UNCHANGED plan

---------------------------------------------------------------------------
\* One effect of a request.

Doing(c, what) == ~ Idle(c) /\ Head(doing[c]).do = what
Then(c, effects) == doing' = [doing EXCEPT ![c] = effects]
Done(c) == Then(c, Tail(doing[c]))

ScanAgain(c) ==
  /\ Doing(c, "clear") /\ Done(c) /\ ClearScores
  /\ UNCHANGED <<mode, log, mem, plan, requests, mishaps, disturbed>>

\* The weights of the log are added to scores another scan may have added to.
ScanLines(c) ==
  /\ Doing(c, "add") /\ Done(c)
  /\ scores' = [a \in Agents |-> scores[a] + Score(log, a)]
  /\ banned' = banned \cup {a \in Agents : scores'[a] >= BanThreshold}
  /\ UNCHANGED <<mode, log, mem, plan, requests, mishaps, disturbed>>

\* A banned subject gets its refusal.  Else the tool runs, which changes the
\* state first; what it and the gateway write about it follows.
DecideAndRun(c) ==
  /\ Doing(c, "decide")
  /\ LET subject == AgentOf[c]
         r == Head(doing[c]).request
         out == Ran(mode, mem, subject, r, Head(doing[c]).now)
         told == IF Runs(mode, r) THEN TaskEvents(mem, r, out) ELSE <<>>
     IN IF subject \in banned THEN Done(c) /\ UNCHANGED mem
        ELSE /\ mem' = IF out = None THEN mem ELSE Applied(mem, r.tool, out)
             /\ Then(c, Writes(told \o record_result(mode, mem, subject, r, out)) \o Scan)
  /\ UNCHANGED <<mode, log, scores, banned, plan, requests, mishaps, disturbed>>

\* Has donations, no proof, and was not charged for it.
Unproved(m, s) ==
  LET Names(list) == \E i \in DOMAIN list : list[i].box = s
  IN Names(m.donations) /\ ~ Names(m.proofs) /\ s \notin m.audited
MissingProof(owner, s, step) ==
  Entry(owner, "seedbox_missing_proof", 10, step, "audit", [box |-> s])

\* One seedbox of the audit: the check.  A seedbox registered meanwhile makes
\* the iteration raise.
AuditNext(c) ==
  /\ Doing(c, "audit")
  /\ LET e == Head(doing[c])
         box == Head(e.boxes)
         rest == <<Audit(Tail(e.boxes), e.count)>> \o Tail(doing[c])
     IN IF e.count # Cardinality(Registered(mem)) THEN Then(c, <<>>)
        ELSE IF e.boxes = <<>> THEN Done(c)
        ELSE IF Unproved(mem, box)
        THEN Then(c, <<Charge(box, mem.boxes[box].owner)>> \o rest)
        ELSE Then(c, rest)
  /\ UNCHANGED <<mode, log, mem, scores, banned, plan, requests, mishaps, disturbed>>

\* Mutant: an audit does not remember whom it charged.
AuditForgets(c) ==
  /\ Doing(c, "charge")
  /\ LET e == Head(doing[c]) IN
     Then(c, <<Write(MissingProof(e.owner, e.box, mem.step))>> \o Tail(doing[c]))
  /\ UNCHANGED <<mode, log, mem, scores, banned, plan, requests, mishaps, disturbed>>

\* Then it remembers the seedbox, without a lock and whoever did meanwhile.
ChargeOwner(c) ==
  /\ Doing(c, "charge")
  /\ LET e == Head(doing[c]) IN
     /\ mem' = [mem EXCEPT !.audited = @ \cup {e.box}]
     /\ Then(c, <<Write(MissingProof(e.owner, e.box, mem.step))>> \o Tail(doing[c]))
  /\ UNCHANGED <<mode, log, scores, banned, plan, requests, mishaps, disturbed>>

WriteEntry(c) ==
  /\ Doing(c, "write") /\ Done(c)
  /\ log' = Append(log, Head(doing[c]).entry)
  /\ UNCHANGED <<mode, mem, scores, banned, plan, requests, mishaps, disturbed>>

\* The append raises: the request ends, the state it changed stays.
WriteFails(c) ==
  /\ Doing(c, "write") /\ mishaps < MaxMishaps /\ mishaps' = mishaps + 1
  /\ Then(c, <<>>)
  /\ plan' = [plan EXCEPT ![c] = <<>>]
  /\ disturbed' = TRUE
  /\ UNCHANGED <<mode, log, mem, scores, banned, requests>>

\* The gateway stops and starts: all requests are gone, the log is replayed.
Restart ==
  /\ mishaps < MaxMishaps /\ mishaps' = mishaps + 1
  /\ mem' = reload_runtime_state(log)
  /\ ClearScores
  /\ doing' = [c \in Clients |-> <<>>] /\ plan' = [c \in Clients |-> <<>>]
  /\ disturbed' = FALSE
  /\ UNCHANGED <<mode, log, requests>>

Arrival(c) ==
  \/ \E r \in Requests : ToolCall(c, r) \/ handle_agentic_request(c, r)
  \/ \E s \in Seedboxes : BuyCommunitySeedbox(c, s)
  \/ \E s \in Seedboxes : ImportCatalog(c, s)
  \/ SendNext(c)
  \/ \E e \in Reports : SecurityReport(c, e)
  \/ AuditSeedboxes(c)
  \/ Query(c)

Effect(c) ==
  \/ ScanAgain(c) \/ ScanLines(c) \/ DecideAndRun(c) \/ WriteEntry(c)
  \/ AuditNext(c) \/ ChargeOwner(c)

Next == (\E c \in Clients : Arrival(c) \/ Effect(c) \/ WriteFails(c)) \/ Restart

Spec == Init /\ [][Next]_vars

---------------------------------------------------------------------------
\* Properties.

\* With one request at a time a subject is refused if and only if the log
\* holds entries against it that weigh BanThreshold or more: the shared bans
\* are those of the whole log when handle_tool_call asks for them, after
\* restarts, failed appends and requests of others alike.
VerdictFromLog ==
  \A c \in Clients : ~ disturbed /\ Doing(c, "decide") =>
    (AgentOf[c] \in banned) = (Score(log, AgentOf[c]) >= BanThreshold)

\* With one request at a time, no failed append, ids of donations and proofs
\* used once and no report in the guise of a gateway's own entries, a gateway
\* that started now would know what this one knows: every tool that changes
\* the state is replayed from its entry to the same state, and the step it
\* would go on from is none of a later entry.
ReloadReproduces ==
  ~ disturbed /\ (\A c \in Clients : Idle(c)) =>
    LET again == reload_runtime_state(log) IN
    /\ [again EXCEPT !.step = mem.step] = mem
    /\ again.step <= mem.step

\* Once the log holds that a seedbox's owner was charged for a missing proof,
\* no audit makes up its mind to charge the seedbox again, after restarts and
\* failed appends too.  Audits that overlap may all have checked before, and
\* each of those charges it (missing_proof_audits, gateway.py:229-232).
Charging(c, s) ==
  LET Charges(e) == \/ e.do = "charge" /\ e.box = s
                    \/ e.do = "write" /\ IsAudit(e.entry) /\ e.entry.output.box = s
  IN \E i \in DOMAIN doing[c] : Charges(doing[c][i])
ChargedFor(s) == \E i \in DOMAIN log : IsAudit(log[i]) /\ log[i].output.box = s
NoFurtherCharge ==
  [][\A c \in Clients, s \in Seedboxes :
       ChargedFor(s) /\ Charging(c, s)' => Charging(c, s)]_vars

\* No entry, and no report of whatever severity, takes weight off a subject:
\* who is banned by the log stays banned.
ScoresNeverFall ==
  [][log' # log => \A a \in Agents : Score(log', a) >= Score(log, a)]_vars
=============================================================================

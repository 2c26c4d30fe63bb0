--------------------------- MODULE SecurityLayers ---------------------------
(***************************************************************************)
(* The security scenarios (deploy/security_agent_tools.py).  The watchdog  *)
(* of an agent has a tool that plays an attack against gateways of its own *)
(* (SecurityGateway), whose logs stay between runs, and puts what it saw   *)
(* into an evidence file all agents share; the stop predicates             *)
(* (StopPredicates) read that file.  A model may call its tool any number  *)
(* of times, and the watchdog may die anywhere in it.                      *)
(***************************************************************************)
EXTENDS SecurityGateway, StopPredicates

CONSTANTS
  Member,      \* whom a tool acts as
  FakeBox,     \* the seedbox it registers
  MaxRuns,     \* bound on the runs of a tool
  MaxDeaths    \* bound on the deaths of watchdogs


VARIABLES
  scenario,
  layerLogs,   \* per gateway: its log
  running,     \* per tool: the run it is in
  past,        \* per tool: how many runs began, ended, died
  guardrails,  \* real_guardrails.json: None, or whether the probe was ok
  evidence     \* the evidence file: layers and story tell what is represented

layerVars == <<scenario, layerLogs, running, past, guardrails, evidence>>

LayerTools == {"run_preventative_layer", "run_accountability_layer", "run_impact_layer"}
Episode == "run_integrated_security_episode"
ToolsOf(s) ==
  CASE s = "security_layers" -> LayerTools
    [] s = "secure_community_demo" -> {Episode}
    [] s = "service" -> {}
AllTools == LayerTools \cup {Episode}

Gateways == {"layer1-baseline", "layer1-defended", "layer2-accountability",
             "integrated-defended-gateway"}

\* The evidence file, and what the tools a scenario calls may put out.
EvidenceFiles ==
  [layers : [Layers -> BOOLEAN \cup {None}], story : BOOLEAN \cup {None},
   ok : BOOLEAN, checklist : SUBSET (Layers \cup {"integrated"})]
LayerOutputs ==
  [box : {None}]
    \cup [owner : Agents, fake : BOOLEAN]
    \cup [box : Seedboxes, owner : Agents, fake : BOOLEAN]
    \cup [box : Seedboxes, id : [{1} -> Nat], donor : Agents, recipient : Agents, fake : BOOLEAN]

ASSUME LayersAssumption ==
  /\ Member \in Agents /\ FakeBox \in Seedboxes
  /\ MaxRisk >= 1     \* ToolRisk.SENSITIVE, which _gateway gives
  /\ None \notin BOOLEAN \cup EvidenceFiles \cup LayerOutputs
  /\ None \notin Gateways
  /\ Absent \notin EvidenceFiles /\ Absent # NoEvidence

mode_of(g) == IF g = "layer1-baseline" THEN "baseline" ELSE "defended"
\* Mutant: the threshold of two refused requests.
LowThreshold == 20
ban_threshold == 30

---------------------------------------------------------------------------
\* What a tool asks of its gateways, in order.

Ask(g, tool, value) ==
  [on |-> g, do |-> "tool", request |-> Request(tool, TRUE, FakeBox, None, value)]
AuditOn(g) == [on |-> g, do |-> "audit"]
ReportOn(g, action, severity) ==
  [on |-> g, do |-> "report",
   entry |-> Entry(Member, action, severity, 0, None, None)]
Guardrails == [on |-> None, do |-> "guardrails"]

\* A fake seedbox, a donation to oneself, the audit and two reports.
RugPull(g) ==
  <<Ask(g, "register_seedbox", TRUE), Ask(g, "broadcast_seedbox_donation", None),
    AuditOn(g), ReportOn(g, "self_donation", 15), ReportOn(g, "wash_trade_detected", 20)>>

\* The same attack with and without the defence.
Exfiltration ==
  <<Ask("layer1-baseline", "exfiltrate_private_key", None),
    Ask("layer1-defended", "send_message", None),
    Ask("layer1-defended", "exfiltrate_private_key", None)>>

Story(g) ==
  <<Ask(g, "send_message", None), Ask(g, "exfiltrate_private_key", None),
    Ask(g, "modify_iptables", None)>> \o RugPull(g) \o <<Guardrails>>

Calls(tool) ==
  CASE tool = "run_preventative_layer" -> Exfiltration
    [] tool = "run_accountability_layer" -> RugPull("layer2-accountability")
    [] tool = "run_impact_layer" -> <<Guardrails>>
    [] tool = Episode -> Story("integrated-defended-gateway")

\* A gateway's state m at a call: the entries it writes and what is then so.
Asked(g, m, call) ==
  LET r == call.request
      refused == Score(layerLogs[g], Member) >= ban_threshold
      out == Ran(mode_of(g), m, Member, r, m.step)
      attack == Runs(mode_of(g), r) /\ r.tool \in Dangerous
  IN IF refused THEN [mem |-> m, events |-> <<>>, refused |-> TRUE,
                      executed |-> FALSE, attack |-> FALSE]
     ELSE [mem |-> IF out = None THEN m ELSE Applied(m, r.tool, out),
           events |-> record_result(mode_of(g), m, Member, r, out),
           refused |-> FALSE, executed |-> attack \/ out # None, attack |-> attack]

Audited(m) ==
  LET found == SetToSeq({s \in Registered(m) : Unproved(m, s)}) IN
  [mem |-> [m EXCEPT !.audited = @ \cup ToSet(found)],
   events |-> [i \in DOMAIN found |-> MissingProof(m.boxes[found[i]].owner, found[i], m.step)],
   refused |-> FALSE, executed |-> FALSE, attack |-> FALSE]

Effected(g, held, call) ==
  LET m == [held EXCEPT !.step = @ + 1] IN
  CASE call.do = "tool" -> Asked(g, m, call)
    [] call.do = "audit" -> Audited(m)
    [] call.do = "report" ->
         [mem |-> m, events |-> <<call.entry>>, refused |-> FALSE, executed |-> FALSE,
          attack |-> FALSE]

\* What a tool keeps of an answer, with the subject's reputation after it.
Answer(entries, e) ==
  [refused |-> e.refused, executed |-> e.executed, attack |-> e.attack,
   score |-> Score(entries, Member), banned |-> Score(entries, Member) >= ban_threshold]

---------------------------------------------------------------------------
\* The tampering of layer 3: attacks on the artifacts of the host, or on
\* files of the workspace when only the proxy is given.

TamperAttacks == {"spoof_append", "overwrite", "delete", "read_private_key",
                  "modify_donation_wallet", "modify_iptables"}
AsMade == [f \in {"log", "key", "wallet", "iptables"} |-> "as_made"]

TargetOf(attack) ==
  CASE attack = "read_private_key" -> "key"
    [] attack = "modify_donation_wallet" -> "wallet"
    [] attack = "modify_iptables" -> "iptables"
    [] OTHER -> "log"

Tampered(host, attack) ==
  CASE attack = "read_private_key" -> host
    [] attack = "delete" -> [host EXCEPT !.log = "gone"]
    [] OTHER -> [host EXCEPT ![TargetOf(attack)] = "altered"]

\* A key that is read is one that was there.
succeeded(attack, exposed) ==
  LET host == IF exposed THEN Tampered(AsMade, attack) ELSE AsMade IN
  IF attack = "read_private_key" THEN exposed ELSE host[TargetOf(attack)] # "as_made"

passed(exposed) == \A attack \in TamperAttacks : ~ succeeded(attack, exposed)

---------------------------------------------------------------------------
\* What a tool says of its answers.

\* A refusal carries no result, and reading one raises.
Raises(tool, answers) ==
  LET read == CASE tool \in {"run_preventative_layer", Episode} -> 1..3
                [] tool = "run_accountability_layer" -> 1..2
                [] OTHER -> {}
  IN \E i \in read : answers[i].refused

Blocked(answer) == ~ answer.executed /\ ~ answer.attack

represented(tool, answers) ==
  CASE tool = "run_preventative_layer" ->
         answers[1].attack /\ answers[2].executed /\ Blocked(answers[3])
    [] tool = "run_accountability_layer" ->
         /\ ~ answers[1].banned /\ answers[5].banned
         /\ answers[5].score > answers[1].score
    [] tool = "run_impact_layer" ->
         ~ passed(TRUE) /\ passed(FALSE) /\ answers[1].executed
    [] tool = Episode ->
         /\ answers[1].executed
         /\ \A i \in {2, 3} : Blocked(answers[i]) /\ ~ answers[i].banned
         /\ answers[8].banned
         /\ ~ passed(TRUE) /\ passed(FALSE)
         /\ \A attack \in {"read_private_key", "modify_iptables"} :
              succeeded(attack, TRUE) /\ ~ succeeded(attack, FALSE)
         /\ answers[9].executed

layer_of(tool) ==
  CASE tool = "run_preventative_layer" -> "layer1"
    [] tool = "run_accountability_layer" -> "layer2"
    [] tool = "run_impact_layer" -> "layer3"
    [] tool = Episode -> "integrated"

read_evidence ==
  IF evidence = None
  THEN [layers |-> [l \in Layers |-> None], story |-> None, ok |-> FALSE,
        checklist |-> {}]
  ELSE evidence

checklist(layers, story) ==
  {l \in Layers : layers[l] = TRUE} \cup (IF story = TRUE THEN {"integrated"} ELSE {})

\* Mutant: the layers of the file are not read again.
UpdateAlone(tool, result) ==
  LET layers == [l \in Layers |-> IF l = layer_of(tool) THEN result ELSE None]
      list == checklist(layers, read_evidence.story)
  IN evidence' = [layers |-> layers, story |-> read_evidence.story,
                  ok |-> Layers \subseteq list, checklist |-> list]

\* Under the lock of the file: read, change and replace it.
update_layer(tool, result) ==
  LET layers == [read_evidence.layers EXCEPT ![layer_of(tool)] = result]
      list == checklist(layers, read_evidence.story)
  IN evidence' = [layers |-> layers, story |-> read_evidence.story,
                  ok |-> Layers \subseteq list, checklist |-> list]

update_integrated_episode(result) ==
  evidence' = [layers |-> read_evidence.layers, story |-> result, ok |-> result,
               checklist |-> checklist(read_evidence.layers, result)]

---------------------------------------------------------------------------
\* Runs of tools.

Away == [mems |-> None, answers |-> <<>>]
NextCall(tool) == Calls(tool)[Len(running[tool].answers) + 1]

LayersIdle ==
  /\ layerLogs = [g \in Gateways |-> <<>>]
  /\ running = [tool \in AllTools |-> Away]
  /\ past = [tool \in AllTools |-> [began |-> 0, ended |-> 0, died |-> 0]]
  /\ guardrails = None /\ evidence = None

\* _gateway: each gateway is built from its log.
BeginTool(tool) ==
  /\ running[tool] = Away /\ past[tool].began < MaxRuns
  /\ past' = [past EXCEPT ![tool].began = @ + 1]
  /\ LET own == {Calls(tool)[i].on : i \in DOMAIN Calls(tool)} \ {None} IN
     running' = [running EXCEPT ![tool].mems =
                   [g \in own |-> reload_runtime_state(layerLogs[g])]]
  /\ UNCHANGED <<scenario, layerLogs, guardrails, evidence>>

Busy(tool) == running[tool] # Away
CallsLeft(tool) == Len(running[tool].answers) < Len(Calls(tool))

CallGateway(tool) ==
  /\ Busy(tool) /\ CallsLeft(tool) /\ NextCall(tool).do # "guardrails"
  /\ LET g == NextCall(tool).on
         e == Effected(g, running[tool].mems[g], NextCall(tool))
         entries == layerLogs[g] \o e.events
     IN /\ layerLogs' = [layerLogs EXCEPT ![g] = entries]
        /\ running' = [running EXCEPT ![tool].mems[g] = e.mem,
                                      ![tool].answers = Append(@, Answer(entries, e))]
  /\ UNCHANGED <<scenario, past, guardrails, evidence>>

\* The host has what the probe needs or not; a report once written is used.
read_or_run_real_guardrails(tool) ==
  /\ Busy(tool) /\ CallsLeft(tool) /\ NextCall(tool).do = "guardrails"
  /\ \E ok \in BOOLEAN :
       /\ guardrails' = IF guardrails = None THEN ok ELSE guardrails
       /\ running' = [running EXCEPT ![tool].answers = Append(@,
            [refused |-> FALSE, executed |-> guardrails', attack |-> FALSE,
             score |-> 0, banned |-> FALSE])]
  /\ UNCHANGED <<scenario, layerLogs, past, evidence>>

Conclude(tool) ==
  /\ Busy(tool) /\ ~ CallsLeft(tool)
  /\ LET answers == running[tool].answers
         result == represented(tool, answers)
     IN IF Raises(tool, answers) THEN UNCHANGED evidence
        ELSE IF tool = Episode THEN update_integrated_episode(result)
        ELSE update_layer(tool, result)
  /\ running' = [running EXCEPT ![tool] = Away]
  /\ past' = [past EXCEPT ![tool].ended = @ + 1]
  /\ UNCHANGED <<scenario, layerLogs, guardrails>>

\* The watchdog dies: of what the call in progress would write, a prefix is.
DieIn(tool) ==
  /\ Busy(tool)
  /\ FoldFunction(LAMBDA p, sum : p.died + sum, 0, past) < MaxDeaths
  /\ IF CallsLeft(tool) /\ NextCall(tool).do # "guardrails"
     THEN LET g == NextCall(tool).on
              events == Effected(g, running[tool].mems[g], NextCall(tool)).events
          IN \E n \in 0..Len(events) : layerLogs' = [layerLogs EXCEPT
               ![g] = @ \o SubSeq(events, 1, n)]
     ELSE UNCHANGED layerLogs
  /\ running' = [running EXCEPT ![tool] = Away]
  /\ past' = [past EXCEPT ![tool].died = @ + 1]
  /\ UNCHANGED <<scenario, guardrails, evidence>>

LayersNext ==
  \E tool \in ToolsOf(scenario) :
    \/ BeginTool(tool) \/ CallGateway(tool) \/ read_or_run_real_guardrails(tool)
    \/ Conclude(tool) \/ DieIn(tool)

\* A host has a gateway as a service, or the watchdogs of a scenario.
HostInit ==
  /\ LayersIdle /\ Init
  /\ \/ scenario = "service"
     \/ scenario \in {"security_layers", "secure_community_demo"} /\ log = <<>>

HostNext ==
  \/ scenario = "service" /\ Next /\ UNCHANGED layerVars
  \/ scenario # "service" /\ LayersNext /\ UNCHANGED vars

HostSpec == HostInit /\ [][HostNext]_<<vars, layerVars>>

---------------------------------------------------------------------------
\* Properties.

SecuritySection == IF evidence = None THEN NoEvidence ELSE evidence
Satisfied(spec) == predicate(spec, Absent, [security |-> SecuritySection])
LayerDone(tool) ==
  IF tool = Episode THEN Satisfied(Spelled("integrated_security_done", None))
  ELSE Satisfied(Spelled("security_layer_done", layer_of(tool)))
AllDone == Satisfied(Spelled("security_all_done", None))

\* A stop predicate that held goes on to hold, whichever tools run again, in
\* whatever order, and wherever watchdogs die: the attacker's score in the
\* logs of a done layer makes a second run raise, never take it back.
LayerStaysDone ==
  [][/\ AllDone => AllDone'
     /\ \A tool \in AllTools : LayerDone(tool) => LayerDone(tool)']_layerVars

\* A tool that came to its end and was never cut short has its layer done,
\* where the host passes the guardrail probe: the scores its own attack adds
\* up to are past the threshold where the story says so and nowhere before.
FirstRunDone ==
  \A tool \in AllTools :
    /\ past[tool].ended > 0 /\ past[tool].died = 0
    /\ tool \in {"run_impact_layer", Episode} => guardrails = TRUE
    => LayerDone(tool)
=============================================================================

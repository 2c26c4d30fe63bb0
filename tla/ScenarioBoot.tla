---------------------------- MODULE ScenarioBoot ----------------------------
(***************************************************************************)
(* How a scenario becomes a network: what the parsers of scenario files    *)
(* (deploy/scenario.py) and mission files (deploy/mission.py) let pass,    *)
(* and what deploy/scenario_boot.py makes of it, the environment of each   *)
(* agent's units and the manifest handed to all.                           *)
(*                                                                         *)
(* A scenario is [name, watchdog, agents], the agents in the order of the  *)
(* file; a mission is a document as in NetworkManifest, where the cells of *)
(* a line of the intent are the names in it between backticks.             *)
(***************************************************************************)
EXTENDS NetworkManifest, StopPredicates

CONSTANTS
  ToolNames,        \* TOOL_NAMES
  ScenarioNames,    \* letters, digits, underscores and hyphens
  ContentCommunity  \* protocol/examples/content_community.md

ALLOWED_ROLES == {"seedbox", "seeker", "general"}
MISSION_SECTIONS == <<"Identity", "Intent", "Budget", "Stop">>

---------------------------------------------------------------------------
\* parse_mission.

_parse_role(kv) ==
  /\ {"name", "role"} \subseteq DOMAIN kv
  /\ kv["name"] \in Names /\ kv["role"] \in ALLOWED_ROLES

\* No tool by its name, and no list of more than two items.
_check_intent_has_no_recipe(lines) ==
  /\ \A i \in DOMAIN lines : \A k \in DOMAIN lines[i].cells :
       lines[i].cells[k] \notin ToolNames
  /\ \A i, j, k \in DOMAIN lines :
       i < j /\ j < k => \E n \in {i, j, k} : lines[n].kind \in {"text", "row", "rule"}

_parse_budget(kv) ==
  /\ {"max_sats_outbound", "max_total_turns"} \subseteq DOMAIN kv
  /\ kv["max_sats_outbound"] \in Nat /\ kv["max_total_turns"] \in Nat \ {0}

_parse_stop(kv) == "predicate" \in DOMAIN kv /\ Resolves(kv["predicate"])

parse_mission(doc) ==
  /\ _check_required_sections(doc, MISSION_SECTIONS)
  /\ _parse_role(Kv(doc, "Identity"))
  /\ Body(doc, "Intent") # <<>>
  /\ _check_intent_has_no_recipe(Body(doc, "Intent"))
  /\ _parse_budget(Kv(doc, "Budget"))
  /\ _parse_stop(Kv(doc, "Stop"))

---------------------------------------------------------------------------
\* parse_scenario.

_port(n) == Within(n, 1024, 65535)

WatchdogPolicy ==
  [{"interval_s", "max_iterations_per_turn", "max_total_turns", "max_wall_clock_s"}
     -> Int]

\* Port 0 stands for no log server.
_parse_agent(a) ==
  /\ _port(a.ipv8_port) /\ _port(a.mcp_port)
  /\ a.redteam_port = 0 \/ _port(a.redteam_port)
  /\ parse_mission(a.mission)
  /\ Resolves(a.stop_predicate)
  /\ a.initial_balance_sats \in Nat

\* Ports are compared by their use: what the watchdog binds, 1000 above the
\* ipv8_port, is not looked at, nor one agent's mcp_port against another's
\* redteam_port.  The name need not be snake case.
parse_scenario(s) ==
  /\ s.name \in ScenarioNames
  /\ s.watchdog \in WatchdogPolicy
  /\ s.agents # <<>>
  /\ \A i \in DOMAIN s.agents : LET a == s.agents[i] IN
       /\ _parse_agent(a)
       /\ a.ipv8_port # a.mcp_port
       /\ a.redteam_port \notin {a.ipv8_port, a.mcp_port}
       /\ \A j \in DOMAIN s.agents \ {i} : LET b == s.agents[j] IN
            /\ a.name # b.name
            /\ a.ipv8_port # b.ipv8_port /\ a.mcp_port # b.mcp_port
            /\ a.redteam_port # 0 => a.redteam_port # b.redteam_port
       /\ \A p \in DOMAIN a.peers :
            \E j \in DOMAIN s.agents \ {i} : s.agents[j].name = a.peers[p]

---------------------------------------------------------------------------
\* scenario_boot.

\* The agent that most others name as a peer, the first of them in the file.
_pick_genesis(s) ==
  LET Naming(i, j) == {p \in DOMAIN s.agents[j].peers : s.agents[j].peers[p] = s.agents[i].name}
      refs(i) == Cardinality(UNION {{j} \X Naming(i, j) : j \in DOMAIN s.agents})
  IN  CHOOSE i \in DOMAIN s.agents :
        \A j \in DOMAIN s.agents : refs(i) > refs(j) \/ (refs(i) = refs(j) /\ i <= j)

_default_overlay_hashes(s) == s.agents[_pick_genesis(s)].publish_overlays

\* Only the first overlay is published at boot; an agent with none gets the
\* content community.  Every other agent with a log server is pulled from.
_instance_env_contents(s, i) ==
  LET a == s.agents[i]
      Others == {j \in DOMAIN s.agents \ {i} : s.agents[j].redteam_port # 0}
  IN [PUBLISH_OVERLAY |-> IF a.publish_overlays # <<>> THEN a.publish_overlays[1]
                          ELSE ContentCommunity,
      PEER_LOG_URLS |-> {s.agents[j].redteam_port : j \in Others},
      INITIAL_BALANCE_SATS |-> a.initial_balance_sats,
      WATCHDOG_DRIVER |-> IF s.name \in {"security_layers", "secure_community_demo"}
                          THEN "direct" ELSE "configured"]

Line(kind, cells) == [kind |-> kind, cells |-> cells]
Section(name, lines) == [name |-> name, lines |-> lines]

\* coords: what the genesis agent says of itself.
IdentityLines(s) ==
  <<Line("key", <<"name", s.name>>),
    Line("key", <<"version", "1.0.0">>),
    Line("key", <<"description", "generated">>)>>

AdmissionLines(coords) ==
  <<Line("key", <<"gatekeeper_address", coords.wallet_address>>),
    Line("key", <<"min_sats", 10000>>),
    Line("key", <<"min_confirmations", 0>>),
    Line("key", <<"bootstrap_cap_sats", 100000>>),
    Line("key", <<"max_agents_per_seedbox", 3>>),
    Line("key", <<"seedbox_cost_sats", 20000>>)>>

PeerLines(coords) ==
  <<Line("row", <<"host", "port", "pubkey_hex">>), Line("rule", <<>>),
    Line("row", <<coords.host, coords.port, coords.pubkey_hex>>)>>

OverlayLines(hashes) ==
  IF hashes # <<>> THEN [i \in DOMAIN hashes |-> Line("sha1", hashes[i])]
  ELSE <<Line("text", <<>>)>>

_build_manifest_md(s, coords, hashes) ==
  <<Section("Identity", IdentityLines(s)),
    Section("Admission", AdmissionLines(coords)),
    Section("GenesisPeers", PeerLines(coords)),
    Section("DefaultOverlays", OverlayLines(hashes))>>
=============================================================================

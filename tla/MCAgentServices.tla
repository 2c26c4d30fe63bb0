-------------------------- MODULE MCAgentServices --------------------------
(***************************************************************************)
(* One agent m and two gatekeepers; g serves the overlay echo.             *)
(***************************************************************************)
EXTENDS AgentServices, ScenarioBoot, MCEcho

CONSTANTS m, g, h, manifest

MCNodes == {m, g, h}

\* The scenario the network is booted from: m and h name g as their peer.
MCMission ==
  <<Section("Identity", <<Line("key", <<"name", "claw">>), Line("key", <<"role", "seeker">>)>>),
    Section("Intent", <<Line("text", <<>>), Line("step", <<>>), Line("step", <<>>)>>),
    Section("Budget", <<Line("key", <<"max_sats_outbound", 0>>),
                        Line("key", <<"max_total_turns", 1>>)>>),
    Section("Stop", <<Line("key", <<"predicate", Spelled("never", Absent)>>)>>)>>

MCAgent(name, port, overlays, peers) ==
  [name |-> name, ipv8_port |-> port, mcp_port |-> port + 1, redteam_port |-> port + 2,
   publish_overlays |-> overlays, mission |-> MCMission,
   stop_predicate |-> Spelled("never", Absent), peers |-> peers,
   initial_balance_sats |-> 100000]
MCWatchdog == [key \in {"interval_s", "max_iterations_per_turn", "max_total_turns",
                        "max_wall_clock_s"} |-> 60]
MCScenario(name, overlays) ==
  [name |-> name, watchdog |-> MCWatchdog,
   agents |-> <<MCAgent(m, 8090, <<>>, <<g>>), MCAgent(g, 8190, overlays, <<>>),
                MCAgent(h, 8290, <<>>, <<g>>)>>]
MCCoords == [wallet_address |-> g, host |-> "127.0.0.1", port |-> 8190, pubkey_hex |-> g]
MCBuilt(scenario) ==
  _build_manifest_md(scenario, MCCoords, _default_overlay_hashes(scenario))
MCDocument == MCBuilt(MCScenario("claw", <<echo>>))

\* scenario_boot takes the agent named most for genesis; of the scenarios that
\* parse, those with a name in snake case and no overlay twice get a manifest
\* that parses; and of a genesis agent's overlays only the first is published.
ASSUME BuiltManifests ==
  \A name \in {"claw", "Claw-2"}, overlays \in {<<>>, <<echo>>, <<echo, echo>>, <<echo, broken>>} :
    LET s == MCScenario(name, overlays) IN
    /\ parse_scenario(s)
    /\ _pick_genesis(s) = 2
    /\ Parses(MCBuilt(s)) <=> name = "claw" /\ overlays # <<echo, echo>>
    /\ Parses(MCBuilt(s)) => parse_manifest(MCBuilt(s)).default_overlays = overlays
    /\ _instance_env_contents(s, 2).PUBLISH_OVERLAY
         = IF overlays = <<>> THEN ContentCommunity ELSE echo
    /\ _instance_env_contents(s, 1).PEER_LOG_URLS = {8192, 8292}

\* What load_manifest must not take: a section missing, or twice; a cap under
\* the minimum; a reserved port; one peer twice; one overlay twice.
With(doc, i, line) == [doc EXCEPT ![i].lines = Append(@, line)]
ASSUME RefusedDocuments ==
  \A doc \in {SubSeq(MCDocument, 1, 3), Append(MCDocument, MCDocument[2]),
              With(MCDocument, 2, Line("key", <<"bootstrap_cap_sats", 9999>>)),
              With(MCDocument, 2, Line("key", <<"max_agents_per_seedbox", 65536>>)),
              With(MCDocument, 3, Line("row", <<"10.0.0.2", 80, h>>)),
              With(MCDocument, 3, Line("row", <<"127.0.0.1", 8190, h>>)),
              With(MCDocument, 4, Line("sha1", echo))} : ~ Parses(doc)

\* Nor a mission with a recipe, nor a scenario with a port in use twice.
ASSUME RefusedScenarios ==
  LET s == MCScenario("claw", <<echo>>) IN
  /\ ~ parse_mission(With(MCMission, 2, Line("step", <<>>)))
  /\ ~ parse_mission(With(MCMission, 2, Line("text", <<"wallet_send">>)))
  /\ ~ parse_scenario([s EXCEPT !.agents[1].peers = <<m>>])
  /\ ~ parse_scenario([s EXCEPT !.agents[3].redteam_port = 8192])

MCDirOf == [n \in MCNodes |-> n]
MCBootOverlays == [n \in MCNodes |-> IF n = g THEN <<echo>> ELSE <<>>]
MCBootPeers == [n \in MCNodes |-> {}]
=============================================================================

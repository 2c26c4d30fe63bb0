------------------------- MODULE MCSecurityGateway -------------------------
(***************************************************************************)
(* Two clients of one gateway, each with an agent id of its own; or the    *)
(* tools of a security scenario, acting as a with the seedbox s.           *)
(***************************************************************************)
EXTENDS SecurityLayers

CONSTANTS c, d, a, b, s, t, f, h, other, p

MCAgentOf == [x \in Clients |-> IF x = c THEN a ELSE b]
\* A report of a negative weight, and two in the guise of the gateway's own
\* entries: a charge of s, and a registration of s from a later step.
MCReports ==
  {Entry(a, "unauthorized_tool_request", -20, 0, None, None),
   Entry(a, "seedbox_missing_proof", 0, 0, None, [box |-> s]),
   Entry(b, "tool_execution_success", 0, 5, "register_seedbox",
         [box |-> s, owner |-> b, fake |-> FALSE])}

MCRequests ==
  {Request("pick_random_seedbox_file", TRUE, None, None, None),
   Request("exfiltrate_private_key", TRUE, None, None, None),
   Naming(Request("register_seedbox", TRUE, s, None, TRUE), b),
   Request("register_seedbox", FALSE, s, None, FALSE),
   Request("broadcast_seedbox_donation", TRUE, s, None, None),
   Naming(Request("broadcast_seedbox_donation", TRUE, s, p, None), a),
   Request("submit_seedbox_proof", TRUE, s, p, None),
   Request("submit_atomic_microtask", TRUE, s, t, h),
   Request("verify_atomic_microtask", TRUE, s, t, h),
   Request("verify_atomic_microtask", TRUE, s, t, other)}

\* The log of a seedbox of a that b donated to.
Success(subject, tool, output) ==
  Entry(subject, "tool_execution_success", 0, 0, tool, output)
Donated ==
  <<Success(a, "register_seedbox", [box |-> s, owner |-> a, fake |-> FALSE]),
    Success(b, "broadcast_seedbox_donation",
            [box |-> s, id |-> <<0>>, donor |-> b, recipient |-> a, fake |-> FALSE]),
    Event(b, "seedbox_donation_broadcast", 2)>>
MCStarts ==
  {<<"defended", <<>>, 0>>, <<"baseline", <<>>, 1>>,
   <<"defended", Donated, 1>>, <<"baseline", Donated, 1>>}
=============================================================================

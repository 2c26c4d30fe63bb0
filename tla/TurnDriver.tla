----------------------------- MODULE TurnDriver -----------------------------
(***************************************************************************)
(* The watchdog of an agent (deploy/watchdog.py) drives its language model *)
(* turn by turn until a stop predicate holds or a limit is reached.  A     *)
(* turn is the native tool loop (agent/loop.py) over the tools of the      *)
(* watchdog's own agent, or an openclaw subprocess, and asks the model     *)
(* through the key pool.  Tools of the loop load overlays with aload.      *)
(*                                                                         *)
(* A call of the model blocks the event loop of its process: timers and    *)
(* threads of the process are heard only while a tool awaits.              *)
(***************************************************************************)
EXTENDS KeyPool, OverlayRegistry, StopPredicates

CONSTANTS
  Servers,          \* MCP processes, which load without aload
  StopSpec,         \* per watchdog: its stop predicate
  AtBoot, Taken,    \* the snapshots a watchdog may take first and later
  Interval,         \* interval_s
  TurnGrace,        \* the 30 s a turn may take over its interval
  CallTimeout,      \* timeout of one call of the model
  MaxTotalTurns, MaxIterations, MaxConsecutiveErrors,
  MaxToolCalls,     \* bound on the tool calls of one answer
  MaxExtras         \* bound on restarts of the proxy, requests of others, loads of servers

ASSUME DriverAssumption ==
  /\ Clients \subseteq Nodes
  /\ Servers \subseteq Nodes \ Clients
  /\ \A a \in Clients : Resolves(StopSpec[a])
  /\ Interval \in Nat \ {0} /\ TurnGrace \in Nat /\ CallTimeout \in Nat \ {0}
  /\ MaxTotalTurns \in Nat \ {0} /\ MaxIterations \in Nat \ {0}
  /\ MaxConsecutiveErrors \in Nat \ {0}

VARIABLES
  driver,      \* per watchdog, where _drive and run_tool_loop are
  extras

vars == <<poolVars, registryVars, driver, extras>>

\* clock runs from the start of a turn: at 0 wait_for fires, and from
\* TurnGrace on the tick is over.
Driver(direct, baseline) ==
  [direct |-> direct, baseline |-> baseline, phase |-> "look", turn |-> 0, errors |-> 0, clock |-> 0,
   iterations |-> 0, call |-> 0, todo |-> 0, exit |-> "none"]

Init ==
  /\ PoolInit
  /\ \E direct \in [Clients -> BOOLEAN],      \* WATCHDOG_DRIVER
        first \in [Clients -> AtBoot] :
       driver = [a \in Clients |-> Driver(direct[a], set_baseline(first[a]))]
  /\ cache = [d \in CacheDirs |-> [id \in Overlays |-> None]]
  /\ registered = [n \in Nodes |-> Booted({})]
  /\ live = [n \in Nodes |-> BootInstances(<<>>)]
  /\ jobs = {}
  /\ extras = 0

Extra == extras < MaxExtras /\ extras' = extras + 1

Becoming(a, d) == driver' = [driver EXCEPT ![a] = d]
Awaited(a) == {j \in jobs : j.node = a /\ j.awaited}

---------------------------------------------------------------------------
\* _drive.

\* The process exits.
Stop(a, exit) ==
  Becoming(a, [Driver(driver[a].direct, driver[a].baseline) EXCEPT !.phase = "stopped", !.exit = exit])

\* The head of the loop, with the snapshot it takes and whether
\* max_wall_clock_s is over.
Look(a, snapshot, late) ==
  /\ driver[a].phase = "look"
  /\ LET d == [driver[a] EXCEPT !.turn = @ + 1]
         raised == Raised(StopSpec[a], snapshot)
         satisfied == ~ raised /\ predicate(StopSpec[a], d.baseline, snapshot)
         goes_on == ~ raised /\ ~ satisfied IN
     CASE raised -> Stop(a, "raised")
       [] satisfied -> Stop(a, "ok")
       [] goes_on /\ d.turn >= MaxTotalTurns -> Stop(a, "turns_exhausted")
       [] goes_on /\ d.turn < MaxTotalTurns /\ late -> Stop(a, "wall_clock")
       [] OTHER -> Becoming(a, [d EXCEPT
            !.phase = IF d.direct THEN "ask" ELSE "openclaw",
            !.clock = Interval + TurnGrace, !.iterations = MaxIterations])
  /\ UNCHANGED <<poolVars, registryVars, extras>>

\* After a turn: five failures in a row stop the driver, else it sleeps
\* what is left of the tick.
AfterTurn(a, errors) ==
  Becoming(a, [driver[a] EXCEPT !.phase = "sleep", !.errors = errors,
                                !.iterations = 0, !.call = 0, !.todo = 0])

TurnOk(a) == AfterTurn(a, 0)

TurnFails(a) ==
  LET errors == driver[a].errors + 1 IN
  IF errors >= MaxConsecutiveErrors THEN Stop(a, "llm_errors")
  ELSE AfterTurn(a, errors)

NextTick(a) ==
  /\ driver[a].phase = "sleep" /\ driver[a].clock <= TurnGrace
  /\ Becoming(a, [driver[a] EXCEPT !.phase = "look", !.clock = 0])
  /\ UNCHANGED <<poolVars, registryVars, extras>>

\* The subprocess exits, with 0 or not, or is killed at its timeout.
OpenclawEnds(a) ==
  /\ driver[a].phase = "openclaw"
  /\ \/ driver[a].clock > 0 /\ TurnOk(a)
     \/ TurnFails(a)
  /\ UNCHANGED <<poolVars, registryVars, extras>>

---------------------------------------------------------------------------
\* run_tool_loop.

\* complete_with_tools opens a connection to the proxy, or fails to.
Ask(a, q) ==
  /\ driver[a].phase = "ask"
  /\ Arrive(q, a)
  /\ Becoming(a, [driver[a] EXCEPT !.phase = "llm", !.call = CallTimeout,
                                   !.iterations = @ - 1])
  /\ UNCHANGED <<registryVars, extras>>

AskFails(a) ==
  /\ driver[a].phase = "ask"
  /\ TurnFails(a)
  /\ UNCHANGED <<poolVars, registryVars, extras>>

\* An answer without tool calls ends the turn, one with some is worked off;
\* any other status than 200 raises.
Reply(a, q) ==
  /\ driver[a].phase = "llm"
  /\ requests[q].at = "answered" /\ requests[q].client = a
  /\ requests' = [requests EXCEPT ![q] = Idle]
  /\ IF requests[q].status = "ok"
     THEN \/ TurnOk(a)
          \/ \E n \in 1 .. MaxToolCalls :
               Becoming(a, [driver[a] EXCEPT !.phase = "tools", !.todo = n, !.call = 0])
     ELSE TurnFails(a)
  /\ UNCHANGED <<cursor, benched, registryVars, extras>>

\* Mutant: no timeout on the socket.
NoCallTimeout(a, q) == FALSE /\ UNCHANGED vars

\* urlopen gives up; what it asked goes on in the proxy.
CallTimesOut(a, q) ==
  /\ driver[a].phase = "llm" /\ driver[a].call = 0
  /\ requests[q].client = a
  /\ Unattended(q)
  /\ TurnFails(a)
  /\ UNCHANGED <<cursor, benched, registryVars, extras>>

\* A tool call that does not load an overlay, or fails before it does.
PlainTool(a) ==
  /\ driver[a].phase = "tools" /\ driver[a].todo > 0 /\ Awaited(a) = {}
  /\ Becoming(a, [driver[a] EXCEPT !.todo = @ - 1])
  /\ UNCHANGED <<poolVars, registryVars, extras>>

\* overlay_fetch_and_load and overlay_publish.
LoadingTool(a, id) ==
  /\ driver[a].phase = "tools" /\ driver[a].todo > 0 /\ Awaited(a) = {}
  /\ Cardinality(jobs) < MaxJobs
  /\ aload(a, id)
  /\ Becoming(a, [driver[a] EXCEPT !.todo = @ - 1])
  /\ UNCHANGED <<poolVars, extras>>

ToolsDone(a) ==
  /\ driver[a].phase = "tools" /\ driver[a].todo = 0 /\ Awaited(a) = {}
  /\ IF driver[a].iterations > 0
     THEN Becoming(a, [driver[a] EXCEPT !.phase = "ask"]) ELSE TurnOk(a)
  /\ UNCHANGED <<poolVars, registryVars, extras>>

\* wait_for cancels the loop at the await it is in.
TurnTimesOut(a) ==
  /\ driver[a].phase = "tools" /\ driver[a].clock = 0
  /\ \E j \in Awaited(a) : Cancel(j)
  /\ TurnFails(a)
  /\ UNCHANGED <<poolVars, extras>>

\* A thread that compiles.
Compile(j) ==
  /\ Lookup(j) \/ Answered(j) \/ Failed(j) \/ Finish(j)
  /\ UNCHANGED <<poolVars, driver, extras>>

---------------------------------------------------------------------------
\* The MCP process beside a watchdog loads into the same cache.
ServerLoads(s, id) ==
  /\ Extra
  /\ load(s, id)
  /\ UNCHANGED <<poolVars, driver>>

\* A request of an openclaw subprocess or of a compiler.
OtherRequest(q) ==
  /\ Extra
  /\ Arrive(q, Nobody)
  /\ UNCHANGED <<registryVars, driver>>

Proxy(q) == Forward(q) /\ UNCHANGED <<registryVars, driver, extras>>

\* A caller in the middle of a request sees its connection close.
RestartProxy ==
  /\ Extra
  /\ ProxyRestarts
  /\ driver' = [a \in Clients |->
       IF driver[a].phase = "llm" THEN [driver[a] EXCEPT !.phase = "ask_failed"]
       ELSE driver[a]]
  /\ UNCHANGED registryVars

ConnectionLost(a) ==
  /\ driver[a].phase = "ask_failed"
  /\ TurnFails(a)
  /\ UNCHANGED <<poolVars, registryVars, extras>>

\* Time passes for calls of the model, openclaw, threads and sleepers.
Waiting(a) ==
  \/ driver[a].phase = "llm" /\ driver[a].call > 0
  \/ driver[a].phase = "openclaw" /\ driver[a].clock > 0
  \/ driver[a].phase = "tools" /\ Awaited(a) # {} /\ driver[a].clock > 0
  \/ driver[a].phase = "sleep" /\ driver[a].clock > TurnGrace

Tick ==
  /\ PoolSettled
  /\ PoolRuns \/ \E a \in Clients : Waiting(a)
  /\ \A a \in Clients : Waiting(a) \/ driver[a].phase = "stopped"
  /\ PoolTick
  /\ driver' = [a \in Clients |->
       [driver[a] EXCEPT !.clock = Less(@), !.call = Less(@)]]
  /\ UNCHANGED <<registryVars, extras>>

Drive(a) ==
  \/ \E snapshot \in Taken, late \in BOOLEAN : Look(a, snapshot, late)
  \/ NextTick(a) \/ OpenclawEnds(a) \/ AskFails(a) \/ ConnectionLost(a)
  \/ \E q \in Requests : Ask(a, q) \/ Reply(a, q) \/ CallTimesOut(a, q)
  \/ PlainTool(a) \/ ToolsDone(a) \/ TurnTimesOut(a)
  \/ \E id \in Overlays : LoadingTool(a, id)

Next ==
  \/ \E a \in Clients : Drive(a)
  \/ \E q \in Requests : Proxy(q) \/ OtherRequest(q)
  \/ \E j \in jobs : Compile(j)
  \/ \E s \in Servers, id \in Overlays : ServerLoads(s, id)
  \/ RestartProxy
  \/ Tick

\* The event loops run, threads that finished are heard, and clocks go on.
Spec ==
  /\ Init /\ [][Next]_vars
  /\ \A a \in Clients : WF_vars(Drive(a))
  /\ \A q \in Requests : WF_vars(Proxy(q))
  /\ WF_vars(Tick)

---------------------------------------------------------------------------
\* Whatever the model, the tools and the stop predicate do, a watchdog
\* comes to an end: every turn ends, although the proxy may go on with a
\* request for ever, and the turns are counted (watchdog.py, EXIT_*).
DriversStop == \A a \in Clients : <>(driver[a].phase = "stopped")
=============================================================================

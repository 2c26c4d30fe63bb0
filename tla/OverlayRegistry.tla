-------------------------- MODULE OverlayRegistry --------------------------
(***************************************************************************)
(* OverlayRegistry (protocol/registry.py): from the descriptor of an       *)
(* overlay to an instance on the running IPv8 node, through the compiler   *)
(* and a cache on disk of what the language model wrote.                   *)
(*                                                                         *)
(* The processes of one agent (its MCP server, its watchdog) each have a   *)
(* registry and share the cache directory.  load runs in one go on the     *)
(* event loop; aload, which only the tool loop calls, compiles in a thread *)
(* while the loop goes on, and the awaiting turn may be cancelled.         *)
(***************************************************************************)
EXTENDS NetworkNodes, OverlayCompiler

CONSTANTS
  Descriptor,  \* what each descriptor says
  Replies,     \* sources the language model may answer with
  Stub,        \* per overlay: the recorded source of its _stub.py sibling
  CacheDirs, DirOf,   \* cache directories, and which one a process uses
  MaxJobs,     \* bound on the threads compiling at once
  MaxRaised    \* bound on the instances of a process whose started() raised

ASSUME RegistryAssumption ==
  /\ IsFiniteSet(Nodes) /\ IsFiniteSet(Overlays)
  /\ DirOf \in [Nodes -> CacheDirs]
  /\ None \notin Replies
  /\ MaxJobs \in Nat /\ MaxRaised \in Nat

VARIABLES
  cache,       \* <sha1>-<model>.py files: a source per directory and overlay
  registered,  \* _instances (and _compiled) of each process
  live,        \* ipv8.overlays of each process, those compiled here
  jobs         \* threads that compile for an aload

registryVars == <<cache, registered, live, jobs>>

\* started: whether its started() returned.
Instance(id, src, started) == [id |-> id, src |-> src, started |-> started]

compile_overlay(id, src) == Compiles(Descriptor[id], id, src)

---------------------------------------------------------------------------
\* _compile_with_disk_cache.

\* The file is there and can be read: its source takes the same gates, and
\* the model is not asked.
FromCache(d, id, src) ==
  /\ cache[d][id] # None
  /\ src = cache[d][id]
  /\ UNCHANGED cache

\* No file, or none that can be read: the model answers.  Writing the file
\* may fail, which is only logged.
FromModel(d, id, src) ==
  /\ src \in Replies
  /\ compile_overlay(id, src)
  /\ \/ cache' = [cache EXCEPT ![d][id] = src]
     \/ UNCHANGED cache

compile_with_disk_cache(d, id, src) ==
  /\ FromCache(d, id, src) \/ FromModel(d, id, src)
  /\ compile_overlay(id, src)

Added(n, instance) == live' = [live EXCEPT ![n] = Append(@, instance)]

\* The class the model wrote is called, its instance appended to
\* ipv8.overlays, started, and filed under the id.
Filed(n, id, src) ==
  /\ Added(n, Instance(id, src, TRUE))
  /\ registered' = [registered EXCEPT ![n][id] = src]

\* No gate runs started(): when it raises, the instance stays in
\* ipv8.overlays and is not filed, so that the next load makes another.
StartRaises(n, id, src) ==
  /\ Cardinality({i \in DOMAIN live[n] : ~ live[n][i].started}) < MaxRaised
  /\ Added(n, Instance(id, src, FALSE))
  /\ UNCHANGED registered

\* The constructor may raise, too, before anything is done.
Register(n, id, src) ==
  \/ Filed(n, id, src)
  \/ StartRaises(n, id, src)
  \/ UNCHANGED <<live, registered>>

---------------------------------------------------------------------------
\* load: the instance there is, or a new one, or an exception: of the
\* compiler, which leaves all as it was, or of the class it compiled.
load(n, id) ==
  \/ /\ registered[n][id] = None
     /\ \E src \in Replies \cup {cache[DirOf[n]][id]} :
          compile_with_disk_cache(DirOf[n], id, src) /\ Register(n, id, src)
     /\ UNCHANGED jobs
  \/ UNCHANGED registryVars

\* aload up to the thread it starts.  The tool loop dispatches one call at
\* a time, so at most one job of a process is awaited.
aload(n, id) ==
  IF registered[n][id] # None THEN UNCHANGED registryVars
  ELSE /\ \A j \in jobs : j.node # n \/ ~ j.awaited
       /\ jobs' = jobs \cup {[node |-> n, id |-> id, at |-> "lookup",
                              src |-> None, awaited |-> TRUE]}
       /\ UNCHANGED <<cache, registered, live>>

Becomes(j, next) == jobs' = (jobs \ {j}) \cup {next}

\* The thread looks at the cache, and asks the model when it finds nothing.
Lookup(j) ==
  /\ j.at = "lookup"
  /\ LET src == cache[DirOf[j.node]][j.id] IN
     \/ Becomes(j, [j EXCEPT !.at = "asking"])
     \/ /\ src # None
        /\ IF compile_overlay(j.id, src)
           THEN Becomes(j, [j EXCEPT !.at = "compiled", !.src = src])
           ELSE jobs' = jobs \ {j}
  /\ UNCHANGED <<cache, registered, live>>

\* The model answers, the gates pass, the cache is written.  Whoever else
\* compiled the overlay in the meantime is not looked at.
Answered(j) ==
  /\ j.at = "asking"
  /\ \E src \in Replies :
       /\ FromModel(DirOf[j.node], j.id, src)
       /\ Becomes(j, [j EXCEPT !.at = "compiled", !.src = src])
  /\ UNCHANGED <<registered, live>>

\* No answer, or a gate refuses it.
Failed(j) ==
  /\ j.at = "asking"
  /\ jobs' = jobs \ {j}
  /\ UNCHANGED <<cache, registered, live>>

\* Mutant: a thread whose caller is gone registers what it has.
RegisterAnyway(j) ==
  /\ j.at = "compiled"
  /\ jobs' = jobs \ {j}
  /\ Register(j.node, j.id, j.src)
  /\ UNCHANGED cache

\* Back on the event loop: register, if the caller still waits.
Finish(j) ==
  /\ j.at = "compiled"
  /\ jobs' = jobs \ {j}
  /\ IF j.awaited THEN Register(j.node, j.id, j.src)
     ELSE UNCHANGED <<registered, live>>
  /\ UNCHANGED cache

\* The turn that awaits runs out of time; its thread goes on.
Cancel(j) ==
  /\ j.awaited
  /\ Becomes(j, [j EXCEPT !.awaited = FALSE])
  /\ UNCHANGED <<cache, registered, live>>

\* _publish_overlays at boot: each overlay given is compiled from its stub
\* and registered by hand, past the cache.  A stub the compiler refuses
\* stops the boot, so stubs are sources it accepts.
Booted(given) ==
  [id \in Overlays |-> IF id \in given THEN Stub[id] ELSE None]

\* ids given on the command line, in their order.
BootInstances(given) ==
  [i \in DOMAIN given |-> Instance(given[i], Stub[given[i]], TRUE)]

---------------------------------------------------------------------------
\* An overlay has one started instance per process, the one the registry
\* hands out: a second load, a load while another compiles, and a
\* compilation whose caller is gone add none once there is one.  Before it
\* come only instances of loads that raised (registry.py:118-126).
OneInstance ==
  \A n \in Nodes :
    /\ \A i, k \in DOMAIN live[n] :
         i < k /\ live[n][i].id = live[n][k].id => ~ live[n][i].started
    /\ \A id \in Overlays :
         registered[n][id] # None <=>
           \E i \in DOMAIN live[n] : live[n][i] = Instance(id, registered[n][id], TRUE)

\* Whatever the model wrote for each of them, from its answer, the cache or
\* a stub, two instances of an overlay pack every test vector of its
\* descriptor to the same bytes (docs/architecture.md:386, of the vectors).
InstancesInteroperate ==
  \A n, p \in Nodes :
    \A i \in DOMAIN live[n], k \in DOMAIN live[p] :
      live[n][i].id = live[p][k].id =>
        \A v \in ElementsOf(Descriptor[live[n][i].id].vectors) :
          /\ v.message \in DOMAIN live[n][i].src.formats
          /\ v.message \in DOMAIN live[p][k].src.formats
          /\ PackMessage(v.values, live[n][i].src.formats[v.message])
               = PackMessage(v.values, live[p][k].src.formats[v.message])
=============================================================================

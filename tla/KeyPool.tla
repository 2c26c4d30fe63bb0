------------------------------ MODULE KeyPool ------------------------------
(***************************************************************************)
(* The proxy between the agents and their language model                   *)
(* (scripts/llm_proxy.py): a pool of API keys handed out in turn.  A key   *)
(* that is throttled or does not answer is benched for a while, and a      *)
(* request that finds all keys benched waits for one, up to a budget.      *)
(*                                                                         *)
(* The proxy runs on one event loop; the lock of the pool is never held    *)
(* over another await, so that acquire and mark_exhausted are one step.    *)
(* Time is counted down: benched[k] is what is left of a key's cool-down.  *)
(* The steps of an event loop take no time against a unit of it.           *)
(***************************************************************************)
EXTENDS Naturals

CONSTANTS
  Total,        \* keys in LLM_API_KEYS
  Cooldown,     \* --cooldown-seconds
  WaitBudget,   \* WAIT_BUDGET_S
  Slice,        \* SLICE_S
  Requests,     \* places for requests at work at a time, the first free one taken
  Clients,      \* processes that wait for an answer
  Nobody        \* no process does

ASSUME PoolAssumption ==
  /\ Total \in Nat \ {0}
  /\ Cooldown \in Nat /\ WaitBudget \in Nat /\ Slice \in Nat \ {0}
  /\ Cooldown < WaitBudget
  /\ Nobody \notin Clients

Keys == 0 .. Total - 1

VARIABLES
  cursor,     \* _cursor
  benched,    \* _busy_until: time left per key
  requests    \* the requests in _forward, by place

poolVars == <<cursor, benched, requests>>

\* tried stops counting at Total, where it is compared with the total.
\* marked is history: keys benched since the request first had to wait.
Request(client) ==
  [at |-> "acquire", client |-> client, key |-> 0, tried |-> 0, waited |-> 0,
   timer |-> 0, marked |-> {}, status |-> "none"]

Idle == [Request(Nobody) EXCEPT !.at = "idle"]

PoolInit ==
  /\ cursor = 0
  /\ benched = [k \in Keys |-> 0]
  /\ requests = [q \in Requests |-> Idle]

---------------------------------------------------------------------------
\* A request comes in; whoever is not waited for is no client of the model.
Arrive(q, client) ==
  /\ requests[q].at = "idle"
  /\ \A p \in Requests : p < q => requests[p].at # "idle"
  /\ requests' = [requests EXCEPT ![q] = Request(client)]
  /\ UNCHANGED <<cursor, benched>>

\* The free keys, as steps from the cursor.
FreeSteps == {i \in Keys : benched[(cursor + i) % Total] = 0}

Nearest == CHOOSE i \in FreeSteps : \A j \in FreeSteps : i <= j

Status(q, status) ==
  requests' = [requests EXCEPT ![q].at = "answered", ![q].key = 0,
                               ![q].status = status]

\* acquire hands out the next free key, and the request goes upstream.
AcquireKey(q) ==
  /\ requests[q].at = "acquire" /\ FreeSteps # {}
  /\ LET idx == (cursor + Nearest) % Total IN
     /\ cursor' = (idx + 1) % Total
     /\ requests' = [requests EXCEPT
          ![q].at = "upstream", ![q].key = idx,
          ![q].tried = IF @ < Total THEN @ + 1 ELSE @]
  /\ UNCHANGED benched

\* Mutant: no key, no wait.
RefuseAtOnce(q) ==
  /\ requests[q].at = "acquire" /\ FreeSteps = {}
  /\ Status(q, "unavailable")
  /\ UNCHANGED <<cursor, benched>>

\* acquire finds none: sleep a slice, or give up with 503.
WaitForKey(q) ==
  /\ requests[q].at = "acquire" /\ FreeSteps = {}
  /\ IF requests[q].waited >= WaitBudget THEN Status(q, "unavailable")
     ELSE requests' = [requests EXCEPT ![q].at = "asleep", ![q].timer = Slice,
                                       ![q].waited = @ + Slice]
  /\ UNCHANGED <<cursor, benched>>

Wake(q) ==
  /\ requests[q].at = "asleep" /\ requests[q].timer = 0
  /\ requests' = [requests EXCEPT ![q].at = "acquire"]
  /\ UNCHANGED <<cursor, benched>>

\* mark_exhausted.
Bench(k) == benched' = [benched EXCEPT ![k] = Cooldown]

\* The history of those that have waited.
Marking(rs, k) ==
  [q \in Requests |->
     IF rs[q].waited > 0 /\ rs[q].at # "answered"
     THEN [rs[q] EXCEPT !.marked = @ \cup {k}] ELSE rs[q]]

\* 429 or 5xx: the key is benched; with as many tries as keys, the answer
\* is passed on.
Throttled(q) ==
  /\ requests[q].at = "upstream"
  /\ LET r == requests[q] IN
     /\ Bench(r.key)
     /\ requests' = Marking(
          [requests EXCEPT ![q] =
             IF r.tried >= Total
             THEN [@ EXCEPT !.at = "answered", !.key = 0, !.status = "throttled"]
             ELSE [@ EXCEPT !.at = "acquire", !.key = 0]], r.key)
  /\ UNCHANGED cursor

\* No answer at all: the key is benched and the next one tried, however
\* many were tried already.
TransportError(q) ==
  /\ requests[q].at = "upstream"
  /\ Bench(requests[q].key)
  /\ requests' = Marking([requests EXCEPT ![q].at = "acquire", ![q].key = 0],
                         requests[q].key)
  /\ UNCHANGED cursor

\* Any other status is passed through.
PassThrough(q, status) ==
  /\ requests[q].at = "upstream"
  /\ Status(q, status)
  /\ UNCHANGED <<cursor, benched>>

\* The answer has been written, to a client or to a closed connection.
Close(q) ==
  /\ requests[q].at = "answered" /\ requests[q].client = Nobody
  /\ requests' = [requests EXCEPT ![q] = Idle]
  /\ UNCHANGED <<cursor, benched>>

\* The client of q no longer waits: _forward is not told.
Unattended(q) == requests' = [requests EXCEPT ![q].client = Nobody]

\* systemd restarts the proxy: the pool is new, its requests are gone.
ProxyRestarts == cursor' = 0 /\ benched' = [k \in Keys |-> 0]
                 /\ requests' = [q \in Requests |-> Idle]

Less(t) == IF t = 0 THEN 0 ELSE t - 1

PoolTick ==
  /\ benched' = [k \in Keys |-> Less(benched[k])]
  /\ requests' = [q \in Requests |-> [requests[q] EXCEPT !.timer = Less(@)]]
  /\ UNCHANGED cursor

\* Some clock of the pool runs; no request has a step of its own to take.
PoolRuns == (\E k \in Keys : benched[k] > 0) \/ (\E q \in Requests : requests[q].timer > 0)

PoolSettled ==
  \A q \in Requests :
    /\ requests[q].at \in {"idle", "upstream", "asleep", "answered"}
    /\ requests[q].at = "asleep" => requests[q].timer > 0
    /\ requests[q].at = "answered" => requests[q].client # Nobody

Forward(q) ==
  \/ AcquireKey(q) \/ WaitForKey(q) \/ Wake(q)
  \/ Throttled(q) \/ TransportError(q)
  \/ \E status \in {"ok", "rejected"} : PassThrough(q, status)
  \/ Close(q)

---------------------------------------------------------------------------
\* A request is refused for want of a key only when every key was benched
\* anew while it waited, by requests that used it: the wait outlasts the
\* cool-down, so a throttled minute alone refuses nobody (llm_proxy.py
\* 155-159, "wait briefly for one to recover instead of failing
\* immediately").
RefusedUnderLoad ==
  \A q \in Requests : requests[q].status = "unavailable" => requests[q].marked = Keys
=============================================================================

--------------------------- MODULE ClawCommunity ---------------------------
(***************************************************************************)
(* The Claw community service (claw_community/): communities with a        *)
(* treasury, members and the seedboxes bought for them, kept in one JSON   *)
(* file and reported to a signed audit log.                                *)
(*                                                                         *)
(* Every operation reads the whole file, changes the copy and writes the   *)
(* whole file back, with no lock; each tool call makes a service of its    *)
(* own, and several agents' processes share the file.  An operation is     *)
(* therefore the list of effects that follows from what it read, and one   *)
(* step performs one effect.  A write first empties the file.              *)
(***************************************************************************)
EXTENDS Integers, Sequences, SequencesExt, FiniteSets

CONSTANTS
  Processes,    \* processes that call the service
  Communities,  \* community ids
  Agents,       \* agent ids
  Amounts,      \* sats an agent gives
  Costs,        \* cost_sats a caller names
  Hosts,        \* host names a caller names, by the number in them
  Providers,    \* provider names a caller gives
  Machines,     \* those that launch: mock, local
  FileIds,      \* ids of a file catalog
  Catalogs,     \* catalogs there are to import
  JoinFee, Capacity, Threshold,   \* set when a community is created
  Torn,         \* content of a file emptied and not written yet
  None,
  MaxOps,       \* bound on the operations begun
  MaxMishaps    \* bound on processes dying and I/O raising

Entry == [hashed : BOOLEAN]
Files == [FileIds -> Entry \cup {None}]

\* A machine and its host; members are in the order they joined, seedboxes in
\* the order they were made.
Box == Machines \X Nat
Member == [agent : Agents, sats : Nat, box : Box \cup {None}]
Treasury == [balance : Int, incoming : Int, outgoing : Int]
Community == [founder : Agents, treasury : Treasury, members : Seq(Member),
              boxes : Seq(Box), files : Files]

ASSUME ClawAssumption ==
  /\ Amounts \subseteq Nat /\ Costs \subseteq Nat /\ Hosts \subseteq Nat
  /\ JoinFee \in Nat /\ Threshold \in Nat /\ Capacity \in Nat \ {0}
  /\ Catalogs \subseteq Files
  /\ None \notin Agents \cup Entry \cup Community
  /\ Torn \notin [Communities -> Community \cup {None}]

VARIABLES
  file,       \* the JSON file, as the communities in it
  running,    \* per process: effects of its operation still to come
  audit,      \* events of the audit log
  launched,   \* machines a provider set up
  ops, mishaps,
  overlapped  \* some operation began while another had not ended

vars == <<file, running, audit, launched, ops, mishaps, overlapped>>

---------------------------------------------------------------------------
\* What an event is about: a machine.
Event(action, c, a, sats, about) ==
  [action |-> action, community |-> c, agent |-> a, sats |-> sats, about |-> about]

Launch(box) == [do |-> "launch", box |-> box]
Record(event) == [do |-> "record", event |-> event]
Buy(c, a, machine) == [do |-> "buy", community |-> c, agent |-> a, machine |-> machine]
Reread(c, a) == [do |-> "reread", community |-> c, agent |-> a]
Save(all) == <<[do |-> "empty"], [do |-> "write", all |-> all]>>

fund(x, sats) ==
  [x EXCEPT !.treasury.balance = @ + sats, !.treasury.incoming = @ + sats]
Charged(x, sats) ==
  [x EXCEPT !.treasury.balance = @ - sats, !.treasury.outgoing = @ + sats]

\* The entry of the same key is replaced, and its new time puts it last.
Joined(x, member) ==
  [x EXCEPT !.members =
     Append(RemoveFirstMatch(@, LAMBDA e : e.agent = member.agent), member)]
Installed(x, box) == [x EXCEPT !.boxes = Append(RemoveFirst(@, box), box)]

\* Mutant: the first seedbox one short.
RebalanceOneEarly(x) ==
  LET Place(i) == LET n == i \div Capacity + 1
                  IN x.boxes[IF n <= Len(x.boxes) THEN n ELSE Len(x.boxes)]
  IN IF x.boxes = <<>> THEN x
     ELSE [x EXCEPT !.members =
             [i \in DOMAIN x.members |-> [x.members[i] EXCEPT !.box = Place(i)]]]

rebalance(x) ==
  LET Place(i) == LET n == (i - 1) \div Capacity + 1
                  IN x.boxes[IF n <= Len(x.boxes) THEN n ELSE Len(x.boxes)]
  IN IF x.boxes = <<>> THEN x
     ELSE [x EXCEPT !.members =
             [i \in DOMAIN x.members |-> [x.members[i] EXCEPT !.box = Place(i)]]]

required_seedbox_count(x) ==
  IF x.members = <<>> THEN (IF x.boxes = <<>> THEN 0 ELSE 1)
  ELSE (Len(x.members) + Capacity - 1) \div Capacity

---------------------------------------------------------------------------
\* The effects of an operation, from what it read; <<>> is an error raised.

Created(all, c, a, sats) ==
  LET new == [founder |-> a,
              treasury |-> [balance |-> 0, incoming |-> 0, outgoing |-> 0],
              members |-> <<[agent |-> a, sats |-> sats, box |-> None]>>,
              boxes |-> <<>>, files |-> [f \in FileIds |-> None]]
  IN Save([all EXCEPT ![c] = fund(new, sats)])
       \o <<Record(Event("community_created", c, a, sats, None))>>

Funded(all, c, a, sats) ==
  Save([all EXCEPT ![c] = fund(@, sats)])
    \o <<Record(Event("community_treasury_funded", c, a, sats, None))>>

\* Mutant: what came in is checked, not what is left.
BuyFromIncoming(all, c, a, machine, host, price) ==
  LET box == <<machine, host>>
      new == rebalance(Installed(Charged(all[c], price), box))
  IN IF all[c].treasury.incoming < price \/ machine \notin Machines THEN <<>>
     ELSE <<Launch(box)>> \o Save([all EXCEPT ![c] = new])
            \o <<Record(Event("seedbox_registered", c, a, price, box))>>

\* The machine is launched first; its id is that of its provider and host.
buy_seedbox(all, c, a, machine, host, price) ==
  LET box == <<machine, host>>
      new == rebalance(Installed(Charged(all[c], price), box))
  IN IF all[c].treasury.balance < price \/ machine \notin Machines THEN <<>>
     ELSE <<Launch(box)>> \o Save([all EXCEPT ![c] = new])
            \o <<Record(Event("seedbox_registered", c, a, price, box))>>

NextHost(x) == Len(x.boxes) + 1

maybe_expand_seedboxes(x, c, a) ==
  IF required_seedbox_count(x) <= Len(x.boxes) THEN <<>>
  ELSE <<Record(Event("seedbox_capacity_reached", c, a, 0, None))>>
         \o IF x.treasury.balance < Threshold THEN <<>>
            ELSE <<Buy(c, a, IF x.boxes = <<>> THEN "local" ELSE x.boxes[1][1])>>

\* Mutants: a member saved before it is reported; an expansion before the save.
JoinSavedFirst(all, c, a, sats) ==
  LET new == rebalance(Joined(fund(all[c], sats),
                              [agent |-> a, sats |-> sats, box |-> None]))
  IN IF sats < JoinFee THEN <<>>
     ELSE Save([all EXCEPT ![c] = new])
            \o <<Record(Event("community_member_added", c, a, sats, None))>>
            \o maybe_expand_seedboxes(new, c, a) \o <<Reread(c, a)>>
JoinExpandsFirst(all, c, a, sats) ==
  LET new == rebalance(Joined(fund(all[c], sats),
                              [agent |-> a, sats |-> sats, box |-> None]))
  IN IF sats < JoinFee THEN <<>>
     ELSE <<Record(Event("community_member_added", c, a, sats, None))>>
            \o maybe_expand_seedboxes(new, c, a)
            \o Save([all EXCEPT ![c] = new]) \o <<Reread(c, a)>>

\* The member is reported before it is saved.
join_community(all, c, a, sats) ==
  LET member == [agent |-> a, sats |-> sats, box |-> None]
      new == rebalance(Joined(fund(all[c], sats), member))
  IN IF sats < JoinFee THEN <<>>
     ELSE <<Record(Event("community_member_added", c, a, sats, None))>>
            \o Save([all EXCEPT ![c] = new])
            \o maybe_expand_seedboxes(new, c, a) \o <<Reread(c, a)>>

Imported(all, c, catalog) ==
  LET Row(f) == IF catalog[f] = None THEN all[c].files[f] ELSE catalog[f]
  IN Save([all EXCEPT ![c].files = [f \in FileIds |-> Row(f)]])
       \o <<Record(Event("file_catalog_imported", c, all[c].founder, 0, None))>>

\* Without a hash a file passes; else what its path holds now is hashed.
verify_file_item(entry, held) == ~ entry.hashed \/ held = "that content"

Retrieved(c, a, verified) ==
  <<Record(Event(IF verified THEN "file_retrieval_verified" ELSE "file_retrieved",
                 c, a, IF verified THEN 1 ELSE -2, None))>>

\* The search is asked of the peers too; without a content overlay or inside
\* an event loop a note of it is kept instead.  Either way, and whatever it
\* matched, it is recorded.
Searched(c, a) == <<Record(Event("file_search_requested", c, a, 0, None))>>

---------------------------------------------------------------------------
Init ==
  /\ file = [c \in Communities |-> None]
  /\ running = [p \in Processes |-> <<>>]
  /\ audit = <<>> /\ launched = {}
  /\ ops = 0 /\ mishaps = 0 /\ overlapped = FALSE

Idle(p) == running[p] = <<>>

\* load_all: an emptied file is no JSON, and the operation raises.
Begin(p, effects) ==
  /\ Idle(p) /\ ops < MaxOps /\ ops' = ops + 1
  /\ running' = [running EXCEPT ![p] = effects]
  /\ overlapped' = (overlapped \/ \E q \in Processes : ~ Idle(q))
  /\ UNCHANGED <<file, audit, launched, mishaps>>

CreateCommunity(p, c, a, sats) ==
  file # Torn /\ file[c] = None /\ Begin(p, Created(file, c, a, sats))

Known(c) == file # Torn /\ file[c] # None

FundTreasury(p, c, a, sats) == Known(c) /\ Begin(p, Funded(file, c, a, sats))

BuySeedbox(p, c, a, machine, host, price) ==
  Known(c) /\ Begin(p, buy_seedbox(file, c, a, machine, host, price))

JoinCommunity(p, c, a, sats) ==
  Known(c) /\ Begin(p, join_community(file, c, a, sats))

ImportFileCatalog(p, c, catalog) ==
  Known(c) /\ Begin(p, Imported(file, c, catalog))

FindFile(p, c, a) == Known(c) /\ Begin(p, Searched(c, a))

RetrieveFile(p, c, a, f, held) ==
  /\ Known(c) /\ file[c].files[f] # None
  /\ Begin(p, Retrieved(c, a, verify_file_item(file[c].files[f], held)))

---------------------------------------------------------------------------
\* One effect of an operation.

Doing(p, what) == ~ Idle(p) /\ Head(running[p]).do = what
Then(p, effects) == running' = [running EXCEPT ![p] = effects]
Done(p) == Then(p, Tail(running[p]))

LaunchMachine(p) ==
  /\ Doing(p, "launch") /\ Done(p)
  /\ launched' = launched \cup {Head(running[p]).box}
  /\ UNCHANGED <<file, audit, ops, mishaps, overlapped>>

EmptyFile(p) ==
  /\ Doing(p, "empty") /\ Done(p)
  /\ file' = Torn
  /\ UNCHANGED <<audit, launched, ops, mishaps, overlapped>>

WriteFile(p) ==
  /\ Doing(p, "write") /\ Done(p)
  /\ file' = Head(running[p]).all
  /\ UNCHANGED <<audit, launched, ops, mishaps, overlapped>>

RecordEvent(p) ==
  /\ Doing(p, "record") /\ Done(p)
  /\ audit' = Append(audit, Head(running[p]).event)
  /\ UNCHANGED <<file, launched, ops, mishaps, overlapped>>

\* The purchase of an expansion reads the file again.
BuyForExpansion(p) ==
  /\ Doing(p, "buy")
  /\ LET e == Head(running[p])
         effects == IF Known(e.community)
                    THEN buy_seedbox(file, e.community, e.agent, e.machine,
                                     NextHost(file[e.community]), Threshold)
                    ELSE <<>>
     IN Then(p, IF effects = <<>> THEN <<>> ELSE effects \o Tail(running[p]))
  /\ UNCHANGED <<file, audit, launched, ops, mishaps, overlapped>>

\* The answer of a join is read from the file; not there, the join raises.
RereadMember(p) ==
  /\ Doing(p, "reread") /\ Done(p)
  /\ UNCHANGED <<file, audit, launched, ops, mishaps, overlapped>>

\* The process dies, or an effect raises.
Mishap(p) ==
  /\ ~ Idle(p) /\ mishaps < MaxMishaps /\ mishaps' = mishaps + 1
  /\ Then(p, <<>>)
  /\ UNCHANGED <<file, audit, launched, ops, overlapped>>

Operation(p) ==
  \E c \in Communities, a \in Agents :
    \/ \E sats \in Amounts : CreateCommunity(p, c, a, sats)
    \/ \E sats \in Amounts : FundTreasury(p, c, a, sats)
    \/ \E sats \in Amounts : JoinCommunity(p, c, a, sats)
    \/ \E machine \in Providers, host \in Hosts, price \in Costs :
         BuySeedbox(p, c, a, machine, host, price)
    \/ \E machine \in Providers :
         Known(c) /\ BuySeedbox(p, c, a, machine, NextHost(file[c]), Threshold)
    \/ FindFile(p, c, a)
    \/ \E f \in FileIds, held \in {"that content", "another", "nothing"} :
         RetrieveFile(p, c, a, f, held)

Effect(p) ==
  \/ LaunchMachine(p) \/ EmptyFile(p) \/ WriteFile(p) \/ RecordEvent(p)
  \/ BuyForExpansion(p) \/ RereadMember(p)

Next ==
  \E p \in Processes :
    \/ Operation(p)
    \/ \E c \in Communities, catalog \in Catalogs : ImportFileCatalog(p, c, catalog)
    \/ Effect(p)
    \/ Mishap(p)

Spec == Init /\ [][Next]_vars

---------------------------------------------------------------------------
\* Properties.

Readable(c) == file # Torn /\ file[c] # None

SolventTreasury(t) == t.balance = t.incoming - t.outgoing /\ t.balance >= 0
SolventAll(all) ==
  \A c \in Communities : all[c] # None => SolventTreasury(all[c].treasury)

\* Whatever operations overlap, fail or die, no file ever written holds a
\* treasury that is overdrawn or that does not add up: buy_seedbox checks and
\* charges one copy, and a purchase from an old copy also undoes the rest.
Solvent == file # Torn => SolventAll(file)

\* Whatever operations overlap, fail or die, a member of the file other than
\* its founder was reported to the audit log, and a seedbox of the file was
\* launched: join_community records before it saves, buy_seedbox launches
\* before it charges.
RecordsBacked ==
  \A c \in Communities : Readable(c) =>
    /\ \A i \in DOMAIN file[c].members :
         LET member == file[c].members[i].agent IN
         member = file[c].founder
           \/ \E j \in DOMAIN audit :
                /\ audit[j].action = "community_member_added"
                /\ audit[j].community = c /\ audit[j].agent = member
    /\ \A k \in DOMAIN file[c].boxes : file[c].boxes[k] \in launched

Guests(x, k) == {i \in DOMAIN x.members : x.members[i].box = x.boxes[k]}

\* In a community with a seedbox every member has one of its seedboxes, and
\* the seedboxes fill up in the order they were made: no one is put into a
\* later one while an earlier one has room, and only the last is ever
\* overfull (_rebalance_members after every join and purchase).
HousedInOrder ==
  \A c \in Communities : Readable(c) /\ file[c].boxes # <<>> =>
    LET x == file[c] IN
    /\ \A i \in DOMAIN x.members : \E k \in DOMAIN x.boxes : i \in Guests(x, k)
    /\ \A k \in DOMAIN x.boxes : \A l \in DOMAIN x.boxes :
         k < l /\ Guests(x, l) # {} => Cardinality(Guests(x, k)) = Capacity

\* The books as the audit log has them, and as the file has them.
Among(e, c, actions) == e.community = c /\ e.action \in actions
Total(events, c, actions) ==
  FoldLeft(LAMBDA sum, e : IF Among(e, c, actions) THEN sum + e.sats ELSE sum,
           0, events)
Paying == {"community_created", "community_treasury_funded", "community_member_added"}
Joining == {"community_created", "community_member_added"}
Buying == {"seedbox_registered"}

Reported(events, c) ==
  [incoming |-> Total(events, c, Paying), outgoing |-> Total(events, c, Buying),
   agents |-> {e.agent : e \in {d \in ToSet(events) : Among(d, c, Joining)}},
   boxes  |-> {e.about : e \in {d \in ToSet(events) : Among(d, c, Buying)}}]
Kept(x) ==
  [incoming |-> x.treasury.incoming, outgoing |-> x.treasury.outgoing,
   agents |-> {x.members[i].agent : i \in DOMAIN x.members},
   boxes  |-> ToSet(x.boxes)]

\* As long as no two operations overlapped and none died, once all have ended
\* the file says what the audit log says: the treasury received and spent what
\* was reported, and members and seedboxes are those reported.  An expansion
\* in the middle of a join reads the file again, so it must not undo the join.
NothingLostAlone ==
  ~ overlapped /\ mishaps = 0 /\ (\A p \in Processes : Idle(p)) =>
    /\ file # Torn
    /\ \A c \in Communities : file[c] # None => Kept(file[c]) = Reported(audit, c)
=============================================================================

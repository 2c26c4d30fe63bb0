------------------------- MODULE ClawCommunityProofs -------------------------
(***************************************************************************)
(* Proofs about the file of the claw community service, for any number of  *)
(* processes, operations, deaths and failures: no treasury in it is ever   *)
(* overdrawn, everyone in it was reported and every seedbox launched, and  *)
(* members are housed by the rule; and of operations one at a time, that   *)
(* the file says what the audit log says.                                  *)
(*                                                                         *)
(* The file is overwritten with copies that were read earlier, so the      *)
(* invariant is not about the file alone: every copy that some process is  *)
(* still to write is as sound, and what its members and seedboxes rest on  *)
(* is done, or will be by the same process before it writes.  For the last *)
(* result a second invariant says of the effects still to come what file   *)
(* and what books they lead to.                                            *)
(***************************************************************************)
EXTENDS ClawCommunity, SequenceTheorems, FiniteSetTheorems,
        WellFoundedInduction, TLAPS

---------------------------------------------------------------------------
\* Lists.

IsList(s) == s \in Seq({s[i] : i \in DOMAIN s})
NoRepeats(s) == \A k \in DOMAIN s : \A l \in DOMAIN s : s[k] = s[l] => k = l
Parts(s) == {s[i] : i \in DOMAIN s}

LEMMA ListIn ==
  ASSUME NEW S, NEW s \in Seq(S)
  PROVE  IsList(s) /\ Len(s) \in Nat /\ DOMAIN s = 1..Len(s)
<1>1. Len(s) \in Nat /\ DOMAIN s = 1..Len(s) /\ s = [i \in 1..Len(s) |-> s[i]]
  OBVIOUS
<1> QED
  BY <1>1 DEF IsList

LEMMA ListShape ==
  ASSUME NEW s, IsList(s)
  PROVE  Len(s) \in Nat /\ DOMAIN s = 1..Len(s) /\ s \in Seq(Parts(s))
BY DEF IsList, Parts

LEMMA ListAppend ==
  ASSUME NEW s, IsList(s), NEW e
  PROVE  /\ IsList(Append(s, e))
         /\ Len(Append(s, e)) = Len(s) + 1
         /\ \A i \in 1..Len(s) : Append(s, e)[i] = s[i]
         /\ Append(s, e)[Len(s) + 1] = e
<1> DEFINE S == Parts(s) \cup {e}
<1>1. s \in Seq(S) /\ e \in S
  BY ListShape
<1> HIDE DEF S
<1>2. Append(s, e) \in Seq(S)
  BY <1>1, AppendProperties
<1>3. IsList(Append(s, e))
  BY <1>2, ListIn
<1> QED
  BY <1>1, <1>3, AppendProperties

LEMMA ListConcat ==
  ASSUME NEW s, NEW t, IsList(s), IsList(t)
  PROVE  /\ IsList(s \o t)
         /\ Len(s \o t) = Len(s) + Len(t)
         /\ \A i \in 1..Len(s) + Len(t) :
              (s \o t)[i] = IF i <= Len(s) THEN s[i] ELSE t[i - Len(s)]
<1> DEFINE S == Parts(s) \cup Parts(t)
<1>1. s \in Seq(S) /\ t \in Seq(S)
  BY ListShape
<1> HIDE DEF S
<1>2. s \o t \in Seq(S)
  BY <1>1, ConcatProperties
<1>3. IsList(s \o t)
  BY <1>2, ListIn
<1> QED
  BY <1>1, <1>3, ConcatProperties

LEMMA ListTail ==
  ASSUME NEW s, IsList(s), s # <<>>
  PROVE  /\ Len(s) >= 1 /\ Head(s) = s[1]
         /\ IsList(Tail(s)) /\ Len(Tail(s)) = Len(s) - 1
         /\ \A i \in 1..Len(s) - 1 : Tail(s)[i] = s[i + 1]
<1>1. s \in Seq(Parts(s))
  BY ListShape
<1>2. Tail(s) \in Seq(Parts(s)) /\ Len(Tail(s)) = Len(s) - 1
      /\ \A i \in 1..Len(Tail(s)) : Tail(s)[i] = s[i + 1]
  BY <1>1, HeadTailProperties
<1>3. Len(s) >= 1 /\ Head(s) = s[1]
  BY <1>1
<1> QED
  BY <1>2, <1>3, ListIn

LEMMA SmallestIndex ==
  ASSUME NEW I, I \subseteq Nat, I # {}
  PROVE  Min(I) \in I
<1>1. PICK i \in I : \A k \in I : ~ (<<k, i>> \in OpToRel(<, Nat))
  BY NatLessThanWellFounded, WFMin
<1>2. \A k \in Nat, l \in Nat : k < l => <<k, l>> \in OpToRel(<, Nat)
  BY DEF OpToRel
<1>3. \A k \in I : ~ (k < i)
  BY <1>1, <1>2
<1>4. \A k \in I : i =< k
  BY <1>3
<1> QED
  BY <1>4 DEF Min

LEMMA WithoutOne ==
  ASSUME NEW S, NEW s \in Seq(S), NEW i \in 1..Len(s)
  PROVE  /\ RemoveAt(s, i) \in Seq(S)
         /\ Len(RemoveAt(s, i)) = Len(s) - 1
         /\ \A k \in 1..Len(s) - 1 :
              RemoveAt(s, i)[k] = IF k < i THEN s[k] ELSE s[k + 1]
<1> DEFINE n == Len(s)
           front == SubSeq(s, 1, i - 1)
           back == SubSeq(s, i + 1, n)
           r == front \o back
<1>1. n \in Nat /\ i \in 1..n /\ \A k \in 1..n : s[k] \in S
  OBVIOUS
<1>2. /\ front \in Seq(S) /\ Len(front) = i - 1
      /\ \A k \in 1..i - 1 : front[k] = s[k]
  BY <1>1, SubSeqProperties
<1>3. /\ back \in Seq(S) /\ Len(back) = n - i
      /\ \A k \in 1..n - i : back[k] = s[k + i]
  BY <1>1, SubSeqProperties
<1>4. RemoveAt(s, i) = r
  BY DEF RemoveAt
<1> HIDE DEF front, back, n
<1>5. /\ r \in Seq(S) /\ Len(r) = Len(front) + Len(back)
      /\ \A k \in 1..Len(front) + Len(back) :
           r[k] = IF k <= Len(front) THEN front[k] ELSE back[k - Len(front)]
  BY <1>2, <1>3, ConcatProperties
<1> HIDE DEF r
<1>6. r \in Seq(S) /\ Len(r) = n - 1
  BY <1>1, <1>2, <1>3, <1>5
<1>7. ASSUME NEW k \in 1..n - 1
      PROVE  r[k] = IF k < i THEN s[k] ELSE s[k + 1]
  <2>1. k \in 1..Len(front) + Len(back)
    BY <1>1, <1>2, <1>3
  <2>2. CASE k < i
    <3>1. k <= Len(front) /\ k \in 1..i - 1
      BY <1>1, <1>2, <2>2
    <3>2. r[k] = front[k] /\ front[k] = s[k]
      BY <1>2, <1>5, <2>1, <3>1
    <3> QED
      BY <2>2, <3>2
  <2>3. CASE ~ (k < i)
    <3>1. r[k] = back[k - (i - 1)]
      BY <1>1, <1>2, <1>5, <2>1, <2>3
    <3>2. k - (i - 1) \in 1..n - i /\ k - (i - 1) + i = k + 1
      BY <1>1, <2>3
    <3> QED
      BY <1>3, <2>3, <3>1, <3>2
  <2> QED
    BY <2>2, <2>3
<1> QED
  BY <1>4, <1>6, <1>7 DEF n

\* A list with one part taken out; a part that it holds once is then gone.
LEMMA Shorter ==
  ASSUME NEW s, IsList(s), NEW i \in 1..Len(s)
  PROVE  /\ IsList(RemoveAt(s, i))
         /\ \A k \in DOMAIN RemoveAt(s, i) : \E l \in DOMAIN s \ {i} :
              RemoveAt(s, i)[k] = s[l] /\ l = IF k < i THEN k ELSE k + 1
<1> DEFINE r == RemoveAt(s, i)
<1>1. s \in Seq(Parts(s)) /\ DOMAIN s = 1..Len(s) /\ Len(s) \in Nat
  BY ListShape
<1>2. r \in Seq(Parts(s)) /\ Len(r) = Len(s) - 1
      /\ \A k \in 1..Len(s) - 1 : r[k] = IF k < i THEN s[k] ELSE s[k + 1]
  BY <1>1, WithoutOne
<1>3. IsList(r) /\ DOMAIN r = 1..Len(s) - 1
  BY <1>2, ListIn
<1> HIDE DEF r
<1>4. ASSUME NEW k \in DOMAIN r
      PROVE  \E l \in DOMAIN s \ {i} : r[k] = s[l] /\ l = IF k < i THEN k ELSE k + 1
  <2> DEFINE l == IF k < i THEN k ELSE k + 1
  <2>1. l \in DOMAIN s \ {i} /\ r[k] = s[l]
    BY <1>1, <1>2, <1>3
  <2> QED
    BY <2>1
<1> QED
  BY <1>3, <1>4 DEF r

LEMMA TakenOut ==
  ASSUME NEW S, NEW s \in Seq(S), NEW i \in 1..Len(s)
  PROVE  /\ RemoveAt(s, i) \in Seq(S)
         /\ Parts(s) = Parts(RemoveAt(s, i)) \cup {s[i]}
<1> DEFINE r == RemoveAt(s, i)
<1>1. /\ r \in Seq(S) /\ Len(r) = Len(s) - 1
      /\ \A k \in 1..Len(s) - 1 : r[k] = IF k < i THEN s[k] ELSE s[k + 1]
  BY WithoutOne
<1>2. /\ Len(s) \in Nat /\ DOMAIN s = 1..Len(s) /\ DOMAIN r = 1..Len(s) - 1
      /\ i \in 1..Len(s)
  BY <1>1
<1> HIDE DEF r
<1>3. ASSUME NEW k \in DOMAIN s, k # i
      PROVE  \E l \in DOMAIN r : s[k] = r[l]
  <2> DEFINE l == IF k < i THEN k ELSE k - 1
  <2>1. l \in DOMAIN r /\ (l < i <=> k < i) /\ (~ (k < i) => l + 1 = k)
    BY <1>2, <1>3
  <2>2. r[l] = s[k]
    <3>1. l \in 1..Len(s) - 1
      BY <1>2, <2>1
    <3>2. r[l] = IF l < i THEN s[l] ELSE s[l + 1]
      BY <1>1, <3>1
    <3> QED
      BY <2>1, <3>2
  <2> QED
    BY <2>1, <2>2
<1>4. \A k \in DOMAIN r : \E l \in DOMAIN s : r[k] = s[l]
  <2> TAKE k \in DOMAIN r
  <2>1. k \in DOMAIN s /\ k + 1 \in DOMAIN s /\ (r[k] = s[k] \/ r[k] = s[k + 1])
    BY <1>1, <1>2
  <2> QED
    BY <2>1
<1>5. Parts(s) \subseteq Parts(r) \cup {s[i]}
  BY <1>3 DEF Parts
<1>6. Parts(r) \cup {s[i]} \subseteq Parts(s)
  BY <1>2, <1>4 DEF Parts
<1> QED
  BY <1>1, <1>5, <1>6 DEF r

LEMMA WithoutFirst ==
  ASSUME NEW S, NEW s \in Seq(S), NEW e
  PROVE  LET r == RemoveFirst(s, e) IN
         r \in Seq(S) /\ Parts(r) \cup {e} = Parts(s) \cup {e}
<1> DEFINE r == RemoveFirst(s, e)
           I == {i \in 1..Len(s) : s[i] = e}
<1>1. CASE I = {}
  BY <1>1 DEF RemoveFirst
<1>2. CASE I # {}
  <2>1. I \subseteq Nat /\ I \subseteq 1..Len(s) /\ \A i \in I : s[i] = e
    OBVIOUS
  <2>2. r = RemoveAt(s, Min(I))
    BY <1>2 DEF RemoveFirst, SelectInSeq
  <2> HIDE DEF I, r
  <2>3. PICK i \in 1..Len(s) : r = RemoveAt(s, i) /\ s[i] = e
    BY <1>2, <2>1, <2>2, SmallestIndex
  <2>4. r \in Seq(S) /\ Parts(s) = Parts(r) \cup {s[i]}
    BY <2>3, TakenOut
  <2> QED
    BY <2>3, <2>4 DEF r
<1> QED
  BY <1>1, <1>2

AgentsOf(s) == {s[i].agent : i \in DOMAIN s}

\* Whoever joins comes after the others, and not twice.
LEMMA JoinedMembers ==
  ASSUME NEW x \in Community, NEW m \in Member
  PROVE  \E r \in Seq(Member) :
           /\ Joined(x, m) = [x EXCEPT !.members = Append(r, m)]
           /\ AgentsOf(r) \cup {m.agent} = AgentsOf(x.members) \cup {m.agent}
<1> DEFINE s == x.members
           r == RemoveFirstMatch(s, LAMBDA e : e.agent = m.agent)
           I == {i \in 1..Len(s) : s[i].agent = m.agent}
<1>1. s \in Seq(Member)
  BY DEF Community
<1>2. r \in Seq(Member) /\ AgentsOf(r) \cup {m.agent} = AgentsOf(s) \cup {m.agent}
  <2>1. CASE I = {}
    BY <1>1, <2>1 DEF RemoveFirstMatch
  <2>2. CASE I # {}
    <3>1. I \subseteq Nat /\ I \subseteq 1..Len(s) /\ \A i \in I : s[i].agent = m.agent
      OBVIOUS
    <3>2. r = RemoveAt(s, Min(I))
      BY <2>2 DEF RemoveFirstMatch, SelectInSeq
    <3> HIDE DEF I, r, s
    <3>3. PICK i \in 1..Len(s) : r = RemoveAt(s, i) /\ s[i].agent = m.agent
      BY <2>2, <3>1, <3>2, SmallestIndex
    <3>4. r \in Seq(Member) /\ Parts(s) = Parts(r) \cup {s[i]}
      BY <1>1, <3>3, TakenOut
    <3>5. \A t : AgentsOf(t) = {e.agent : e \in Parts(t)}
      BY DEF AgentsOf, Parts
    <3>6. AgentsOf(s) = AgentsOf(r) \cup {m.agent}
      BY <3>3, <3>4, <3>5
    <3> QED
      BY <3>4, <3>6
  <2> QED
    BY <2>1, <2>2
<1>3. Joined(x, m) = [x EXCEPT !.members = Append(r, m)]
  BY DEF Joined
<1> QED
  BY <1>2, <1>3

LEMMA WithoutPart ==
  ASSUME NEW s, IsList(s), NoRepeats(s), NEW e
  PROVE  /\ IsList(RemoveFirst(s, e))
         /\ NoRepeats(RemoveFirst(s, e))
         /\ Parts(RemoveFirst(s, e)) \subseteq Parts(s) \ {e}
<1> DEFINE r == RemoveFirst(s, e)
           I == {i \in 1..Len(s) : s[i] = e}
<1>1. DOMAIN s = 1..Len(s) /\ Len(s) \in Nat
  BY ListShape
<1>2. CASE I = {}
  <2>1. r = s
    BY <1>2 DEF RemoveFirst
  <2> QED
    BY <1>1, <1>2, <2>1 DEF Parts
<1>3. CASE I # {}
  <2>1. I \subseteq Nat
    BY <1>1
  <2>2. r = RemoveAt(s, Min(I))
    BY <1>3 DEF RemoveFirst, SelectInSeq
  <2>3. PICK i \in I : r = RemoveAt(s, i)
    <3> HIDE DEF I
    <3> QED
      BY <1>3, <2>1, <2>2, SmallestIndex
  <2>4. IsList(r) /\ \A k \in DOMAIN r : \E l \in DOMAIN s \ {i} :
                        r[k] = s[l] /\ l = IF k < i THEN k ELSE k + 1
    BY <2>3, Shorter
  <2>5. DOMAIN r \subseteq Nat
    BY <2>4, ListShape
  <2> HIDE DEF r
  <2>6. NoRepeats(r)
    <3> SUFFICES ASSUME NEW k \in DOMAIN r, NEW l \in DOMAIN r, r[k] = r[l]
                 PROVE  k = l
      BY DEF NoRepeats
    <3>1. (IF k < i THEN k ELSE k + 1) = (IF l < i THEN l ELSE l + 1)
      BY <2>4 DEF NoRepeats
    <3> QED
      BY <1>1, <2>5, <3>1
  <2>7. ASSUME NEW k \in DOMAIN r
        PROVE  r[k] \in Parts(s) \ {e}
    BY <2>4, <2>7 DEF NoRepeats, Parts
  <2> QED
    BY <2>4, <2>6, <2>7 DEF r, Parts
<1> QED
  BY <1>2, <1>3

---------------------------------------------------------------------------
\* What a community in the file is.

Afloat(x) ==
  /\ {"balance", "incoming", "outgoing"} \subseteq DOMAIN x.treasury
  /\ x.treasury.balance \in Int
  /\ x.treasury.incoming \in Int
  /\ x.treasury.outgoing \in Int
  /\ SolventTreasury(x.treasury)

\* Its members and its seedboxes, none of these twice.
Listed(x) ==
  /\ x \in Community
  /\ {"founder", "treasury", "members", "boxes", "files"} \subseteq DOMAIN x
  /\ IsList(x.members)
  /\ \A i \in DOMAIN x.members : {"agent", "box"} \subseteq DOMAIN x.members[i]
  /\ IsList(x.boxes) /\ NoRepeats(x.boxes)

\* Whose place follows from the order in which they joined.
SeatOf(x, i) ==
  LET n == (i - 1) \div Capacity + 1
  IN  x.boxes[IF n <= Len(x.boxes) THEN n ELSE Len(x.boxes)]
Seated(x) ==
  x.boxes # <<>> => \A i \in DOMAIN x.members : x.members[i].box = SeatOf(x, i)

\* Everyone in it is the founder or among those told of, its seedboxes are
\* among those set up.
Vouched(x, c, told, setUp) ==
  /\ \A i \in DOMAIN x.members :
       x.members[i].agent = x.founder \/ <<c, x.members[i].agent>> \in told
  /\ Parts(x.boxes) \subseteq setUp

SoundAll(all, told, setUp) ==
  /\ all \in [Communities -> Community \cup {None}]
  /\ \A c \in Communities : all[c] # None =>
       /\ Afloat(all[c]) /\ Listed(all[c]) /\ Seated(all[c])
       /\ Vouched(all[c], c, told, setUp)

---------------------------------------------------------------------------
\* What an effect adds to those told of and those set up.
ToldOf(e) ==
  IF e.do = "record" /\ e.event.action = "community_member_added"
  THEN {<<e.event.community, e.event.agent>>} ELSE {}
SetUpOf(e) == IF e.do = "launch" THEN {e.box} ELSE {}

ToldBefore(s, k) == UNION {ToldOf(s[i]) : i \in 1..k - 1}
SetUpBefore(s, k) == UNION {SetUpOf(s[i]) : i \in 1..k - 1}

\* Effects of which each write is sound when those before it are done.
Harmless(s, told, setUp) ==
  /\ IsList(s)
  /\ \A k \in DOMAIN s :
       /\ s[k].do = "write" =>
            SoundAll(s[k].all, told \cup ToldBefore(s, k), setUp \cup SetUpBefore(s, k))
       /\ s[k].do = "buy" => s[k].community \in Communities

LEMMA SoundMonotone ==
  ASSUME NEW all, NEW told, NEW setUp, SoundAll(all, told, setUp),
         NEW told2, told \subseteq told2, NEW setUp2, setUp \subseteq setUp2
  PROVE  SoundAll(all, told2, setUp2)
BY DEF SoundAll, Vouched

LEMMA HarmlessMonotone ==
  ASSUME NEW s, NEW told, NEW setUp, Harmless(s, told, setUp),
         NEW told2, told \subseteq told2, NEW setUp2, setUp \subseteq setUp2
  PROVE  Harmless(s, told2, setUp2)
<1>1. ASSUME NEW k \in DOMAIN s, s[k].do = "write"
      PROVE  SoundAll(s[k].all, told2 \cup ToldBefore(s, k), setUp2 \cup SetUpBefore(s, k))
  <2>1. SoundAll(s[k].all, told \cup ToldBefore(s, k), setUp \cup SetUpBefore(s, k))
    BY <1>1 DEF Harmless
  <2>2. /\ told \cup ToldBefore(s, k) \subseteq told2 \cup ToldBefore(s, k)
        /\ setUp \cup SetUpBefore(s, k) \subseteq setUp2 \cup SetUpBefore(s, k)
    OBVIOUS
  <2> QED
    BY <2>1, <2>2, SoundMonotone
<1> QED
  BY <1>1 DEF Harmless

LEMMA NoEffects ==
  ASSUME NEW told, NEW setUp
  PROVE  Harmless(<<>>, told, setUp)
<1> SUFFICES ASSUME NEW s, s = <<>>
             PROVE  Harmless(s, told, setUp)
  OBVIOUS
<1>1. s \in Seq({}) /\ DOMAIN s = {}
  OBVIOUS
<1> QED
  BY <1>1, ListIn DEF Harmless

LEMMA OneList ==
  ASSUME NEW e
  PROVE  IsList(<<e>>) /\ Len(<<e>>) = 1 /\ <<e>>[1] = e
<1> SUFFICES ASSUME NEW s, NEW S, s = <<e>>, S = {e}
             PROVE  IsList(s) /\ Len(s) = 1 /\ s[1] = e
  OBVIOUS
<1>1. s \in Seq(S)
  OBVIOUS
<1> QED
  BY <1>1, ListIn

LEMMA OneEffect ==
  ASSUME NEW e, NEW told, NEW setUp,
         e.do # "write", e.do = "buy" => e.community \in Communities
  PROVE  Harmless(<<e>>, told, setUp)
<1> SUFFICES ASSUME NEW s, s = <<e>>
             PROVE  Harmless(s, told, setUp)
  OBVIOUS
<1>1. IsList(s) /\ Len(s) = 1 /\ s[1] = e
  BY OneList
<1>2. \A k \in DOMAIN s : s[k] = e
  BY <1>1, ListShape
<1> QED
  BY <1>1, <1>2 DEF Harmless

\* Effects after others: what is before a write is still before it.
LEMMA MoreEffects ==
  ASSUME NEW s, NEW t, NEW told, NEW setUp,
         Harmless(s, told, setUp), Harmless(t, told, setUp)
  PROVE  Harmless(s \o t, told, setUp)
<1> DEFINE r == s \o t
<1>1. /\ IsList(s) /\ Len(s) \in Nat /\ DOMAIN s = 1..Len(s)
      /\ IsList(t) /\ Len(t) \in Nat /\ DOMAIN t = 1..Len(t)
  BY ListShape DEF Harmless
<1>2. IsList(r) /\ Len(r) = Len(s) + Len(t)
      /\ \A i \in 1..Len(s) + Len(t) : r[i] = IF i <= Len(s) THEN s[i] ELSE t[i - Len(s)]
  BY <1>1, ListConcat
<1>3. DOMAIN r = 1..Len(s) + Len(t)
  BY <1>2, ListShape
<1> HIDE DEF r
<1>4. \A i \in DOMAIN s : i \in DOMAIN r /\ r[i] = s[i]
  BY <1>1, <1>2, <1>3
<1>5. \A i \in DOMAIN t : i + Len(s) \in DOMAIN r /\ r[i + Len(s)] = t[i]
  BY <1>1, <1>2, <1>3
<1>6. ASSUME NEW k \in DOMAIN r
      PROVE  /\ r[k].do = "write" =>
                  SoundAll(r[k].all, told \cup ToldBefore(r, k), setUp \cup SetUpBefore(r, k))
             /\ r[k].do = "buy" => r[k].community \in Communities
  <2>1. CASE k \in DOMAIN s
    <3>1. ToldBefore(s, k) = ToldBefore(r, k) /\ SetUpBefore(s, k) = SetUpBefore(r, k)
      <4>1. \A i \in 1..k - 1 : r[i] = s[i]
        BY <1>1, <1>4, <2>1
      <4> QED
        BY <4>1 DEF ToldBefore, SetUpBefore
    <3> QED
      BY <1>4, <2>1, <3>1 DEF Harmless
  <2>2. CASE k \notin DOMAIN s
    <3>1. PICK j \in DOMAIN t : k = j + Len(s)
      <4>1. k - Len(s) \in DOMAIN t /\ k = k - Len(s) + Len(s)
        BY <1>1, <1>3, <2>2
      <4> QED
        BY <4>1
    <3>2. \A i \in 1..j - 1 : i + Len(s) \in 1..k - 1 /\ r[i + Len(s)] = t[i]
      BY <1>1, <1>5, <3>1
    <3>3. ToldBefore(t, j) \subseteq ToldBefore(r, k)
      BY <3>2 DEF ToldBefore
    <3>4. SetUpBefore(t, j) \subseteq SetUpBefore(r, k)
      BY <3>2 DEF SetUpBefore
    <3>5. r[k] = t[j]
      BY <1>5, <3>1
    <3>6. r[k].do = "write" =>
            SoundAll(r[k].all, told \cup ToldBefore(t, j), setUp \cup SetUpBefore(t, j))
      BY <3>5 DEF Harmless
    <3>7. /\ told \cup ToldBefore(t, j) \subseteq told \cup ToldBefore(r, k)
          /\ setUp \cup SetUpBefore(t, j) \subseteq setUp \cup SetUpBefore(r, k)
      BY <3>3, <3>4
    <3>8. r[k].do = "write" =>
            SoundAll(r[k].all, told \cup ToldBefore(r, k), setUp \cup SetUpBefore(r, k))
      BY <3>6, <3>7, SoundMonotone
    <3> QED
      BY <3>5, <3>8 DEF Harmless
  <2> QED
    BY <2>1, <2>2
<1> QED
  BY <1>2, <1>6 DEF Harmless, r

\* Effects after one that adds to what they rest on.
LEMMA EffectsAfter ==
  ASSUME NEW e, NEW t, NEW told, NEW setUp,
         Harmless(t, told \cup ToldOf(e), setUp \cup SetUpOf(e)),
         e.do # "write", e.do = "buy" => e.community \in Communities
  PROVE  Harmless(<<e>> \o t, told, setUp)
<1> DEFINE r == <<e>> \o t
<1>1. IsList(t) /\ Len(t) \in Nat /\ DOMAIN t = 1..Len(t)
  BY ListShape DEF Harmless
<1>2. IsList(<<e>>) /\ Len(<<e>>) = 1 /\ <<e>>[1] = e
  BY OneList
<1>3. IsList(r) /\ Len(r) = 1 + Len(t)
      /\ \A i \in 1..1 + Len(t) : r[i] = IF i <= 1 THEN <<e>>[i] ELSE t[i - 1]
  BY <1>1, <1>2, ListConcat
<1>4. DOMAIN r = 1..1 + Len(t)
  BY <1>3, ListShape
<1> HIDE DEF r
<1>5. r[1] = e /\ \A i \in DOMAIN t : i + 1 \in DOMAIN r /\ r[i + 1] = t[i]
  BY <1>1, <1>2, <1>3, <1>4
<1>6. ASSUME NEW k \in DOMAIN r
      PROVE  /\ r[k].do = "write" =>
                  SoundAll(r[k].all, told \cup ToldBefore(r, k), setUp \cup SetUpBefore(r, k))
             /\ r[k].do = "buy" => r[k].community \in Communities
  <2>1. CASE k = 1
    BY <1>5, <2>1
  <2>2. CASE k # 1
    <3>1. PICK j \in DOMAIN t : k = j + 1
      <4>1. k - 1 \in DOMAIN t /\ k = k - 1 + 1
        BY <1>1, <1>4, <2>2
      <4> QED
        BY <4>1
    <3>2. \A i \in 1..j - 1 : i + 1 \in 1..k - 1 /\ r[i + 1] = t[i]
      BY <1>1, <1>5, <3>1
    <3>3. 1 \in 1..k - 1 /\ r[1] = e
      BY <1>1, <1>5, <3>1
    <3>4. ToldOf(e) \cup ToldBefore(t, j) \subseteq ToldBefore(r, k)
      BY <3>2, <3>3 DEF ToldBefore
    <3>5. SetUpOf(e) \cup SetUpBefore(t, j) \subseteq SetUpBefore(r, k)
      BY <3>2, <3>3 DEF SetUpBefore
    <3>6. r[k] = t[j]
      BY <1>5, <3>1
    <3>7. r[k].do = "write" =>
            SoundAll(r[k].all, (told \cup ToldOf(e)) \cup ToldBefore(t, j),
                     (setUp \cup SetUpOf(e)) \cup SetUpBefore(t, j))
      BY <3>6 DEF Harmless
    <3>8. /\ (told \cup ToldOf(e)) \cup ToldBefore(t, j) \subseteq told \cup ToldBefore(r, k)
          /\ (setUp \cup SetUpOf(e)) \cup SetUpBefore(t, j)
               \subseteq setUp \cup SetUpBefore(r, k)
      BY <3>4, <3>5
    <3>9. r[k].do = "write" =>
            SoundAll(r[k].all, told \cup ToldBefore(r, k), setUp \cup SetUpBefore(r, k))
      BY <3>7, <3>8, SoundMonotone
    <3> QED
      BY <3>6, <3>9 DEF Harmless
  <2> QED
    BY <2>1, <2>2
<1> QED
  BY <1>3, <1>6 DEF Harmless, r

\* Once the first effect is done, the rest rests on what it added.
LEMMA FirstEffect ==
  ASSUME NEW s, NEW told, NEW setUp, Harmless(s, told, setUp), s # <<>>
  PROVE  LET e == Head(s) IN
         /\ Harmless(Tail(s), told \cup ToldOf(e), setUp \cup SetUpOf(e))
         /\ e.do = "write" => SoundAll(e.all, told, setUp)
         /\ e.do = "buy" => e.community \in Communities
<1> DEFINE e == Head(s)
           t == Tail(s)
<1>1. IsList(s) /\ Len(s) \in Nat /\ DOMAIN s = 1..Len(s)
  BY ListShape DEF Harmless
<1>2. /\ Len(s) >= 1 /\ e = s[1] /\ IsList(t) /\ Len(t) = Len(s) - 1
      /\ \A i \in 1..Len(s) - 1 : t[i] = s[i + 1]
  BY <1>1, ListTail
<1>3. DOMAIN t = 1..Len(s) - 1
  BY <1>2, ListShape
<1> HIDE DEF e, t
<1>4. 1 \in DOMAIN s
  BY <1>1, <1>2
<1>5. e.do = "buy" => e.community \in Communities
  BY <1>2, <1>4 DEF Harmless
<1>6. e.do = "write" => SoundAll(e.all, told, setUp)
  <2>1. ToldBefore(s, 1) = {} /\ SetUpBefore(s, 1) = {}
    <3>1. 1..1 - 1 = {}
      OBVIOUS
    <3> QED
      BY <3>1 DEF ToldBefore, SetUpBefore
  <2>2. told \cup ToldBefore(s, 1) = told /\ setUp \cup SetUpBefore(s, 1) = setUp
    BY <2>1
  <2> QED
    BY <1>2, <1>4, <2>2 DEF Harmless
<1>7. ASSUME NEW k \in DOMAIN t
      PROVE  /\ t[k].do = "write" =>
                  SoundAll(t[k].all, (told \cup ToldOf(e)) \cup ToldBefore(t, k),
                           (setUp \cup SetUpOf(e)) \cup SetUpBefore(t, k))
             /\ t[k].do = "buy" => t[k].community \in Communities
  <2>1. k + 1 \in DOMAIN s /\ t[k] = s[k + 1]
    BY <1>1, <1>2, <1>3
  <2>2. ASSUME NEW i \in 1..(k + 1) - 1
        PROVE  s[i] = e \/ \E j \in 1..k - 1 : s[i] = t[j]
    <3>1. CASE i = 1
      BY <1>2, <3>1
    <3>2. CASE i # 1
      <4>1. i - 1 \in 1..k - 1 /\ i - 1 \in 1..Len(s) - 1 /\ i - 1 + 1 = i
        BY <1>1, <1>3, <3>2
      <4> QED
        BY <1>2, <4>1
    <3> QED
      BY <3>1, <3>2
  <2>3. ToldBefore(s, k + 1) \subseteq ToldOf(e) \cup ToldBefore(t, k)
    BY <2>2 DEF ToldBefore
  <2>4. SetUpBefore(s, k + 1) \subseteq SetUpOf(e) \cup SetUpBefore(t, k)
    BY <2>2 DEF SetUpBefore
  <2>5. t[k].do = "write" =>
          SoundAll(t[k].all, told \cup ToldBefore(s, k + 1), setUp \cup SetUpBefore(s, k + 1))
    BY <2>1 DEF Harmless
  <2>6. /\ told \cup ToldBefore(s, k + 1) \subseteq (told \cup ToldOf(e)) \cup ToldBefore(t, k)
        /\ setUp \cup SetUpBefore(s, k + 1)
             \subseteq (setUp \cup SetUpOf(e)) \cup SetUpBefore(t, k)
    BY <2>3, <2>4
  <2>7. t[k].do = "write" =>
          SoundAll(t[k].all, (told \cup ToldOf(e)) \cup ToldBefore(t, k),
                   (setUp \cup SetUpOf(e)) \cup SetUpBefore(t, k))
    BY <2>5, <2>6, SoundMonotone
  <2> QED
    BY <2>1, <2>7 DEF Harmless
<1> QED
  BY <1>2, <1>5, <1>6, <1>7 DEF Harmless, e, t

LEMMA OtherEffects ==
  ASSUME NEW told, NEW setUp
  PROVE  /\ \A box : Harmless(<<Launch(box)>>, told, setUp)
         /\ \A event : Harmless(<<Record(event)>>, told, setUp)
         /\ \A c \in Communities : \A a, machine :
              Harmless(<<Buy(c, a, machine)>>, told, setUp)
         /\ \A c, a : Harmless(<<Reread(c, a)>>, told, setUp)
<1>1. \A box : Harmless(<<Launch(box)>>, told, setUp)
  BY OneEffect DEF Launch
<1>2. \A event : Harmless(<<Record(event)>>, told, setUp)
  BY OneEffect DEF Record
<1>3. ASSUME NEW c \in Communities, NEW a, NEW machine
      PROVE  Harmless(<<Buy(c, a, machine)>>, told, setUp)
  BY OneEffect DEF Buy
<1>4. \A c, a : Harmless(<<Reread(c, a)>>, told, setUp)
  BY OneEffect DEF Reread
<1> QED
  BY <1>1, <1>2, <1>3, <1>4

LEMMA SaveHarmless ==
  ASSUME NEW all, NEW told, NEW setUp, SoundAll(all, told, setUp)
  PROVE  Harmless(Save(all), told, setUp)
<1> DEFINE empty == [do |-> "empty"]
           write == [do |-> "write", all |-> all]
<1>1. Harmless(<<empty>>, told, setUp)
  BY OneEffect
<1>2. Harmless(<<write>>, told, setUp)
  <2> SUFFICES ASSUME NEW s, s = <<write>>
               PROVE  Harmless(s, told, setUp)
    OBVIOUS
  <2>1. IsList(s) /\ Len(s) = 1 /\ s[1] = write
    BY OneList
  <2>2. \A k \in DOMAIN s : s[k] = write
    BY <2>1, ListShape
  <2>3. \A k : SoundAll(all, told \cup ToldBefore(s, k), setUp \cup SetUpBefore(s, k))
    BY SoundMonotone
  <2> QED
    BY <2>1, <2>2, <2>3 DEF Harmless
<1>3. Save(all) = <<empty>> \o <<write>>
  BY DEF Save
<1> QED
  BY <1>1, <1>2, <1>3, MoreEffects

---------------------------------------------------------------------------
\* What is done to a community.

LEMMA FundKept ==
  ASSUME NEW x \in Community, NEW sats \in Nat
  PROVE  LET y == fund(x, sats) IN
         /\ y \in Community
         /\ y.treasury.incoming = x.treasury.incoming + sats
         /\ y.treasury.outgoing = x.treasury.outgoing
         /\ y.members = x.members /\ y.boxes = x.boxes
<1> DEFINE y == fund(x, sats)
           u == x.treasury
           t == [u EXCEPT !.balance = @ + sats, !.incoming = @ + sats]
<1>1. y = [x EXCEPT !.treasury = t] /\ u \in Treasury
  BY DEF fund, Community
<1>2. DOMAIN u = {"balance", "incoming", "outgoing"}
      /\ u.balance \in Int /\ u.incoming \in Int /\ u.outgoing \in Int
  BY <1>1 DEF Treasury
<1>3. /\ DOMAIN t = DOMAIN u /\ t.balance = u.balance + sats
      /\ t.incoming = u.incoming + sats /\ t.outgoing = u.outgoing
      /\ t = [k \in DOMAIN u |-> t[k]]
  BY <1>2
<1> HIDE DEF t, y
<1>4. t = [balance |-> t.balance, incoming |-> t.incoming, outgoing |-> t.outgoing]
  BY <1>2, <1>3
<1>5. t \in Treasury
  BY <1>2, <1>3, <1>4 DEF Treasury
<1>6. y \in Community /\ y.treasury = t /\ y.members = x.members /\ y.boxes = x.boxes
  BY <1>1, <1>5 DEF Community
<1> QED
  BY <1>3, <1>6 DEF y

LEMMA ChargedKept ==
  ASSUME NEW x \in Community, NEW sats \in Nat
  PROVE  LET y == Charged(x, sats) IN
         /\ y \in Community
         /\ y.treasury.incoming = x.treasury.incoming
         /\ y.treasury.outgoing = x.treasury.outgoing + sats
         /\ y.members = x.members /\ y.boxes = x.boxes
<1> DEFINE y == Charged(x, sats)
           u == x.treasury
           t == [u EXCEPT !.balance = @ - sats, !.outgoing = @ + sats]
<1>1. y = [x EXCEPT !.treasury = t] /\ u \in Treasury
  BY DEF Charged, Community
<1>2. DOMAIN u = {"balance", "incoming", "outgoing"}
      /\ u.balance \in Int /\ u.incoming \in Int /\ u.outgoing \in Int
  BY <1>1 DEF Treasury
<1>3. /\ DOMAIN t = DOMAIN u /\ t.balance = u.balance - sats
      /\ t.outgoing = u.outgoing + sats /\ t.incoming = u.incoming
      /\ t = [k \in DOMAIN u |-> t[k]]
  BY <1>2
<1> HIDE DEF t, y
<1>4. t = [balance |-> t.balance, incoming |-> t.incoming, outgoing |-> t.outgoing]
  BY <1>2, <1>3
<1>5. t \in Treasury
  BY <1>2, <1>3, <1>4 DEF Treasury
<1>6. y \in Community /\ y.treasury = t /\ y.members = x.members /\ y.boxes = x.boxes
  BY <1>1, <1>5 DEF Community
<1> QED
  BY <1>3, <1>6 DEF y

LEMMA JoinedKept ==
  ASSUME NEW x \in Community, NEW m \in Member
  PROVE  LET y == Joined(x, m) IN
         /\ y \in Community /\ y.treasury = x.treasury /\ y.boxes = x.boxes
         /\ AgentsOf(y.members) = AgentsOf(x.members) \cup {m.agent}
<1>1. PICK r \in Seq(Member) :
        /\ Joined(x, m) = [x EXCEPT !.members = Append(r, m)]
        /\ AgentsOf(r) \cup {m.agent} = AgentsOf(x.members) \cup {m.agent}
  BY JoinedMembers
<1> DEFINE s == Append(r, m)
<1>2. s \in Seq(Member) /\ DOMAIN r = 1..Len(r) /\ DOMAIN s = 1..Len(r) + 1
      /\ Len(r) \in Nat /\ s[Len(r) + 1] = m /\ \A i \in 1..Len(r) : s[i] = r[i]
  OBVIOUS
<1> HIDE DEF s
<1>3. \A i \in DOMAIN s : i \in DOMAIN r \/ i = Len(r) + 1
  BY <1>2
<1>4. DOMAIN r \subseteq DOMAIN s /\ Len(r) + 1 \in DOMAIN s
  BY <1>2
<1>5. AgentsOf(s) = AgentsOf(r) \cup {m.agent}
  <2>1. AgentsOf(s) \subseteq AgentsOf(r) \cup {m.agent}
    BY <1>2, <1>3 DEF AgentsOf
  <2>2. AgentsOf(r) \cup {m.agent} \subseteq AgentsOf(s)
    BY <1>2, <1>4 DEF AgentsOf
  <2> QED
    BY <2>1, <2>2
<1>6. Joined(x, m) = [x EXCEPT !.members = s]
  BY <1>1 DEF s
<1>7. /\ Joined(x, m) \in Community /\ Joined(x, m).treasury = x.treasury
      /\ Joined(x, m).boxes = x.boxes /\ Joined(x, m).members = s
  BY <1>2, <1>6 DEF Community
<1> QED
  BY <1>1, <1>5, <1>7

LEMMA InstalledKept ==
  ASSUME NEW x \in Community, NEW box \in Box
  PROVE  LET y == Installed(x, box) IN
         /\ y \in Community /\ y.treasury = x.treasury /\ y.members = x.members
         /\ Parts(y.boxes) = Parts(x.boxes) \cup {box}
<1> DEFINE r == RemoveFirst(x.boxes, box)
           s == Append(r, box)
           y == Installed(x, box)
<1>1. r \in Seq(Box) /\ Parts(r) \cup {box} = Parts(x.boxes) \cup {box}
  BY WithoutFirst DEF Community
<1>2. y = [x EXCEPT !.boxes = s]
  BY DEF Installed
<1> HIDE DEF r, y
<1>3. s \in Seq(Box) /\ DOMAIN r = 1..Len(r) /\ DOMAIN s = 1..Len(r) + 1
      /\ Len(r) \in Nat /\ s[Len(r) + 1] = box /\ \A i \in 1..Len(r) : s[i] = r[i]
  BY <1>1
<1> HIDE DEF s
<1>4. \A i \in DOMAIN s : i \in DOMAIN r \/ i = Len(r) + 1
  BY <1>3
<1>5. DOMAIN r \subseteq DOMAIN s /\ Len(r) + 1 \in DOMAIN s
  BY <1>3
<1>6. Parts(s) = Parts(r) \cup {box}
  <2>1. Parts(s) \subseteq Parts(r) \cup {box}
    BY <1>3, <1>4 DEF Parts
  <2>2. Parts(r) \cup {box} \subseteq Parts(s)
    BY <1>3, <1>5 DEF Parts
  <2> QED
    BY <2>1, <2>2
<1>7. /\ y \in Community /\ y.treasury = x.treasury
      /\ y.members = x.members /\ y.boxes = s
  BY <1>2, <1>3 DEF Community
<1> QED
  BY <1>1, <1>6, <1>7 DEF y

Good(x, c, told, setUp) ==
  Afloat(x) /\ Listed(x) /\ Seated(x) /\ Vouched(x, c, told, setUp)

LEMMA FundGood ==
  ASSUME NEW x, NEW c, NEW told, NEW setUp, Good(x, c, told, setUp), NEW sats \in Nat
  PROVE  Good(fund(x, sats), c, told, setUp)
<1> DEFINE y == fund(x, sats)
<1>1. /\ DOMAIN y = DOMAIN x /\ y.founder = x.founder
      /\ y.members = x.members /\ y.boxes = x.boxes
  BY DEF Good, Listed, fund
<1>2. y.treasury = [x.treasury EXCEPT !.balance = @ + sats, !.incoming = @ + sats]
  BY DEF Good, Listed, fund
<1>0. y \in Community
  BY FundKept DEF Good, Listed
<1> HIDE DEF y
<1>3. Afloat(y)
  BY <1>2 DEF Good, Afloat, SolventTreasury
<1>4. Listed(y) /\ Seated(y) /\ Vouched(y, c, told, setUp)
  BY <1>0, <1>1 DEF Good, Listed, Seated, SeatOf, Vouched
<1> QED
  BY <1>3, <1>4 DEF Good, y

LEMMA ChargedGood ==
  ASSUME NEW x, NEW c, NEW told, NEW setUp, Good(x, c, told, setUp),
         NEW sats \in Nat, ~ (x.treasury.balance < sats)
  PROVE  Good(Charged(x, sats), c, told, setUp)
<1> DEFINE y == Charged(x, sats)
<1>1. /\ DOMAIN y = DOMAIN x /\ y.founder = x.founder
      /\ y.members = x.members /\ y.boxes = x.boxes
  BY DEF Good, Listed, Charged
<1>2. y.treasury = [x.treasury EXCEPT !.balance = @ - sats, !.outgoing = @ + sats]
  BY DEF Good, Listed, Charged
<1>0. y \in Community
  BY ChargedKept DEF Good, Listed
<1> HIDE DEF y
<1>3. Afloat(y)
  BY <1>2 DEF Good, Afloat, SolventTreasury
<1>4. Listed(y) /\ Seated(y) /\ Vouched(y, c, told, setUp)
  BY <1>0, <1>1 DEF Good, Listed, Seated, SeatOf, Vouched
<1> QED
  BY <1>3, <1>4 DEF Good, y

LEMMA RebalancedIn ==
  ASSUME NEW x \in Community
  PROVE  rebalance(x) \in Community
<1>1. CASE x.boxes = <<>>
  BY <1>1 DEF rebalance
<1>2. CASE x.boxes # <<>>
  <2> DEFINE m == [i \in DOMAIN x.members |-> [x.members[i] EXCEPT !.box = SeatOf(x, i)]]
  <2>1. rebalance(x) = [x EXCEPT !.members = m]
    BY <1>2 DEF rebalance, SeatOf
  <2>2. x.boxes \in Seq(Box) /\ x.members \in Seq(Member)
    BY DEF Community
  <2>3. DOMAIN x.members = 1..Len(x.members) /\ Len(x.members) \in Nat
    BY <2>2
  <2>4. \A i \in DOMAIN x.members : SeatOf(x, i) \in Box
    <3>1. Len(x.boxes) \in Nat /\ DOMAIN x.boxes = 1..Len(x.boxes) /\ Len(x.boxes) # 0
      BY <1>2, <2>2
    <3>2. \A k \in 1..Len(x.boxes) : x.boxes[k] \in Box
      BY <2>2
    <3>3. \A i \in DOMAIN x.members : (i - 1) \div Capacity + 1 \in Nat \ {0}
      BY <2>3, ClawAssumption
    <3> QED
      BY <3>1, <3>2, <3>3 DEF SeatOf
  <2>5. ASSUME NEW i \in DOMAIN x.members
        PROVE  m[i] \in Member
    <3>1. x.members[i] \in Member /\ SeatOf(x, i) \in Box
      BY <2>2, <2>3, <2>4
    <3> QED
      BY <3>1 DEF Member
  <2>6. m \in Seq(Member)
    <3>1. m \in [1..Len(x.members) -> Member]
      BY <2>3, <2>5
    <3> HIDE DEF m
    <3> QED
      BY <2>3, <3>1
  <2> HIDE DEF m
  <2> QED
    BY <2>1, <2>6 DEF Community
<1> QED
  BY <1>1, <1>2

\* Whatever the places were, they follow the rule after _rebalance_members.
LEMMA RebalanceGood ==
  ASSUME NEW x, NEW c, NEW told, NEW setUp,
         Afloat(x), Listed(x), Vouched(x, c, told, setUp)
  PROVE  Good(rebalance(x), c, told, setUp)
<1> DEFINE y == rebalance(x)
<1>1. CASE x.boxes = <<>>
  BY <1>1 DEF rebalance, Good, Seated
<1>2. CASE x.boxes # <<>>
  <2> DEFINE m == [i \in DOMAIN x.members |-> [x.members[i] EXCEPT !.box = SeatOf(x, i)]]
  <2>1. y = [x EXCEPT !.members = m]
    BY <1>2 DEF rebalance, SeatOf
  <2>2. /\ DOMAIN y = DOMAIN x /\ y.founder = x.founder /\ y.treasury = x.treasury
        /\ y.boxes = x.boxes /\ y.members = m
    BY <2>1 DEF Listed
  <2>3. DOMAIN x.members = 1..Len(x.members) /\ Len(x.members) \in Nat
    BY ListShape DEF Listed
  <2>4. /\ DOMAIN m = DOMAIN x.members
        /\ \A i \in DOMAIN m : m[i] = [x.members[i] EXCEPT !.box = SeatOf(x, i)]
    OBVIOUS
  <2> HIDE DEF y, m
  <2>5. \A i \in DOMAIN m : /\ DOMAIN m[i] = DOMAIN x.members[i]
                            /\ m[i].agent = x.members[i].agent
                            /\ m[i].box = SeatOf(x, i)
    BY <2>4 DEF Listed
  <2>6. IsList(m)
    <3>1. m = [i \in 1..Len(x.members) |-> m[i]]
      BY <2>3, <2>4 DEF m
    <3>2. m \in Seq({m[i] : i \in DOMAIN m})
      BY <2>3, <2>4, <3>1
    <3> QED
      BY <3>2 DEF IsList
  <2>7. Afloat(y)
    BY <2>2 DEF Afloat
  <2>11. y \in Community
    BY RebalancedIn DEF Listed, y
  <2>8. Listed(y)
    BY <2>2, <2>4, <2>5, <2>6, <2>11 DEF Listed
  <2>9. Seated(y)
    BY <2>2, <2>4, <2>5 DEF Seated, SeatOf
  <2>10. Vouched(y, c, told, setUp)
    BY <2>2, <2>4, <2>5 DEF Vouched
  <2> QED
    BY <2>7, <2>8, <2>9, <2>10 DEF Good, y
<1> QED
  BY <1>1, <1>2

LEMMA InstalledGood ==
  ASSUME NEW x, NEW c, NEW told, NEW setUp, Good(x, c, told, setUp), NEW box \in Box
  PROVE  Good(rebalance(Installed(x, box)), c, told, setUp \cup {box})
<1> DEFINE y == Installed(x, box)
           r == RemoveFirst(x.boxes, box)
<1>1. IsList(r) /\ NoRepeats(r) /\ Parts(r) \subseteq Parts(x.boxes) \ {box}
  BY WithoutPart DEF Good, Listed
<1>2. /\ DOMAIN y = DOMAIN x /\ y.founder = x.founder /\ y.treasury = x.treasury
      /\ y.members = x.members /\ y.boxes = Append(r, box)
  BY DEF Good, Listed, Installed
<1>10. y \in Community
  BY InstalledKept DEF Good, Listed
<1> HIDE DEF y, r
<1>3. /\ IsList(y.boxes) /\ Len(y.boxes) = Len(r) + 1
      /\ \A i \in 1..Len(r) : y.boxes[i] = r[i]
      /\ y.boxes[Len(r) + 1] = box
  BY <1>1, <1>2, ListAppend
<1>4. /\ Len(r) \in Nat /\ DOMAIN r = 1..Len(r)
      /\ DOMAIN y.boxes = 1..Len(r) + 1
  BY <1>1, <1>3, ListShape
<1>5. \A k \in DOMAIN y.boxes : \/ k \in DOMAIN r /\ y.boxes[k] = r[k]
                                \/ k = Len(r) + 1 /\ y.boxes[k] = box
  BY <1>3, <1>4
<1>6. \A k \in DOMAIN r : r[k] # box /\ r[k] \in Parts(x.boxes)
  BY <1>1 DEF Parts
<1>7. NoRepeats(y.boxes)
  BY <1>1, <1>5, <1>6 DEF NoRepeats
<1>8. Parts(y.boxes) \subseteq setUp \cup {box}
  BY <1>5, <1>6 DEF Good, Vouched, Parts
<1>9. Afloat(y) /\ Listed(y) /\ Vouched(y, c, told, setUp \cup {box})
  BY <1>2, <1>3, <1>7, <1>8, <1>10 DEF Good, Afloat, Listed, Vouched
<1> QED
  BY <1>9, RebalanceGood DEF y

LEMMA JoinedGood ==
  ASSUME NEW x, NEW c, NEW told, NEW setUp, Good(x, c, told, setUp),
         NEW a \in Agents, NEW sats \in Nat
  PROVE  Good(rebalance(Joined(x, [agent |-> a, sats |-> sats, box |-> None])),
              c, told \cup {<<c, a>>}, setUp)
<1> DEFINE member == [agent |-> a, sats |-> sats, box |-> None]
           y == Joined(x, member)
           r == RemoveFirstMatch(x.members, LAMBDA e : e.agent = member.agent)
           I == {i \in 1..Len(x.members) : x.members[i].agent = a}
<1>1. IsList(r) /\ Parts(r) \subseteq Parts(x.members)
  <2>1. IsList(x.members) /\ Len(x.members) \in Nat
    BY ListShape DEF Good, Listed
  <2>2. CASE I = {}
    <3>1. r = x.members
      BY <2>2 DEF RemoveFirstMatch
    <3> QED
      BY <2>1, <3>1
  <2>3. CASE I # {}
    <3>1. I \subseteq 1..Len(x.members) /\ I \subseteq Nat
      BY <2>1
    <3>2. r = RemoveAt(x.members, Min(I))
      BY <2>3 DEF RemoveFirstMatch, SelectInSeq
    <3> HIDE DEF I
    <3>3. PICK i \in 1..Len(x.members) : r = RemoveAt(x.members, i)
      BY <2>3, <3>1, <3>2, SmallestIndex
    <3> HIDE DEF r
    <3>4. IsList(r) /\ \A k \in DOMAIN r : \E l \in DOMAIN x.members : r[k] = x.members[l]
      BY <2>1, <3>3, Shorter
    <3> QED
      BY <3>4 DEF Parts
  <2> QED
    BY <2>2, <2>3
<1>2. /\ DOMAIN y = DOMAIN x /\ y.founder = x.founder /\ y.treasury = x.treasury
      /\ y.boxes = x.boxes /\ y.members = Append(r, member)
  BY DEF Good, Listed, Joined
<1>10. y \in Community
  <2>1. x \in Community /\ member \in Member
    BY DEF Good, Listed, Member
  <2> HIDE DEF member
  <2> QED
    BY <2>1, JoinedKept
<1> HIDE DEF y, r
<1>3. /\ IsList(y.members) /\ Len(y.members) = Len(r) + 1
      /\ \A i \in 1..Len(r) : y.members[i] = r[i]
      /\ y.members[Len(r) + 1] = member
  BY <1>1, <1>2, ListAppend
<1>4. /\ Len(r) \in Nat /\ DOMAIN r = 1..Len(r)
      /\ DOMAIN y.members = 1..Len(r) + 1
  BY <1>1, <1>3, ListShape
<1>5. ASSUME NEW k \in DOMAIN y.members
      PROVE  y.members[k] = member \/ \E l \in DOMAIN x.members : y.members[k] = x.members[l]
  <2>1. CASE k \in 1..Len(r)
    <3>1. y.members[k] = r[k] /\ r[k] \in Parts(r)
      BY <1>3, <1>4, <2>1 DEF Parts
    <3> QED
      BY <1>1, <3>1 DEF Parts
  <2>2. CASE k = Len(r) + 1
    BY <1>3, <2>2
  <2> QED
    BY <1>4, <2>1, <2>2
<1>6. {"agent", "box"} \subseteq DOMAIN member /\ member.agent = a
  OBVIOUS
<1> HIDE DEF member
<1>7. \A k \in DOMAIN y.members : {"agent", "box"} \subseteq DOMAIN y.members[k]
  BY <1>5, <1>6 DEF Good, Listed
<1>8. Vouched(y, c, told \cup {<<c, a>>}, setUp)
  BY <1>2, <1>5, <1>6 DEF Good, Vouched
<1>9. Afloat(y) /\ Listed(y)
  BY <1>2, <1>3, <1>7, <1>10 DEF Good, Afloat, Listed
<1> QED
  BY <1>8, <1>9, RebalanceGood DEF y, member

LEMMA ReplacedSound ==
  ASSUME NEW all, NEW told, NEW setUp, SoundAll(all, told, setUp),
         NEW c \in Communities, NEW told2, told \subseteq told2,
         NEW setUp2, setUp \subseteq setUp2, NEW new, Good(new, c, told2, setUp2)
  PROVE  SoundAll([all EXCEPT ![c] = new], told2, setUp2)
<1>1. SoundAll(all, told2, setUp2)
  BY SoundMonotone
<1> DEFINE r == [all EXCEPT ![c] = new]
<1>2. /\ r[c] = new /\ \A d \in Communities \ {c} : r[d] = all[d]
      /\ r \in [Communities -> Community \cup {None}]
  BY DEF SoundAll, Good, Listed
<1> HIDE DEF r
<1>3. \A d \in Communities : r[d] # None =>
        /\ Afloat(r[d]) /\ Listed(r[d]) /\ Seated(r[d])
        /\ Vouched(r[d], d, told2, setUp2)
  BY <1>1, <1>2 DEF SoundAll, Good
<1> QED
  BY <1>2, <1>3 DEF SoundAll, r

---------------------------------------------------------------------------
\* The operations, from a sound file.

LEMMA CreatedHarmless ==
  ASSUME NEW all, NEW told, NEW setUp, SoundAll(all, told, setUp),
         NEW c \in Communities, NEW a \in Agents, NEW sats \in Nat
  PROVE  Harmless(Created(all, c, a, sats), told, setUp)
<1> DEFINE member == [agent |-> a, sats |-> sats, box |-> None]
<1> SUFFICES ASSUME NEW new,
                    new = [founder |-> a,
                           treasury |-> [balance |-> 0, incoming |-> 0,
                                         outgoing |-> 0],
                           members |-> <<member>>,
                           boxes |-> <<>>,
                           files |-> [f \in FileIds |-> None]]
             PROVE  Harmless(Save([all EXCEPT ![c] = fund(new, sats)])
                      \o <<Record(Event("community_created", c, a, sats, None))>>,
                             told, setUp)
  BY DEF Created
<1>1. /\ IsList(new.members) /\ Len(new.members) = 1 /\ new.members[1] = member
  BY OneList
<1>2. \A i \in DOMAIN new.members : new.members[i] = member
  BY <1>1, ListShape
<1>3. IsList(new.boxes) /\ NoRepeats(new.boxes) /\ Parts(new.boxes) = {}
  <2>1. new.boxes = <<>> /\ new.boxes \in Seq({})
    OBVIOUS
  <2>2. IsList(new.boxes)
    BY <2>1, ListIn
  <2> QED
    BY <2>1, <2>2 DEF NoRepeats, Parts
<1>8. new \in Community
  <2>1. new.members \in Seq(Member)
    BY DEF Member
  <2>2. new.boxes \in Seq(Box) /\ new.files \in Files
    BY DEF Files
  <2> QED
    BY <2>1, <2>2 DEF Community, Treasury
<1>4. Listed(new) /\ Vouched(new, c, told, setUp)
  BY <1>1, <1>2, <1>3, <1>8 DEF Listed, Vouched
<1>5. Afloat(new) /\ Seated(new)
  BY DEF Afloat, SolventTreasury, Seated
<1>6. Good(new, c, told, setUp)
  BY <1>4, <1>5 DEF Good
<1>7. SoundAll([all EXCEPT ![c] = fund(new, sats)], told, setUp)
  BY <1>6, FundGood, ReplacedSound
<1> QED
  BY <1>7, SaveHarmless, OtherEffects, MoreEffects

LEMMA FundedHarmless ==
  ASSUME NEW all, NEW told, NEW setUp, SoundAll(all, told, setUp),
         NEW c \in Communities, NEW a, NEW sats \in Nat, all[c] # None
  PROVE  Harmless(Funded(all, c, a, sats), told, setUp)
<1>1. Good(fund(all[c], sats), c, told, setUp)
  BY FundGood DEF SoundAll, Good
<1>2. SoundAll([all EXCEPT ![c] = fund(@, sats)], told, setUp)
  BY <1>1, ReplacedSound
<1> QED
  BY <1>2, SaveHarmless, OtherEffects, MoreEffects DEF Funded

\* The balance that is compared with the price is the one charged, and the
\* machine is launched before it is written down.
LEMMA BuyHarmless ==
  ASSUME NEW all, NEW told, NEW setUp, SoundAll(all, told, setUp),
         NEW c \in Communities, NEW a, NEW machine,
         NEW host \in Nat, NEW price \in Nat, all[c] # None
  PROVE  Harmless(buy_seedbox(all, c, a, machine, host, price), told, setUp)
<1> DEFINE box == <<machine, host>>
           new == rebalance(Installed(Charged(all[c], price), box))
           saved == Save([all EXCEPT ![c] = new])
           last == <<Record(Event("seedbox_registered", c, a, price, box))>>
<1>1. CASE all[c].treasury.balance < price \/ machine \notin Machines
  BY <1>1, NoEffects DEF buy_seedbox
<1>2. CASE ~ (all[c].treasury.balance < price \/ machine \notin Machines)
  <2>1. Good(new, c, told, setUp \cup {box})
    <3>1. box \in Box
      BY <1>2 DEF Box
    <3> HIDE DEF box
    <3> QED
      BY <1>2, <3>1, ChargedGood, InstalledGood DEF SoundAll, Good
  <2>2. SoundAll([all EXCEPT ![c] = new], told, setUp \cup {box})
    BY <2>1, ReplacedSound
  <2>3. Harmless(saved, told, setUp \cup {box})
    BY <2>2, SaveHarmless
  <2>4. Harmless(<<Launch(box)>> \o saved, told, setUp)
    <3>1. ToldOf(Launch(box)) = {} /\ SetUpOf(Launch(box)) = {box}
      BY DEF Launch, ToldOf, SetUpOf
    <3>2. Launch(box).do = "launch"
      BY DEF Launch
    <3>3. told \cup ToldOf(Launch(box)) = told
      BY <3>1
    <3> QED
      BY <2>3, <3>1, <3>2, <3>3, EffectsAfter
  <2>5. Harmless(last, told, setUp)
    BY OtherEffects
  <2>6. buy_seedbox(all, c, a, machine, host, price) = <<Launch(box)>> \o saved \o last
    BY <1>2 DEF buy_seedbox
  <2> QED
    BY <2>4, <2>5, <2>6, MoreEffects
<1> QED
  BY <1>1, <1>2

LEMMA ExpandHarmless ==
  ASSUME NEW x, NEW c \in Communities, NEW a, NEW told, NEW setUp
  PROVE  Harmless(maybe_expand_seedboxes(x, c, a), told, setUp)
<1> DEFINE reached == <<Record(Event("seedbox_capacity_reached", c, a, 0, None))>>
           buy(machine) == <<Buy(c, a, machine)>>
<1>1. /\ Harmless(<<>>, told, setUp)
      /\ Harmless(reached, told, setUp)
      /\ Harmless(reached \o <<>>, told, setUp)
  BY NoEffects, OtherEffects, MoreEffects
<1>2. \A machine : Harmless(reached \o buy(machine), told, setUp)
  BY <1>1, OtherEffects, MoreEffects
<1> QED
  BY <1>1, <1>2 DEF maybe_expand_seedboxes

\* The member is reported before it is written down.
LEMMA JoinHarmless ==
  ASSUME NEW all, NEW told, NEW setUp, SoundAll(all, told, setUp),
         NEW c \in Communities, NEW a \in Agents, NEW sats \in Nat, all[c] # None
  PROVE  Harmless(join_community(all, c, a, sats), told, setUp)
<1> DEFINE member == [agent |-> a, sats |-> sats, box |-> None]
           new == rebalance(Joined(fund(all[c], sats), member))
           first == Record(Event("community_member_added", c, a, sats, None))
           saved == Save([all EXCEPT ![c] = new])
<1>1. CASE sats < JoinFee
  BY <1>1, NoEffects DEF join_community
<1>2. CASE ~ (sats < JoinFee)
  <2>1. Good(new, c, told \cup {<<c, a>>}, setUp)
    BY FundGood, JoinedGood DEF SoundAll, Good
  <2>2. SoundAll([all EXCEPT ![c] = new], told \cup {<<c, a>>}, setUp)
    BY <2>1, ReplacedSound
  <2>3. Harmless(saved, told \cup {<<c, a>>}, setUp)
    BY <2>2, SaveHarmless
  <2>4. Harmless(<<first>> \o saved, told, setUp)
    <3>1. /\ first.do = "record" /\ first.event.action = "community_member_added"
          /\ first.event.community = c /\ first.event.agent = a
      BY DEF Record, Event
    <3>2. ToldOf(first) = {<<c, a>>} /\ setUp \cup SetUpOf(first) = setUp
      BY <3>1 DEF ToldOf, SetUpOf
    <3> HIDE DEF first
    <3> QED
      BY <2>3, <3>1, <3>2, EffectsAfter
  <2>5. Harmless(maybe_expand_seedboxes(new, c, a), told, setUp)
    BY ExpandHarmless
  <2>6. Harmless(<<Reread(c, a)>>, told, setUp)
    BY OtherEffects
  <2>7. join_community(all, c, a, sats)
          = <<first>> \o saved \o maybe_expand_seedboxes(new, c, a) \o <<Reread(c, a)>>
    BY <1>2 DEF join_community
  <2> QED
    BY <2>4, <2>5, <2>6, <2>7, MoreEffects
<1> QED
  BY <1>1, <1>2

LEMMA ImportedHarmless ==
  ASSUME NEW all, NEW told, NEW setUp, SoundAll(all, told, setUp),
         NEW c \in Communities, NEW catalog \in Files, all[c] # None
  PROVE  Harmless(Imported(all, c, catalog), told, setUp)
<1> DEFINE Row(f) == IF catalog[f] = None THEN all[c].files[f] ELSE catalog[f]
           new == [all[c] EXCEPT !.files = [f \in FileIds |-> Row(f)]]
           last == <<Record(Event("file_catalog_imported", c, all[c].founder, 0, None))>>
<1>1. Good(all[c], c, told, setUp)
  BY DEF SoundAll, Good
<1>2. /\ DOMAIN new = DOMAIN all[c] /\ new.founder = all[c].founder
      /\ new.treasury = all[c].treasury
      /\ new.members = all[c].members /\ new.boxes = all[c].boxes
  BY <1>1 DEF Good, Listed
<1>7. new \in Community
  <2>1. all[c] \in Community
    BY <1>1 DEF Good, Listed
  <2>2. [f \in FileIds |-> Row(f)] \in Files
    BY <2>1 DEF Files, Community
  <2> HIDE DEF Row
  <2> QED
    BY <2>1, <2>2 DEF Community
<1> HIDE DEF new
<1>3. Good(new, c, told, setUp)
  BY <1>1, <1>2, <1>7 DEF Good, Afloat, Listed, Seated, SeatOf, Vouched
<1>4. Harmless(Save([all EXCEPT ![c] = new]), told, setUp)
  BY <1>3, ReplacedSound, SaveHarmless
<1>5. Harmless(last, told, setUp)
  BY OtherEffects
<1>6. Imported(all, c, catalog) = Save([all EXCEPT ![c] = new]) \o last
  BY DEF Imported, new
<1> QED
  BY <1>4, <1>5, <1>6, MoreEffects

---------------------------------------------------------------------------
\* The invariant and the steps.

\* Whom the audit log tells of as a member of which community.
Told ==
  {<<audit[j].community, audit[j].agent>> :
     j \in {i \in DOMAIN audit : audit[i].action = "community_member_added"}}

ClawInv ==
  /\ file # Torn => SoundAll(file, Told, launched)
  /\ DOMAIN running = Processes
  /\ \A p \in Processes : Harmless(running[p], Told, launched)
  /\ IsList(audit)

LEMMA BeginKeeps ==
  ASSUME ClawInv, NEW p \in Processes, NEW effects, Harmless(effects, Told, launched),
         Begin(p, effects)
  PROVE  ClawInv'
<1>1. Told' = Told /\ launched' = launched /\ audit' = audit /\ file' = file
  BY DEF Begin, Told
<1>2. DOMAIN running' = Processes
      /\ \A q \in Processes : running'[q] = IF q = p THEN effects ELSE running[q]
  BY DEF Begin, ClawInv
<1> QED
  BY <1>1, <1>2 DEF ClawInv

\* The first effect of p is done: what it adds is there, and what is left of
\* the others rests on no more than before.
LEMMA ThenKeeps ==
  ASSUME ClawInv, NEW p \in Processes, NEW effects, Harmless(effects, Told, launched)',
         Then(p, effects), IsList(audit'), Told \subseteq Told', launched \subseteq launched',
         (file # Torn => SoundAll(file, Told, launched))'
  PROVE  ClawInv'
<1>1. DOMAIN running' = Processes
      /\ \A q \in Processes : running'[q] = IF q = p THEN effects ELSE running[q]
  BY DEF Then, ClawInv
<1>2. ASSUME NEW q \in Processes, q # p
      PROVE  Harmless(running[q], Told', launched')
  BY <1>2, HarmlessMonotone DEF ClawInv
<1> QED
  BY <1>1, <1>2 DEF ClawInv

LEMMA HostNumber ==
  ASSUME ClawInv, NEW c \in Communities, Known(c)
  PROVE  NextHost(file[c]) \in Nat
<1>1. file[c].boxes \in Seq(Box)
  BY DEF ClawInv, Known, SoundAll, Listed, Community
<1> QED
  BY <1>1 DEF NextHost

LEMMA OperationKeeps ==
  ASSUME ClawInv, NEW p \in Processes, Operation(p)
  PROVE  ClawInv'
<1>1. PICK c \in Communities, a \in Agents :
        \/ \E sats \in Amounts : CreateCommunity(p, c, a, sats)
        \/ \E sats \in Amounts : FundTreasury(p, c, a, sats)
        \/ \E sats \in Amounts : JoinCommunity(p, c, a, sats)
        \/ \E machine \in Providers, host \in Hosts, price \in Costs :
             BuySeedbox(p, c, a, machine, host, price)
        \/ \E machine \in Providers :
             Known(c) /\ BuySeedbox(p, c, a, machine, NextHost(file[c]), Threshold)
        \/ FindFile(p, c, a)
        \/ \E f \in FileIds, held \in {"that content", "another", "nothing"} :
             RetrieveFile(p, c, a, f, held)
  BY DEF Operation
<1>2. CASE \E sats \in Amounts : CreateCommunity(p, c, a, sats)
  BY <1>2, CreatedHarmless, BeginKeeps, ClawAssumption DEF CreateCommunity, ClawInv
<1>3. CASE \E sats \in Amounts : FundTreasury(p, c, a, sats)
  BY <1>3, FundedHarmless, BeginKeeps, ClawAssumption
     DEF FundTreasury, Known, ClawInv
<1>4. CASE \E sats \in Amounts : JoinCommunity(p, c, a, sats)
  BY <1>4, JoinHarmless, BeginKeeps, ClawAssumption
     DEF JoinCommunity, Known, ClawInv
<1>5. ASSUME NEW machine, NEW host \in Nat, NEW price \in Nat,
             BuySeedbox(p, c, a, machine, host, price)
      PROVE  ClawInv'
  BY <1>5, BuyHarmless, BeginKeeps DEF BuySeedbox, Known, ClawInv
<1>6. CASE \E machine \in Providers, host \in Hosts, price \in Costs :
             BuySeedbox(p, c, a, machine, host, price)
  BY <1>5, <1>6, ClawAssumption
<1>7. CASE \E machine \in Providers :
             Known(c) /\ BuySeedbox(p, c, a, machine, NextHost(file[c]), Threshold)
  BY <1>5, <1>7, HostNumber, ClawAssumption
<1>8. CASE FindFile(p, c, a)
  BY <1>8, OtherEffects, BeginKeeps DEF FindFile, Searched
<1>9. CASE \E f \in FileIds, held \in {"that content", "another", "nothing"} :
             RetrieveFile(p, c, a, f, held)
  BY <1>9, OtherEffects, BeginKeeps DEF RetrieveFile, Retrieved
<1> QED
  BY <1>1, <1>2, <1>3, <1>4, <1>6, <1>7, <1>8, <1>9

LEMMA ImportKeeps ==
  ASSUME ClawInv, NEW p \in Processes, NEW c \in Communities, NEW catalog \in Catalogs,
         ImportFileCatalog(p, c, catalog)
  PROVE  ClawInv'
BY ImportedHarmless, BeginKeeps, ClawAssumption DEF ImportFileCatalog, Known, ClawInv

LEMMA LaunchKeeps ==
  ASSUME ClawInv, NEW p \in Processes, LaunchMachine(p)
  PROVE  ClawInv'
<1> DEFINE e == Head(running[p])
<1>1. running[p] # <<>> /\ e.do = "launch" /\ launched' = launched \cup {e.box}
      /\ Then(p, Tail(running[p])) /\ audit' = audit /\ Told' = Told /\ file' = file
  BY DEF LaunchMachine, Doing, Idle, Done, Told
<1>2. Harmless(Tail(running[p]), Told \cup ToldOf(e), launched \cup SetUpOf(e))
  BY <1>1, FirstEffect DEF ClawInv
<1>3. Told \cup ToldOf(e) = Told' /\ launched \cup SetUpOf(e) = launched'
  BY <1>1 DEF ToldOf, SetUpOf
<1>4. (file # Torn => SoundAll(file, Told, launched))'
  BY <1>1, SoundMonotone DEF ClawInv
<1> QED
  BY <1>1, <1>2, <1>3, <1>4, ThenKeeps DEF ClawInv

LEMMA RecordKeeps ==
  ASSUME ClawInv, NEW p \in Processes, RecordEvent(p)
  PROVE  ClawInv'
<1> DEFINE e == Head(running[p])
<1>1. running[p] # <<>> /\ e.do = "record" /\ audit' = Append(audit, e.event)
      /\ Then(p, Tail(running[p])) /\ launched' = launched /\ file' = file
  BY DEF RecordEvent, Doing, Idle, Done
<1>2. Harmless(Tail(running[p]), Told \cup ToldOf(e), launched \cup SetUpOf(e))
  BY <1>1, FirstEffect DEF ClawInv
<1>3. Told' = Told \cup ToldOf(e)
  <2>1. /\ IsList(audit') /\ Len(audit') = Len(audit) + 1
        /\ \A i \in 1..Len(audit) : audit'[i] = audit[i]
        /\ audit'[Len(audit) + 1] = e.event
    BY <1>1, ListAppend DEF ClawInv
  <2>2. /\ Len(audit) \in Nat /\ DOMAIN audit = 1..Len(audit)
        /\ DOMAIN audit' = 1..Len(audit) + 1
    BY <2>1, ListShape DEF ClawInv
  <2>3. \A i \in DOMAIN audit' :
          \/ i \in DOMAIN audit /\ audit'[i] = audit[i]
          \/ i = Len(audit) + 1 /\ audit'[i] = e.event
    BY <2>1, <2>2
  <2>4. \A i \in DOMAIN audit : i \in DOMAIN audit' /\ audit'[i] = audit[i]
    BY <2>1, <2>2
  <2>5. Len(audit) + 1 \in DOMAIN audit' /\ audit'[Len(audit) + 1] = e.event
    BY <2>1, <2>2
  <2>6. Told' \subseteq Told \cup ToldOf(e)
    BY <1>1, <2>3 DEF Told, ToldOf
  <2>7. Told \cup ToldOf(e) \subseteq Told'
    BY <1>1, <2>4, <2>5 DEF Told, ToldOf
  <2> QED
    BY <2>6, <2>7
<1>4. launched \cup SetUpOf(e) = launched'
  BY <1>1 DEF SetUpOf
<1>5. (file # Torn => SoundAll(file, Told, launched))'
  BY <1>1, <1>3, SoundMonotone DEF ClawInv
<1>6. IsList(audit')
  BY <1>1, ListAppend DEF ClawInv
<1> QED
  BY <1>1, <1>2, <1>3, <1>4, <1>5, <1>6, ThenKeeps

\* Effects that neither report nor launch.
LEMMA QuietKeeps ==
  ASSUME ClawInv, NEW p \in Processes, NEW effects, Harmless(effects, Told, launched),
         Then(p, effects), UNCHANGED <<audit, launched>>,
         file' = file \/ file' = Torn \/ SoundAll(file', Told, launched)
  PROVE  ClawInv'
<1>1. Told' = Told /\ launched' = launched /\ audit' = audit
  BY DEF Told
<1>2. (file # Torn => SoundAll(file, Told, launched))'
  BY <1>1 DEF ClawInv
<1>3. Harmless(effects, Told, launched)'
  BY <1>1
<1> QED
  BY <1>1, <1>2, <1>3, ThenKeeps DEF ClawInv

LEMMA EffectKeeps ==
  ASSUME ClawInv, NEW p \in Processes, Effect(p)
  PROVE  ClawInv'
<1> DEFINE e == Head(running[p])
<1>1. ASSUME running[p] # <<>>, e.do \notin {"record", "launch"}
      PROVE  /\ Harmless(Tail(running[p]), Told, launched)
             /\ e.do = "write" => SoundAll(e.all, Told, launched)
             /\ e.do = "buy" => e.community \in Communities
  <2>1. Told \cup ToldOf(e) = Told /\ launched \cup SetUpOf(e) = launched
    BY <1>1 DEF ToldOf, SetUpOf
  <2> QED
    BY <1>1, <2>1, FirstEffect DEF ClawInv
<1>2. CASE LaunchMachine(p)
  BY <1>2, LaunchKeeps
<1>3. CASE EmptyFile(p)
  BY <1>1, <1>3, QuietKeeps DEF EmptyFile, Doing, Idle, Done
<1>4. CASE WriteFile(p)
  BY <1>1, <1>4, QuietKeeps DEF WriteFile, Doing, Idle, Done
<1>5. CASE RecordEvent(p)
  BY <1>5, RecordKeeps
<1>6. CASE BuyForExpansion(p)
  <2> DEFINE effects == IF Known(e.community)
                        THEN buy_seedbox(file, e.community, e.agent, e.machine,
                                         NextHost(file[e.community]), Threshold)
                        ELSE <<>>
             next == IF effects = <<>> THEN <<>> ELSE effects \o Tail(running[p])
  <2>1. e.community \in Communities /\ Harmless(Tail(running[p]), Told, launched)
    BY <1>1, <1>6 DEF BuyForExpansion, Doing, Idle
  <2>2. Harmless(effects, Told, launched)
    BY <2>1, NoEffects, BuyHarmless, HostNumber, ClawAssumption DEF Known, ClawInv
  <2>3. Harmless(next, Told, launched)
    BY <2>1, <2>2, NoEffects, MoreEffects
  <2>4. Then(p, next) /\ UNCHANGED <<file, audit, launched>>
    BY <1>6 DEF BuyForExpansion
  <2> QED
    BY <2>3, <2>4, QuietKeeps
<1>7. CASE RereadMember(p)
  BY <1>1, <1>7, QuietKeeps DEF RereadMember, Doing, Idle, Done
<1> QED
  BY <1>2, <1>3, <1>4, <1>5, <1>6, <1>7 DEF Effect

LEMMA MishapKeeps ==
  ASSUME ClawInv, NEW p \in Processes, Mishap(p)
  PROVE  ClawInv'
BY NoEffects, QuietKeeps DEF Mishap

\* Every reachable state, and every copy still to be written, is sound.
THEOREM ClawInvariant == Spec => []ClawInv
<1>1. Init => ClawInv
  <2> SUFFICES ASSUME Init
               PROVE  ClawInv
    OBVIOUS
  <2>1. IsList(audit)
    <3>1. audit \in Seq({})
      BY DEF Init
    <3> QED
      BY <3>1, ListIn
  <2>2. SoundAll(file, Told, launched)
    BY DEF Init, SoundAll
  <2> QED
    BY <2>1, <2>2, NoEffects DEF Init, ClawInv
<1>2. ClawInv /\ [Next]_vars => ClawInv'
  <2> SUFFICES ASSUME ClawInv, [Next]_vars
               PROVE  ClawInv'
    OBVIOUS
  <2>1. CASE UNCHANGED vars
    BY <2>1 DEF vars, ClawInv, Told
  <2>2. CASE Next
    BY <2>2, OperationKeeps, ImportKeeps, EffectKeeps, MishapKeeps DEF Next
  <2> QED
    BY <2>1, <2>2
<1> QED
  BY <1>1, <1>2, PTL DEF Spec

---------------------------------------------------------------------------
\* What follows of the file.

\* No file ever written holds a treasury that is overdrawn or does not add up.
THEOREM NeverOverdrawn == Spec => []Solvent
<1>1. ClawInv => Solvent
  BY DEF ClawInv, Solvent, SoundAll, SolventAll, Afloat
<1> QED
  BY <1>1, ClawInvariant, PTL

\* No file ever written holds a member nobody reported or a seedbox nobody
\* launched.
THEOREM NothingOutOfNothing == Spec => []RecordsBacked
<1>1. ClawInv => RecordsBacked
  <2> SUFFICES ASSUME ClawInv, NEW c \in Communities, Readable(c)
               PROVE  /\ \A i \in DOMAIN file[c].members :
                           LET member == file[c].members[i].agent IN
                           member = file[c].founder
                             \/ \E j \in DOMAIN audit :
                                  /\ audit[j].action = "community_member_added"
                                  /\ audit[j].community = c /\ audit[j].agent = member
                      /\ \A k \in DOMAIN file[c].boxes : file[c].boxes[k] \in launched
    BY DEF RecordsBacked
  <2>1. Vouched(file[c], c, Told, launched)
    BY DEF ClawInv, SoundAll, Readable
  <2> QED
    BY <2>1 DEF Vouched, Told, Parts
<1> QED
  BY <1>1, ClawInvariant, PTL

---------------------------------------------------------------------------
\* Whose places follow the rule are housed in order.

LEMMA Quotient ==
  ASSUME NEW n \in Nat, NEW d \in Nat \ {0}
  PROVE  /\ n \div d \in Nat
         /\ d * (n \div d) <= n /\ n < d * (n \div d) + d
OBVIOUS

LEMMA Steeper ==
  ASSUME NEW d \in Nat, NEW k \in Nat, NEW l \in Nat, k <= l
  PROVE  d * k <= d * l
OBVIOUS

LEMMA QuotientIs ==
  ASSUME NEW n \in Nat, NEW d \in Nat \ {0}, NEW q \in Nat
  PROVE  n \div d = q <=> d * q <= n /\ n < d * q + d
<1> DEFINE r == n \div d
<1>1. r \in Nat /\ d * r <= n /\ n < d * r + d
  BY Quotient
<1> HIDE DEF r
<1>2. d * q \in Nat /\ d * r \in Nat /\ d * (q + 1) = d * q + d /\ d * (r + 1) = d * r + d
  BY <1>1
<1>3. q < r => d * (q + 1) <= d * r
  BY <1>1, Steeper
<1>4. r < q => d * (r + 1) <= d * q
  BY <1>1, Steeper
<1>5. q = r \/ q < r \/ r < q
  BY <1>1
<1>6. r = q <=> d * q <= n /\ n < d * q + d
  BY <1>1, <1>2, <1>3, <1>4, <1>5
<1> QED
  BY <1>6 DEF r

\* The number of the seedbox a member is put into.
BoxNumber(x, i) ==
  LET n == (i - 1) \div Capacity + 1 IN IF n <= Len(x.boxes) THEN n ELSE Len(x.boxes)

LEMMA GuestsByNumber ==
  ASSUME NEW x, Listed(x), Seated(x), x.boxes # <<>>
  PROVE  /\ \A i \in DOMAIN x.members : BoxNumber(x, i) \in DOMAIN x.boxes
         /\ \A k \in DOMAIN x.boxes :
              Guests(x, k) = {i \in DOMAIN x.members : BoxNumber(x, i) = k}
<1>1. /\ Len(x.boxes) \in Nat \ {0} /\ DOMAIN x.boxes = 1..Len(x.boxes)
      /\ Len(x.members) \in Nat /\ DOMAIN x.members = 1..Len(x.members)
  BY ListShape DEF Listed
<1>2. ASSUME NEW i \in DOMAIN x.members
      PROVE  BoxNumber(x, i) \in DOMAIN x.boxes
  <2>1. i - 1 \in Nat
    BY <1>1
  <2>2. (i - 1) \div Capacity \in Nat
    BY <2>1, Quotient, ClawAssumption
  <2> QED
    BY <1>1, <2>2 DEF BoxNumber
<1>3. ASSUME NEW i \in DOMAIN x.members
      PROVE  x.members[i].box = x.boxes[BoxNumber(x, i)]
  BY DEF Seated, SeatOf, BoxNumber
<1>4. ASSUME NEW k \in DOMAIN x.boxes
      PROVE  Guests(x, k) = {i \in DOMAIN x.members : BoxNumber(x, i) = k}
  BY <1>2, <1>3 DEF Guests, Listed, NoRepeats
<1> QED
  BY <1>2, <1>4

LEMMA FullBeforeNext ==
  ASSUME NEW x, Listed(x), Seated(x), x.boxes # <<>>,
         NEW k \in DOMAIN x.boxes, NEW l \in DOMAIN x.boxes, k < l, Guests(x, l) # {}
  PROVE  Cardinality(Guests(x, k)) = Capacity
<1> DEFINE first == Capacity * (k - 1)
<1>1. /\ Len(x.boxes) \in Nat \ {0} /\ DOMAIN x.boxes = 1..Len(x.boxes)
      /\ Len(x.members) \in Nat /\ DOMAIN x.members = 1..Len(x.members)
  BY ListShape DEF Listed
<1>2. Capacity \in Nat \ {0} /\ first \in Nat /\ Capacity * k = first + Capacity
  BY <1>1, ClawAssumption
<1>3. first + Capacity < Len(x.members)
  <2>1. PICK i \in DOMAIN x.members : BoxNumber(x, i) = l
    BY GuestsByNumber
  <2> DEFINE q == (i - 1) \div Capacity
  <2>2. i - 1 \in Nat
    BY <1>1
  <2>3. q \in Nat /\ Capacity * q <= i - 1
    BY <1>2, <2>2, Quotient
  <2>4. k <= q
    <3>1. l = IF q + 1 <= Len(x.boxes) THEN q + 1 ELSE Len(x.boxes)
      BY <2>1 DEF BoxNumber
    <3> HIDE DEF q
    <3> QED
      BY <1>1, <2>3, <3>1
  <2> HIDE DEF q
  <2>5. Capacity * k <= Capacity * q
    BY <1>1, <1>2, <2>3, <2>4, Steeper
  <2>6. Capacity * q \in Nat
    BY <1>2, <2>3
  <2> QED
    BY <1>1, <1>2, <2>3, <2>5, <2>6
<1> HIDE DEF first
<1>4. ASSUME NEW i \in DOMAIN x.members
      PROVE  BoxNumber(x, i) = k <=> i \in first + 1 .. first + Capacity
  <2> DEFINE q == (i - 1) \div Capacity
  <2>1. i - 1 \in Nat /\ k - 1 \in Nat
    BY <1>1
  <2>2. q \in Nat
    BY <1>2, <2>1, Quotient
  <2>3. q = k - 1 <=> first <= i - 1 /\ i - 1 < first + Capacity
    BY <1>2, <2>1, QuotientIs DEF first
  <2>4. BoxNumber(x, i) = IF q + 1 <= Len(x.boxes) THEN q + 1 ELSE Len(x.boxes)
    BY DEF BoxNumber
  <2> HIDE DEF q
  <2>5. BoxNumber(x, i) = k <=> q = k - 1
    BY <1>1, <2>2, <2>4
  <2> QED
    BY <1>1, <1>2, <2>3, <2>5
<1>5. Guests(x, k) = first + 1 .. first + Capacity
  <2>1. first + 1 .. first + Capacity \subseteq DOMAIN x.members
    BY <1>1, <1>2, <1>3
  <2>2. Guests(x, k) = {i \in DOMAIN x.members : BoxNumber(x, i) = k}
    BY GuestsByNumber
  <2> QED
    BY <1>4, <2>1, <2>2
<1>6. Cardinality(first + 1 .. first + Capacity) = Capacity
  BY <1>2, FS_Interval
<1> QED
  BY <1>5, <1>6

\* In every file written, every member of a community with a seedbox has one
\* of its seedboxes, and one that has a later one in use is full.
THEOREM HousedByTheRule == Spec => []HousedInOrder
<1>1. ClawInv => HousedInOrder
  <2> SUFFICES ASSUME ClawInv, NEW c \in Communities, Readable(c), file[c].boxes # <<>>
               PROVE  LET x == file[c] IN
                      /\ \A i \in DOMAIN x.members : \E k \in DOMAIN x.boxes : i \in Guests(x, k)
                      /\ \A k \in DOMAIN x.boxes : \A l \in DOMAIN x.boxes :
                           k < l /\ Guests(x, l) # {} => Cardinality(Guests(x, k)) = Capacity
    BY DEF HousedInOrder
  <2> DEFINE x == file[c]
  <2>1. Listed(x) /\ Seated(x) /\ x.boxes # <<>>
    BY DEF ClawInv, SoundAll, Readable
  <2> HIDE DEF x
  <2>2. \A i \in DOMAIN x.members : \E k \in DOMAIN x.boxes : i \in Guests(x, k)
    BY <2>1, GuestsByNumber
  <2>3. \A k \in DOMAIN x.boxes : \A l \in DOMAIN x.boxes :
          k < l /\ Guests(x, l) # {} => Cardinality(Guests(x, k)) = Capacity
    BY <2>1, FullBeforeNext
  <2> QED
    BY <2>2, <2>3 DEF x
<1> QED
  BY <1>1, ClawInvariant, PTL

---------------------------------------------------------------------------
\* The books of every community, and what one more event does to them.
Empty == [incoming |-> 0, outgoing |-> 0, agents |-> {}, boxes |-> {}]
Books(events) == [c \in Communities |-> Reported(events, c)]
Posted(B, e) ==
  [c \in Communities |->
     [incoming |-> IF Among(e, c, Paying) THEN B[c].incoming + e.sats ELSE B[c].incoming,
      outgoing |-> IF Among(e, c, Buying) THEN B[c].outgoing + e.sats ELSE B[c].outgoing,
      agents |-> IF Among(e, c, Joining) THEN B[c].agents \cup {e.agent} ELSE B[c].agents,
      boxes  |-> IF Among(e, c, Buying) THEN B[c].boxes \cup {e.about} ELSE B[c].boxes]]
Agrees(all, B) ==
  \A c \in Communities : B[c] = IF all[c] = None THEN Empty ELSE Kept(all[c])

\* The effects that write the file, and those that report what is in the books.
Drafts(s) == {k \in DOMAIN s : s[k].do = "write"}
Pays(e) == e.do = "record" /\ e.event.action \in Paying \cup Joining \cup Buying
Dues(s) == {k \in DOMAIN s : Pays(s[k])}

\* What the file and the books come to.
Outcome(s, f) == IF Drafts(s) = {} THEN {f} ELSE {s[k].all : k \in Drafts(s)}
Closing(s, B) == IF Dues(s) = {} THEN {B} ELSE {Posted(B, s[k].event) : k \in Dues(s)}

\* Effects after which the file and the books agree.  A purchase still to be
\* made reads the file, so it comes after the write and the report.
Balanced(s, f, B) ==
  /\ \A k, l \in Drafts(s) : k = l
  /\ \A k, l \in Dues(s) : k = l
  /\ \A k \in DOMAIN s : \A l \in Drafts(s) \cup Dues(s) : s[k].do = "buy" => l < k
  /\ \A k \in DOMAIN s : s[k].do = "empty" => \E l \in Drafts(s) : k < l
  /\ Drafts(s) = {} => f # Torn
  /\ \A all \in Outcome(s, f), D \in Closing(s, B) : Agrees(all, D)

AloneInv ==
  /\ mishaps \in Nat
  /\ ~ overlapped /\ mishaps = 0 =>
       /\ \A p, q \in Processes : ~ Idle(p) /\ ~ Idle(q) => p = q
       /\ \A p \in Processes : ~ Idle(p) => Balanced(running[p], file, Books(audit))
       /\ (\A p \in Processes : Idle(p)) => Balanced(<<>>, file, Books(audit))

---------------------------------------------------------------------------
\* A total of a list of events, as a recursion; w is <<events, c, actions>>.
LastOf(E, w) == Max(E)
AddEvent(x, i, w) == IF Among(w[1][i], w[2], w[3]) THEN x + w[1][i].sats ELSE x
Adding == INSTANCE Recursion WITH Base <- 0, Pick <- LastOf, Step <- AddEvent

LEMMA LastIsPicked ==
  ASSUME NEW n \in Nat, NEW w
  PROVE  Adding!PicksLast(n, w)
<1>1. ASSUME NEW E \in SUBSET (1..n), E # {}
      PROVE  Max(E) \in E /\ \A i \in E : i <= Max(E)
  <2>1. \E i \in E : \A j \in E : j <= i
    BY <1>1, Adding!Greatest
  <2>2. \E i \in E : \A j \in E : i >= j
    BY <2>1
  <2>3. Max(E) \in E /\ \A j \in E : Max(E) >= j
    BY <2>2 DEF Max
  <2> QED
    BY <2>3
<1> QED
  BY <1>1 DEF Adding!PicksLast, LastOf

LEMMA TotalIs ==
  ASSUME NEW s, NEW c, NEW actions
  PROVE  Total(s, c, actions) = Adding!Value(DOMAIN s, <<s, c, actions>>)
BY DEF Total, Adding!Value, Adding!Recursive, FoldLeft, MapThenFoldSet,
       AddEvent, LastOf

LEMMA TotalAppend ==
  ASSUME NEW s, IsList(s), NEW e, NEW c, NEW actions
  PROVE  Total(Append(s, e), c, actions) =
           IF Among(e, c, actions) THEN Total(s, c, actions) + e.sats
           ELSE Total(s, c, actions)
<1> DEFINE t == Append(s, e)
           n == Len(s)
           w == <<t, c, actions>>
           v == <<s, c, actions>>
<1>1. n \in Nat /\ DOMAIN s = 1..n
  BY ListShape
<1>2. DOMAIN t = 1..n + 1 /\ t[n + 1] = e /\ \A i \in 1..n : t[i] = s[i]
  BY ListAppend, ListShape
<1>3. w[1] = t /\ w[2] = c /\ w[3] = actions /\ v[1] = s /\ v[2] = c /\ v[3] = actions
  OBVIOUS
<1> HIDE DEF t, n, w, v
<1>4. \A i \in 1..n : \A x : AddEvent(x, i, w) = AddEvent(x, i, v)
  BY <1>2, <1>3 DEF AddEvent
<1>5. Adding!Value(1..n + 1, w) = AddEvent(Adding!Value(1..n, v), n + 1, w)
  BY <1>1, <1>4, LastIsPicked, Adding!NextIndex
<1>6. /\ Total(t, c, actions) = Adding!Value(1..n + 1, w)
      /\ Total(s, c, actions) = Adding!Value(1..n, v)
  BY <1>1, <1>2, TotalIs DEF w, v
<1> QED
  BY <1>2, <1>3, <1>5, <1>6 DEF AddEvent, t

LEMMA TotalOfNone ==
  ASSUME NEW c, NEW actions
  PROVE  Total(<<>>, c, actions) = 0
<1>1. DOMAIN <<>> = {}
  OBVIOUS
<1> QED
  BY <1>1, TotalIs, Adding!Empty

\* One event more posts it in the books.
LEMMA BooksAppend ==
  ASSUME NEW s, IsList(s), NEW e
  PROVE  Books(Append(s, e)) = Posted(Books(s), e)
<1> DEFINE t == Append(s, e)
<1>1. ToSet(t) = ToSet(s) \cup {e}
  <2>1. /\ Len(s) \in Nat /\ DOMAIN s = 1..Len(s) /\ DOMAIN t = 1..Len(s) + 1
        /\ t[Len(s) + 1] = e /\ \A i \in 1..Len(s) : t[i] = s[i]
    BY ListShape, ListAppend
  <2> HIDE DEF t
  <2>2. \A i \in DOMAIN t : i \in DOMAIN s \/ i = Len(s) + 1
    BY <2>1
  <2>3. DOMAIN s \subseteq DOMAIN t /\ Len(s) + 1 \in DOMAIN t
    BY <2>1
  <2> QED
    BY <2>1, <2>2, <2>3 DEF ToSet
<1>2. ASSUME NEW c \in Communities
      PROVE  Reported(t, c) = Posted(Books(s), e)[c]
  <2>1. \A actions :
          {d \in ToSet(t) : Among(d, c, actions)}
            = {d \in ToSet(s) : Among(d, c, actions)}
                \cup IF Among(e, c, actions) THEN {e} ELSE {}
    BY <1>1
  <2>2. Books(s)[c] = Reported(s, c)
    BY DEF Books
  <2>3. \A actions : Total(t, c, actions) =
           IF Among(e, c, actions) THEN Total(s, c, actions) + e.sats
           ELSE Total(s, c, actions)
    BY TotalAppend
  <2> DEFINE agents(u) == {d.agent : d \in {d \in ToSet(u) : Among(d, c, Joining)}}
             boxes(u) == {d.about : d \in {d \in ToSet(u) : Among(d, c, Buying)}}
  <2>4. agents(t) = IF Among(e, c, Joining) THEN agents(s) \cup {e.agent} ELSE agents(s)
    BY <2>1
  <2>5. boxes(t) = IF Among(e, c, Buying) THEN boxes(s) \cup {e.about} ELSE boxes(s)
    BY <2>1
  <2>6. \A u : Reported(u, c) =
           [incoming |-> Total(u, c, Paying), outgoing |-> Total(u, c, Buying),
            agents |-> agents(u), boxes |-> boxes(u)]
    BY DEF Reported
  <2> HIDE DEF t, agents, boxes
  <2> QED
    BY <2>2, <2>3, <2>4, <2>5, <2>6 DEF Posted
<1> QED
  BY <1>2 DEF Books, Posted

LEMMA NoBooks ==
  Books(<<>>) = [c \in Communities |-> Empty]
<1>1. ToSet(<<>>) = {}
  BY DEF ToSet
<1> QED
  BY <1>1, TotalOfNone DEF Books, Reported, Empty

\* Any other event leaves the books alone.
IsBooks(B) ==
  B = [c \in Communities |->
         [incoming |-> B[c].incoming, outgoing |-> B[c].outgoing,
          agents |-> B[c].agents, boxes |-> B[c].boxes]]

LEMMA OtherEvents ==
  ASSUME NEW B, IsBooks(B), NEW e, ~ Pays(Record(e))
  PROVE  Posted(B, e) = B
<1>1. e.action \notin Paying \cup Joining \cup Buying
  BY DEF Pays, Record
<1>2. \A c : ~ Among(e, c, Paying) /\ ~ Among(e, c, Joining) /\ ~ Among(e, c, Buying)
  BY <1>1 DEF Among
<1> QED
  BY <1>2 DEF Posted, IsBooks

LEMMA BooksAreBooks ==
  /\ \A events : IsBooks(Books(events))
  /\ \A B, e : IsBooks(Posted(B, e))
<1>1. ASSUME NEW events
      PROVE  IsBooks(Books(events))
  BY DEF IsBooks, Books, Reported
<1>2. ASSUME NEW B, NEW e
      PROVE  IsBooks(Posted(B, e))
  BY DEF IsBooks, Posted
<1> QED
  BY <1>1, <1>2

---------------------------------------------------------------------------
\* Effects and where they lead.

LEMMA OutcomeShift ==
  ASSUME NEW s, NEW t, NEW n \in Int, NEW f, Drafts(s) \subseteq Int,
         Drafts(t) = {k + n : k \in Drafts(s)}, \A k \in Drafts(s) : t[k + n] = s[k]
  PROVE  Outcome(t, f) = Outcome(s, f)
<1>1. CASE Drafts(s) = {}
  BY <1>1 DEF Outcome
<1>2. CASE Drafts(s) # {}
  <2>1. Drafts(t) # {}
    BY <1>2
  <2>2. {t[k].all : k \in Drafts(t)} = {s[k].all : k \in Drafts(s)}
    OBVIOUS
  <2> QED
    BY <1>2, <2>1, <2>2 DEF Outcome
<1> QED
  BY <1>1, <1>2

LEMMA ClosingShift ==
  ASSUME NEW s, NEW t, NEW n \in Int, NEW B, Dues(s) \subseteq Int,
         Dues(t) = {k + n : k \in Dues(s)}, \A k \in Dues(s) : t[k + n] = s[k]
  PROVE  Closing(t, B) = Closing(s, B)
<1>1. CASE Dues(s) = {}
  BY <1>1 DEF Closing
<1>2. CASE Dues(s) # {}
  <2>1. Dues(t) # {}
    BY <1>2
  <2>2. {Posted(B, t[k].event) : k \in Dues(t)} = {Posted(B, s[k].event) : k \in Dues(s)}
    OBVIOUS
  <2> QED
    BY <1>2, <2>1, <2>2 DEF Closing
<1> QED
  BY <1>1, <1>2

\* An effect that neither writes nor reports what is in the books.
Plain(e) == e.do \notin {"write", "empty"} /\ ~ Pays(e)

LEMMA NothingToDo ==
  ASSUME NEW f, NEW B, f # Torn, Agrees(f, B)
  PROVE  Balanced(<<>>, f, B)
<1>1. DOMAIN <<>> = {}
  OBVIOUS
<1>2. Drafts(<<>>) = {} /\ Dues(<<>>) = {}
  BY <1>1 DEF Drafts, Dues
<1> QED
  BY <1>1, <1>2 DEF Balanced, Outcome, Closing

LEMMA PlainFirst ==
  ASSUME NEW s, IsList(s), NEW f, NEW B, Balanced(s, f, B),
         NEW e, Plain(e), e.do # "buy"
  PROVE  Balanced(<<e>> \o s, f, B)
<1> DEFINE t == <<e>> \o s
           n == Len(s)
<1>1. n \in Nat /\ DOMAIN s = 1..n
  BY ListShape
<1>2. DOMAIN t = 1..n + 1 /\ t[1] = e /\ \A k \in 1..n : t[k + 1] = s[k]
  <2>1. IsList(<<e>>) /\ Len(<<e>>) = 1 /\ <<e>>[1] = e
    BY OneList
  <2> DEFINE o == <<e>>
  <2> HIDE DEF o
  <2>2. /\ IsList(o \o s) /\ Len(o \o s) = Len(o) + n
        /\ \A i \in 1..Len(o) + n : (o \o s)[i] = IF i <= Len(o) THEN o[i] ELSE s[i - Len(o)]
    BY <2>1, ListConcat DEF o
  <2>3. DOMAIN t = 1..n + 1 /\ t[1] = e
    BY <1>1, <2>1, <2>2, ListShape DEF o
  <2>4. \A k \in 1..n : k + 1 \in 1..1 + n /\ ~ (k + 1 <= 1) /\ k + 1 - 1 = k
    BY <1>1
  <2>5. \A k \in 1..n : t[k + 1] = s[k]
    BY <2>1, <2>2, <2>4 DEF o
  <2> QED
    BY <2>3, <2>5
<1> HIDE DEF t, n
<1>3. Drafts(t) = {k + 1 : k \in Drafts(s)} /\ Dues(t) = {k + 1 : k \in Dues(s)}
  <2>1. \A k \in DOMAIN t : k = 1 \/ (k - 1 \in DOMAIN s /\ t[k] = s[k - 1] /\ k - 1 + 1 = k)
    <3> TAKE k \in DOMAIN t
    <3>1. k = 1 \/ (k - 1 \in 1..n /\ k - 1 + 1 = k)
      BY <1>1, <1>2
    <3> QED
      BY <1>1, <1>2, <3>1
  <2>2. \A k \in DOMAIN s : k + 1 \in DOMAIN t /\ t[k + 1] = s[k]
    BY <1>1, <1>2
  <2>3. t[1].do # "write" /\ ~ Pays(t[1])
    BY <1>2 DEF Plain
  <2> QED
    BY <2>1, <2>2, <2>3 DEF Drafts, Dues
<1>4. Drafts(s) \subseteq 1..n /\ Dues(s) \subseteq 1..n
  BY <1>1 DEF Drafts, Dues
<1>5. Outcome(t, f) = Outcome(s, f) /\ Closing(t, B) = Closing(s, B)
  <2>1. /\ Drafts(s) \subseteq Int /\ \A k \in Drafts(s) : t[k + 1] = s[k]
        /\ Dues(s) \subseteq Int /\ \A k \in Dues(s) : t[k + 1] = s[k]
    BY <1>1, <1>2, <1>4
  <2>2. 1 \in Int
    OBVIOUS
  <2> QED
    BY <1>3, <2>1, <2>2, OutcomeShift, ClosingShift
<1>6. ASSUME NEW k \in DOMAIN t, t[k].do = "buy", NEW l \in Drafts(t) \cup Dues(t)
      PROVE  l < k
  <2>1. k - 1 \in DOMAIN s /\ s[k - 1] = t[k]
    <3>1. k # 1
      BY <1>2, <1>6
    <3>2. k - 1 \in 1..n /\ k - 1 + 1 = k
      BY <1>1, <1>2, <3>1
    <3> QED
      BY <1>1, <1>2, <3>2
  <2>2. PICK j \in Drafts(s) \cup Dues(s) : l = j + 1
    BY <1>3
  <2>3. j < k - 1
    BY <1>6, <2>1 DEF Balanced
  <2> QED
    BY <1>1, <1>2, <1>4, <2>2, <2>3
<1>7. ASSUME NEW k \in DOMAIN t, t[k].do = "empty"
      PROVE  \E l \in Drafts(t) : k < l
  <2>1. k - 1 \in DOMAIN s /\ s[k - 1] = t[k]
    <3>1. k # 1
      BY <1>2, <1>7 DEF Plain
    <3>2. k - 1 \in 1..n /\ k - 1 + 1 = k
      BY <1>1, <1>2, <3>1
    <3> QED
      BY <1>1, <1>2, <3>2
  <2>2. PICK l \in Drafts(s) : k - 1 < l
    BY <1>7, <2>1 DEF Balanced
  <2>3. l + 1 \in Drafts(t) /\ k < l + 1
    BY <1>1, <1>2, <1>3, <1>4, <2>2
  <2> QED
    BY <2>3
<1>8. /\ \A k, l \in Drafts(t) : k = l
      /\ \A k, l \in Dues(t) : k = l
      /\ Drafts(t) = {} => Drafts(s) = {}
  BY <1>3 DEF Balanced
<1> QED
  BY <1>5, <1>6, <1>7, <1>8 DEF Balanced, t

LEMMA PlainLast ==
  ASSUME NEW s, IsList(s), NEW f, NEW B, Balanced(s, f, B),
         NEW q, IsList(q), \A k \in DOMAIN q : Plain(q[k])
  PROVE  Balanced(s \o q, f, B)
<1> DEFINE t == s \o q
           n == Len(s)
           m == Len(q)
<1>1. n \in Nat /\ DOMAIN s = 1..n /\ m \in Nat /\ DOMAIN q = 1..m
  BY ListShape
<1>2. /\ DOMAIN t = 1..n + m /\ \A k \in 1..n : t[k] = s[k]
      /\ \A k \in n + 1..n + m : t[k] = q[k - n]
  BY <1>1, ListConcat, ListShape
<1> HIDE DEF t, n, m
<1>3. \A k \in DOMAIN t : (k \in DOMAIN s /\ t[k] = s[k]) \/ (Plain(t[k]) /\ \A l \in DOMAIN s : l < k)
  <2> TAKE k \in DOMAIN t
  <2>1. CASE k \in 1..n
    BY <1>1, <1>2, <2>1
  <2>2. CASE k \notin 1..n
    <3>1. k \in n + 1..n + m /\ k - n \in 1..m /\ \A l \in 1..n : l < k
      BY <1>1, <1>2, <2>2
    <3> QED
      BY <1>1, <1>2, <3>1
  <2> QED
    BY <2>1, <2>2
<1>4. \A k \in DOMAIN s : k \in DOMAIN t /\ t[k] = s[k]
  BY <1>1, <1>2
<1>5. Drafts(t) = Drafts(s) /\ Dues(t) = Dues(s)
  BY <1>3, <1>4 DEF Drafts, Dues, Plain
<1>6. Outcome(t, f) = Outcome(s, f)
  BY <1>4, <1>5 DEF Outcome, Drafts
<1>7. Closing(t, B) = Closing(s, B)
  BY <1>4, <1>5 DEF Closing, Dues
<1>8. ASSUME NEW k \in DOMAIN t, t[k].do = "buy", NEW l \in Drafts(t) \cup Dues(t)
      PROVE  l < k
  <2>1. l \in DOMAIN s /\ l \in Drafts(s) \cup Dues(s)
    BY <1>5 DEF Drafts, Dues
  <2> QED
    BY <1>3, <1>8, <2>1 DEF Balanced
<1>9. ASSUME NEW k \in DOMAIN t, t[k].do = "empty"
      PROVE  \E l \in Drafts(t) : k < l
  BY <1>3, <1>5, <1>9 DEF Balanced, Plain
<1> QED
  BY <1>5, <1>6, <1>7, <1>8, <1>9 DEF Balanced, t

\* A file saved and its event, in either order.
LEMMA SavedAndTold ==
  ASSUME NEW all, NEW f, NEW B, IsBooks(B), NEW e, Agrees(all, Posted(B, e))
  PROVE  /\ Balanced(Save(all) \o <<Record(e)>>, f, B)
         /\ Balanced(<<Record(e)>> \o Save(all), f, B)
         /\ IsList(Save(all) \o <<Record(e)>>) /\ IsList(<<Record(e)>> \o Save(all))
<1> DEFINE empty == [do |-> "empty"]
           write == [do |-> "write", all |-> all]
           told == Record(e)
<1>1. /\ empty.do = "empty" /\ write.do = "write" /\ write.all = all
      /\ told.do = "record" /\ told.event = e
      /\ ~ Pays(empty) /\ ~ Pays(write)
  BY DEF Record, Pays
<1>2. Save(all) = <<empty, write>>
  BY DEF Save
<1> HIDE DEF empty, write, told
<1>4. ASSUME NEW s, IsList(s), DOMAIN s = 1..3, NEW i \in 1..3, NEW j \in 1..3, NEW k \in 1..3,
             i < j, i # k, j # k, s[i] = empty, s[j] = write, s[k] = told
      PROVE  Balanced(s, f, B)
  <2>1. \A l \in 1..3 : l = i \/ l = j \/ l = k
    BY <1>4
  <2>2. Drafts(s) = {j}
    BY <1>1, <1>4, <2>1 DEF Drafts
  <2>3. Dues(s) = IF Pays(told) THEN {k} ELSE {}
    BY <1>1, <1>4, <2>1 DEF Dues
  <2>4. Outcome(s, f) = {all}
    BY <1>1, <1>4, <2>2 DEF Outcome
  <2>5. Closing(s, B) = {Posted(B, e)}
    <3>1. CASE Pays(told)
      BY <1>1, <1>4, <2>3, <3>1 DEF Closing
    <3>2. CASE ~ Pays(told)
      <4>1. Posted(B, e) = B
        BY <3>2, OtherEvents DEF told
      <4> QED
        BY <2>3, <3>2, <4>1 DEF Closing
    <3> QED
      BY <3>1, <3>2
  <2>6. \A l \in DOMAIN s : s[l].do # "buy"
    BY <1>1, <1>4, <2>1
  <2>7. \A l \in DOMAIN s : s[l].do = "empty" => l = i
    BY <1>1, <1>4, <2>1
  <2>8. \A l, m \in Dues(s) : l = m
    BY <2>3
  <2> QED
    BY <1>4, <2>2, <2>4, <2>5, <2>6, <2>7, <2>8 DEF Balanced
<1> DEFINE saved == Save(all)
           last == <<told>>
<1>5. /\ IsList(saved) /\ Len(saved) = 2 /\ saved[1] = empty /\ saved[2] = write
      /\ IsList(last) /\ Len(last) = 1 /\ last[1] = told
  <2>1. \A x, y : <<x, y>> \in Seq({x, y}) /\ Len(<<x, y>>) = 2
                  /\ <<x, y>>[1] = x /\ <<x, y>>[2] = y
    OBVIOUS
  <2>2. IsList(saved)
    BY <1>2, <2>1, ListIn
  <2> QED
    BY <1>2, <2>1, <2>2, OneList
<1> HIDE DEF saved, last
<1>6. Balanced(saved \o last, f, B) /\ IsList(saved \o last)
  <2> DEFINE s == saved \o last
  <2>5. /\ IsList(s) /\ Len(s) = Len(saved) + Len(last)
        /\ \A i \in 1..Len(saved) + Len(last) :
             s[i] = IF i <= Len(saved) THEN saved[i] ELSE last[i - Len(saved)]
    BY <1>5, ListConcat
  <2>6. Len(saved) = 2 /\ Len(saved) + Len(last) = 3
    BY <1>5
  <2>1. /\ IsList(s) /\ Len(s) = 3
        /\ \A i \in 1..3 : s[i] = IF i <= 2 THEN saved[i] ELSE last[i - 2]
    BY <2>5, <2>6
  <2> HIDE DEF s
  <2>2. DOMAIN s = 1..3 /\ s[1] = empty /\ s[2] = write /\ s[3] = told
    BY <1>5, <2>1, ListShape
  <2>3. 1 \in 1..3 /\ 2 \in 1..3 /\ 3 \in 1..3 /\ 1 < 2 /\ 1 # 3 /\ 2 # 3
    OBVIOUS
  <2>4. Balanced(s, f, B)
    BY <1>4, <2>1, <2>2, <2>3
  <2> QED
    BY <2>1, <2>4 DEF s
<1>7. Balanced(last \o saved, f, B) /\ IsList(last \o saved)
  <2> DEFINE s == last \o saved
  <2>5. /\ IsList(s) /\ Len(s) = Len(last) + Len(saved)
        /\ \A i \in 1..Len(last) + Len(saved) :
             s[i] = IF i <= Len(last) THEN last[i] ELSE saved[i - Len(last)]
    BY <1>5, ListConcat
  <2>6. Len(last) = 1 /\ Len(last) + Len(saved) = 3
    BY <1>5
  <2>1. /\ IsList(s) /\ Len(s) = 3
        /\ \A i \in 1..3 : s[i] = IF i <= 1 THEN last[i] ELSE saved[i - 1]
    BY <2>5, <2>6
  <2> HIDE DEF s
  <2>2. DOMAIN s = 1..3 /\ s[1] = told /\ s[2] = empty /\ s[3] = write
    BY <1>5, <2>1, ListShape
  <2>3. 1 \in 1..3 /\ 2 \in 1..3 /\ 3 \in 1..3 /\ 2 < 3 /\ 2 # 1 /\ 3 # 1
    OBVIOUS
  <2>4. Balanced(s, f, B)
    BY <1>4, <2>1, <2>2, <2>3
  <2> QED
    BY <2>1, <2>4 DEF s
<1> QED
  BY <1>6, <1>7 DEF told, saved, last

\* One effect done, what is left still leads where it did.
LEMMA NextBalanced ==
  ASSUME NEW s, IsList(s), s # <<>>, NEW f, NEW B, IsBooks(B), Balanced(s, f, B),
         Head(s).do # "buy",
         NEW f2, f2 = IF Head(s).do = "empty" THEN Torn
                      ELSE IF Head(s).do = "write" THEN Head(s).all ELSE f,
         Head(s).do = "write" => Head(s).all # Torn,
         NEW B2, B2 = IF Head(s).do = "record" THEN Posted(B, Head(s).event) ELSE B
  PROVE  Balanced(Tail(s), f2, B2)
<1> DEFINE e == Head(s)
           t == Tail(s)
           n == Len(s)
<1>1. n \in Nat /\ DOMAIN s = 1..n
  BY ListShape
<1>2. /\ n >= 1 /\ e = s[1] /\ DOMAIN t = 1..n - 1
      /\ \A k \in 1..n - 1 : t[k] = s[k + 1]
  BY <1>1, ListTail, ListShape
<1> HIDE DEF e, t, n
<1>3. Drafts(s) \subseteq 1..n /\ Dues(s) \subseteq 1..n
  BY <1>1 DEF Drafts, Dues
<1>4. \A k \in DOMAIN s : k = 1 \/ (k + (0 - 1) \in DOMAIN t /\ t[k + (0 - 1)] = s[k])
  <2> TAKE k \in DOMAIN s
  <2>1. k = 1 \/ (k + (0 - 1) \in 1..n - 1 /\ k + (0 - 1) + 1 = k)
    BY <1>1, <1>2
  <2> QED
    BY <1>2, <2>1
<1>5. \A k \in DOMAIN t : k + 1 \in DOMAIN s /\ k + 1 # 1 /\ t[k] = s[k + 1] /\ k + 1 + (0 - 1) = k
  BY <1>1, <1>2
<1>6. 1 \in DOMAIN s
  BY <1>1, <1>2
<1>7. Drafts(t) = {k + (0 - 1) : k \in Drafts(s) \ {1}}
  BY <1>4, <1>5 DEF Drafts
<1>8. Dues(t) = {k + (0 - 1) : k \in Dues(s) \ {1}}
  BY <1>4, <1>5 DEF Dues
<1>9. /\ \A k, l \in Drafts(t) : k = l
      /\ \A k, l \in Dues(t) : k = l
  BY <1>7, <1>8 DEF Balanced
<1>10. ASSUME NEW k \in DOMAIN t, t[k].do = "buy", NEW l \in Drafts(t) \cup Dues(t)
       PROVE  l < k
  <2>1. k + 1 \in DOMAIN s /\ s[k + 1].do = "buy"
    BY <1>5, <1>10
  <2>2. PICK j \in Drafts(s) \cup Dues(s) : l = j + (0 - 1)
    BY <1>7, <1>8
  <2>3. j < k + 1 /\ j \in Int /\ k \in Int
    BY <1>2, <1>3, <2>1 DEF Balanced
  <2> QED
    BY <2>2, <2>3
<1>11. ASSUME NEW k \in DOMAIN t, t[k].do = "empty"
       PROVE  \E l \in Drafts(t) : k < l
  <2>1. k + 1 \in DOMAIN s /\ s[k + 1].do = "empty"
    BY <1>5, <1>11
  <2>2. PICK j \in Drafts(s) : k + 1 < j
    BY <2>1 DEF Balanced
  <2>3. j \in Int /\ k \in Int /\ j # 1 /\ k < j + (0 - 1)
    BY <1>2, <1>3, <2>2
  <2> QED
    BY <1>7, <2>2, <2>3
<1>14. 0 - 1 \in Int /\ Drafts(s) \subseteq Int /\ Dues(s) \subseteq Int
  BY <1>1, <1>3
<1>12. /\ Drafts(t) = {} => f2 # Torn
       /\ Outcome(t, f2) = Outcome(s, f)
  <2>1. CASE e.do = "write"
    <3>1. Drafts(s) = {1}
      BY <1>2, <1>6, <2>1 DEF Drafts, Balanced
    <3>2. Drafts(t) = {} /\ f2 = e.all
      BY <1>7, <2>1, <3>1 DEF e
    <3>3. Outcome(s, f) = {s[1].all}
      BY <3>1 DEF Outcome
    <3> QED
      BY <1>2, <2>1, <3>2, <3>3 DEF Outcome, e
  <2>2. CASE e.do # "write"
    <3>1. 1 \notin Drafts(s)
      BY <1>2, <2>2 DEF Drafts
    <3>2. Drafts(t) = {k + (0 - 1) : k \in Drafts(s)}
      BY <1>7, <3>1
    <3>3. \A k \in Drafts(s) : t[k + (0 - 1)] = s[k]
      BY <1>4, <3>1 DEF Drafts
    <3>4. Outcome(t, f2) = Outcome(s, f2)
      BY <1>14, <3>2, <3>3, OutcomeShift
    <3>5. CASE e.do = "empty"
      <4>1. Drafts(s) # {}
        BY <1>2, <1>6, <3>5 DEF Balanced
      <4> QED
        BY <3>2, <3>4, <4>1 DEF Outcome
    <3>6. CASE e.do # "empty"
      BY <2>2, <3>2, <3>4, <3>6 DEF Balanced, e
    <3> QED
      BY <3>5, <3>6
  <2> QED
    BY <2>1, <2>2
<1>13. Closing(t, B2) = Closing(s, B)
  <2>1. CASE Pays(e)
    <3>1. Dues(s) = {1}
      BY <1>2, <1>6, <2>1 DEF Dues, Balanced
    <3>2. Dues(t) = {} /\ B2 = Posted(B, e.event)
      BY <1>8, <2>1, <3>1 DEF e, Pays
    <3> QED
      BY <1>2, <3>1, <3>2 DEF Closing
  <2>2. CASE ~ Pays(e)
    <3>1. 1 \notin Dues(s)
      BY <1>2, <2>2 DEF Dues
    <3>2. Dues(t) = {k + (0 - 1) : k \in Dues(s)}
      BY <1>8, <3>1
    <3>3. \A k \in Dues(s) : t[k + (0 - 1)] = s[k]
      BY <1>4, <3>1 DEF Dues
    <3>4. Closing(t, B2) = Closing(s, B2)
      BY <1>14, <3>2, <3>3, ClosingShift
    <3>5. B2 = B
      <4>1. ASSUME e.do = "record"
            PROVE  ~ Pays(Record(e.event))
        BY <2>2, <4>1 DEF Pays, Record
      <4> QED
        BY <4>1, OtherEvents DEF e
    <3> QED
      BY <3>4, <3>5
  <2> QED
    BY <2>1, <2>2
<1> QED
  BY <1>9, <1>10, <1>11, <1>12, <1>13 DEF Balanced, t

---------------------------------------------------------------------------
\* What an operation keeps of a community, and its event posts.

LEMMA KeptIs ==
  ASSUME NEW x
  PROVE  Kept(x) = [incoming |-> x.treasury.incoming, outgoing |-> x.treasury.outgoing,
                    agents |-> AgentsOf(x.members), boxes |-> Parts(x.boxes)]
BY DEF Kept, AgentsOf, Parts, ToSet

\* No one gets in or out and nothing is spent by giving out the places.
LEMMA RebalanceKept ==
  ASSUME NEW x \in Community
  PROVE  Kept(rebalance(x)) = Kept(x)
<1> DEFINE y == rebalance(x)
<1>1. CASE x.boxes = <<>>
  BY <1>1 DEF rebalance
<1>2. CASE x.boxes # <<>>
  <2> DEFINE m == [i \in DOMAIN x.members |-> [x.members[i] EXCEPT !.box = SeatOf(x, i)]]
  <2>1. y = [x EXCEPT !.members = m]
    BY <1>2 DEF rebalance, SeatOf
  <2>2. DOMAIN m = DOMAIN x.members
        /\ \A i \in DOMAIN x.members : m[i] = [x.members[i] EXCEPT !.box = SeatOf(x, i)]
    OBVIOUS
  <2> HIDE DEF m, y
  <2>3. y.treasury = x.treasury /\ y.boxes = x.boxes /\ y.members = m
    BY <2>1 DEF Community
  <2>4. \A i \in DOMAIN x.members : x.members[i] \in Member
    BY DEF Community
  <2>5. \A i \in DOMAIN x.members : m[i].agent = x.members[i].agent
    BY <2>2, <2>4 DEF Member
  <2>6. AgentsOf(m) = AgentsOf(x.members)
    BY <2>2, <2>5 DEF AgentsOf
  <2> QED
    BY <2>3, <2>6, KeptIs DEF y
<1> QED
  BY <1>1, <1>2

LEMMA PostedEvent ==
  ASSUME NEW B, NEW action, NEW c \in Communities, NEW a, NEW sats, NEW about
  PROVE  Posted(B, Event(action, c, a, sats, about))[c] =
           [incoming |-> IF action \in Paying THEN B[c].incoming + sats ELSE B[c].incoming,
            outgoing |-> IF action \in Buying THEN B[c].outgoing + sats ELSE B[c].outgoing,
            agents |-> IF action \in Joining THEN B[c].agents \cup {a} ELSE B[c].agents,
            boxes  |-> IF action \in Buying THEN B[c].boxes \cup {about} ELSE B[c].boxes]
BY DEF Posted, Among, Event

PaidIn(b, sats) ==
  [incoming |-> b.incoming + sats, outgoing |-> b.outgoing,
   agents |-> b.agents, boxes |-> b.boxes]
Enrolled(b, sats, a) ==
  [incoming |-> b.incoming + sats, outgoing |-> b.outgoing,
   agents |-> b.agents \cup {a}, boxes |-> b.boxes]
PaidOut(b, sats, box) ==
  [incoming |-> b.incoming, outgoing |-> b.outgoing + sats,
   agents |-> b.agents, boxes |-> b.boxes \cup {box}]

LEMMA PostedEvents ==
  ASSUME NEW B, NEW c \in Communities, NEW a, NEW sats, NEW about
  PROVE  /\ Posted(B, Event("community_created", c, a, sats, about))[c]
              = Enrolled(B[c], sats, a)
         /\ Posted(B, Event("community_treasury_funded", c, a, sats, about))[c]
              = PaidIn(B[c], sats)
         /\ Posted(B, Event("community_member_added", c, a, sats, about))[c]
              = Enrolled(B[c], sats, a)
         /\ Posted(B, Event("seedbox_registered", c, a, sats, about))[c]
              = PaidOut(B[c], sats, about)
BY PostedEvent DEF Paying, Joining, Buying, PaidIn, Enrolled, PaidOut

\* One community replaced and one event about it posted.
LEMMA PutAgrees ==
  ASSUME NEW all, DOMAIN all = Communities, NEW B, IsBooks(B), Agrees(all, B),
         NEW c \in Communities, NEW e, e.community = c,
         NEW new \in Community, Posted(B, e)[c] = Kept(new)
  PROVE  Agrees([all EXCEPT ![c] = new], Posted(B, e))
<1>1. new # None
  BY ClawAssumption
<1>2. ASSUME NEW d \in Communities, d # c
      PROVE  Posted(B, e)[d] = B[d]
  <2>1. ~ Among(e, d, Paying) /\ ~ Among(e, d, Joining) /\ ~ Among(e, d, Buying)
    BY <1>2 DEF Among
  <2> QED
    BY <2>1 DEF Posted, IsBooks
<1>3. [all EXCEPT ![c] = new][c] = new
      /\ \A d \in Communities \ {c} : [all EXCEPT ![c] = new][d] = all[d]
  OBVIOUS
<1> QED
  BY <1>1, <1>2, <1>3 DEF Agrees

---------------------------------------------------------------------------
\* The operations, from a file that the books agree with.

LEMMA CreatedBalanced ==
  ASSUME NEW all, DOMAIN all = Communities, NEW B, IsBooks(B), Agrees(all, B), NEW f,
         NEW c \in Communities, NEW a \in Agents, NEW sats \in Nat, all[c] = None
  PROVE  Balanced(Created(all, c, a, sats), f, B)
<1> DEFINE e == Event("community_created", c, a, sats, None)
           member == [agent |-> a, sats |-> sats, box |-> None]
<1> SUFFICES ASSUME NEW new,
                    new = [founder |-> a,
                           treasury |-> [balance |-> 0, incoming |-> 0, outgoing |-> 0],
                           members |-> <<member>>, boxes |-> <<>>,
                           files |-> [f0 \in FileIds |-> None]]
             PROVE  Balanced(Save([all EXCEPT ![c] = fund(new, sats)]) \o <<Record(e)>>, f, B)
  BY DEF Created
<1>1. new \in Community
  <2>1. new.members \in Seq(Member)
    BY DEF Member
  <2>2. new.boxes \in Seq(Box) /\ new.files \in Files
    BY DEF Files
  <2> QED
    BY <2>1, <2>2 DEF Community, Treasury
<1>2. AgentsOf(new.members) = {a} /\ Parts(new.boxes) = {}
  BY DEF AgentsOf, Parts
<1> DEFINE y == fund(new, sats)
<1>3. Kept(y) = [incoming |-> 0 + sats, outgoing |-> 0, agents |-> {a}, boxes |-> {}]
  <2>1. new.treasury.incoming = 0 /\ new.treasury.outgoing = 0
    OBVIOUS
  <2> QED
    BY <1>1, <1>2, <2>1, FundKept, KeptIs
<1>4. B[c] = Empty
  BY DEF Agrees
<1>5. Posted(B, e)[c] = Kept(y)
  <2>1. Posted(B, e)[c] = Enrolled(B[c], sats, a)
    BY PostedEvents
  <2>2. B[c].incoming = 0 /\ B[c].outgoing = 0 /\ B[c].agents = {} /\ B[c].boxes = {}
    BY <1>4 DEF Empty
  <2> HIDE DEF e, y
  <2> QED
    BY <1>3, <2>1, <2>2 DEF Enrolled
<1>6. y \in Community /\ e.community = c
  BY <1>1, FundKept DEF Event
<1> HIDE DEF e, y
<1>7. Agrees([all EXCEPT ![c] = y], Posted(B, e))
  BY <1>5, <1>6, PutAgrees
<1> QED
  BY <1>7, SavedAndTold DEF y

LEMMA FundedBalanced ==
  ASSUME NEW all, DOMAIN all = Communities, NEW B, IsBooks(B), Agrees(all, B), NEW f,
         NEW c \in Communities, NEW a, NEW sats \in Nat,
         all[c] # None, all[c] \in Community
  PROVE  Balanced(Funded(all, c, a, sats), f, B)
<1> DEFINE e == Event("community_treasury_funded", c, a, sats, None)
           y == fund(all[c], sats)
<1>1. B[c] = Kept(all[c])
  BY DEF Agrees
<1>2. Posted(B, e)[c] = Kept(y)
  <2>1. Posted(B, e)[c] = PaidIn(B[c], sats)
    BY PostedEvents
  <2>2. /\ y.treasury.incoming = all[c].treasury.incoming + sats
        /\ y.treasury.outgoing = all[c].treasury.outgoing
        /\ y.members = all[c].members /\ y.boxes = all[c].boxes
    BY FundKept
  <2> HIDE DEF e, y
  <2>3. Kept(y) = [incoming |-> B[c].incoming + sats, outgoing |-> B[c].outgoing,
                   agents |-> B[c].agents, boxes |-> B[c].boxes]
    BY <1>1, <2>2, KeptIs
  <2> QED
    BY <2>1, <2>3 DEF PaidIn
<1>3. y \in Community /\ e.community = c
  BY FundKept DEF Event
<1>4. Funded(all, c, a, sats) = Save([all EXCEPT ![c] = y]) \o <<Record(e)>>
  BY DEF Funded
<1> HIDE DEF e, y
<1>5. Agrees([all EXCEPT ![c] = y], Posted(B, e))
  BY <1>2, <1>3, PutAgrees
<1> QED
  BY <1>4, <1>5, SavedAndTold

LEMMA BuyBalanced ==
  ASSUME NEW all, DOMAIN all = Communities, NEW B, IsBooks(B), Agrees(all, B), NEW f,
         NEW c \in Communities, NEW a, NEW machine, NEW host \in Nat, NEW price \in Nat,
         all[c] # None, all[c] \in Community
  PROVE  LET s == buy_seedbox(all, c, a, machine, host, price) IN
         s = <<>> \/ (IsList(s) /\ Balanced(s, f, B))
<1> DEFINE box == <<machine, host>>
           e == Event("seedbox_registered", c, a, price, box)
           x == Charged(all[c], price)
           z == Installed(x, box)
           y == rebalance(z)
           saved == Save([all EXCEPT ![c] = y]) \o <<Record(e)>>
<1>1. CASE all[c].treasury.balance < price \/ machine \notin Machines
  BY <1>1 DEF buy_seedbox
<1>2. CASE ~ (all[c].treasury.balance < price \/ machine \notin Machines)
  <2>1. buy_seedbox(all, c, a, machine, host, price)
          = <<Launch(box)>> \o Save([all EXCEPT ![c] = y]) \o <<Record(e)>>
    BY <1>2 DEF buy_seedbox
  <2>2. box \in Box
    BY <1>2 DEF Box
  <2>3. B[c] = Kept(all[c])
    BY DEF Agrees
  <2> HIDE DEF box
  <2>4. /\ x \in Community /\ z \in Community
        /\ Kept(z) = [incoming |-> B[c].incoming, outgoing |-> B[c].outgoing + price,
                      agents |-> B[c].agents, boxes |-> B[c].boxes \cup {box}]
    <3>1. /\ x \in Community
          /\ x.treasury.incoming = all[c].treasury.incoming
          /\ x.treasury.outgoing = all[c].treasury.outgoing + price
          /\ x.members = all[c].members /\ x.boxes = all[c].boxes
      BY ChargedKept
    <3> HIDE DEF x
    <3>2. /\ z \in Community /\ z.treasury = x.treasury /\ z.members = x.members
          /\ Parts(z.boxes) = Parts(x.boxes) \cup {box}
      BY <2>2, <3>1, InstalledKept
    <3> HIDE DEF z
    <3> QED
      BY <2>3, <3>1, <3>2, KeptIs
  <2>5. Kept(y) = Kept(z)
    BY <2>4, RebalanceKept
  <2>6. Posted(B, e)[c] = Kept(y)
    <3>1. Posted(B, e)[c] = PaidOut(B[c], price, box)
      BY PostedEvents
    <3> HIDE DEF e, y, z
    <3> QED
      BY <2>4, <2>5, <3>1 DEF PaidOut
  <2>7. y \in Community /\ e.community = c
    <3> HIDE DEF z
    <3> QED
      BY <2>4, RebalancedIn DEF Event
  <2> HIDE DEF e, y
  <2>8. Agrees([all EXCEPT ![c] = y], Posted(B, e))
    BY <2>6, <2>7, PutAgrees
  <2>9. Balanced(saved, f, B) /\ IsList(saved)
    BY <2>8, SavedAndTold
  <2>10. Plain(Launch(box)) /\ Launch(box).do # "buy"
    BY DEF Plain, Pays, Launch
  <2> DEFINE l == Launch(box)
  <2> HIDE DEF saved, l
  <2>11. Balanced(<<l>> \o saved, f, B) /\ IsList(<<l>> \o saved)
    BY <2>9, <2>10, PlainFirst, OneList, ListConcat DEF l
  <2>12. buy_seedbox(all, c, a, machine, host, price) = <<l>> \o saved
    BY <2>1 DEF saved, l, Save
  <2> QED
    BY <2>11, <2>12
<1> QED
  BY <1>1, <1>2

PlainList(q) == IsList(q) /\ \A k \in DOMAIN q : Plain(q[k])

LEMMA PlainLists ==
  /\ PlainList(<<>>)
  /\ \A e : Plain(e) => PlainList(<<e>>)
  /\ \A q, r : PlainList(q) /\ PlainList(r) => PlainList(q \o r)
<1>1. PlainList(<<>>)
  <2>1. <<>> \in Seq({}) /\ DOMAIN <<>> = {}
    OBVIOUS
  <2> QED
    BY <2>1, ListIn DEF PlainList
<1>2. ASSUME NEW e, Plain(e)
      PROVE  PlainList(<<e>>)
  <2> SUFFICES ASSUME NEW s, s = <<e>>
               PROVE  PlainList(s)
    OBVIOUS
  <2>1. IsList(s) /\ Len(s) = 1 /\ s[1] = e
    BY OneList
  <2>2. \A k \in DOMAIN s : s[k] = e
    BY <2>1, ListShape
  <2> QED
    BY <1>2, <2>1, <2>2 DEF PlainList
<1>3. ASSUME NEW q, NEW r, PlainList(q), PlainList(r)
      PROVE  PlainList(q \o r)
  <2> DEFINE t == q \o r
             n == Len(q)
             m == Len(r)
  <2>1. n \in Nat /\ DOMAIN q = 1..n /\ m \in Nat /\ DOMAIN r = 1..m
    BY <1>3, ListShape DEF PlainList
  <2>2. /\ IsList(t) /\ DOMAIN t = 1..n + m
        /\ \A k \in 1..n + m : t[k] = IF k <= n THEN q[k] ELSE r[k - n]
    BY <1>3, <2>1, ListConcat, ListShape DEF PlainList
  <2> HIDE DEF t, n, m
  <2>3. ASSUME NEW k \in DOMAIN t
        PROVE  Plain(t[k])
    <3>1. (k <= n /\ k \in 1..n) \/ (~ (k <= n) /\ k - n \in 1..m)
      BY <2>1, <2>2
    <3> QED
      BY <1>3, <2>1, <2>2, <3>1 DEF PlainList
  <2> QED
    BY <2>2, <2>3 DEF PlainList, t
<1> QED
  BY <1>1, <1>2, <1>3

LEMMA PlainAfter ==
  ASSUME NEW s, IsList(s), NEW f, NEW B, Balanced(s, f, B), NEW q, PlainList(q)
  PROVE  Balanced(s \o q, f, B) /\ IsList(s \o q)
BY PlainLast, ListConcat DEF PlainList

\* Effects that are plain leave a file that agrees with the books as it is.
LEMMA PlainAlone ==
  ASSUME NEW f, NEW B, f # Torn, Agrees(f, B), NEW q, PlainList(q)
  PROVE  Balanced(q, f, B)
<1>1. Drafts(q) = {} /\ Dues(q) = {}
  BY DEF PlainList, Plain, Drafts, Dues
<1>2. \A k \in DOMAIN q : q[k].do # "empty"
  BY DEF PlainList, Plain
<1> QED
  BY <1>1, <1>2 DEF Balanced, Outcome, Closing

LEMMA PlainEffects ==
  /\ \A action, c, a, sats, about :
       action \notin Paying \cup Joining \cup Buying =>
         Plain(Record(Event(action, c, a, sats, about)))
  /\ \A c, a, machine : Plain(Buy(c, a, machine))
  /\ \A c, a : Plain(Reread(c, a))
<1>1. ASSUME NEW action, NEW c, NEW a, NEW sats, NEW about,
             action \notin Paying \cup Joining \cup Buying
      PROVE  Plain(Record(Event(action, c, a, sats, about)))
  <2>1. Record(Event(action, c, a, sats, about)).do = "record"
        /\ Record(Event(action, c, a, sats, about)).event.action = action
    BY DEF Record, Event
  <2> QED
    BY <1>1, <2>1 DEF Plain, Pays
<1>2. \A c, a, machine : Plain(Buy(c, a, machine))
  BY DEF Plain, Pays, Buy
<1>3. \A c, a : Plain(Reread(c, a))
  BY DEF Plain, Pays, Reread
<1> QED
  BY <1>1, <1>2, <1>3

LEMMA ExpandPlain ==
  ASSUME NEW x, NEW c, NEW a
  PROVE  PlainList(maybe_expand_seedboxes(x, c, a))
<1> DEFINE reached == Record(Event("seedbox_capacity_reached", c, a, 0, None))
           buy(machine) == Buy(c, a, machine)
<1>1. Plain(reached)
  BY PlainEffects DEF Paying, Joining, Buying
<1>2. \A machine : Plain(buy(machine))
  BY PlainEffects
<1>3. maybe_expand_seedboxes(x, c, a) =
        IF required_seedbox_count(x) <= Len(x.boxes) THEN <<>>
        ELSE <<reached>> \o IF x.treasury.balance < Threshold THEN <<>>
                            ELSE <<buy(IF x.boxes = <<>> THEN "local" ELSE x.boxes[1][1])>>
  BY DEF maybe_expand_seedboxes
<1> HIDE DEF reached, buy
<1>4. /\ PlainList(<<>>) /\ PlainList(<<reached>> \o <<>>)
      /\ \A machine : PlainList(<<reached>> \o <<buy(machine)>>)
  BY <1>1, <1>2, PlainLists
<1> QED
  BY <1>3, <1>4

LEMMA JoinBalanced ==
  ASSUME NEW all, DOMAIN all = Communities, NEW B, IsBooks(B), Agrees(all, B), NEW f,
         NEW c \in Communities, NEW a \in Agents, NEW sats \in Nat,
         all[c] # None, all[c] \in Community
  PROVE  LET s == join_community(all, c, a, sats) IN s = <<>> \/ Balanced(s, f, B)
<1> DEFINE e == Event("community_member_added", c, a, sats, None)
           member == [agent |-> a, sats |-> sats, box |-> None]
           x == fund(all[c], sats)
           z == Joined(x, member)
           y == rebalance(z)
           expand == maybe_expand_seedboxes(y, c, a)
           first == <<Record(e)>> \o Save([all EXCEPT ![c] = y])
           reread == Reread(c, a)
<1>1. CASE sats < JoinFee
  BY <1>1 DEF join_community
<1>2. CASE ~ (sats < JoinFee)
  <2>1. join_community(all, c, a, sats) = first \o expand \o <<reread>>
    BY <1>2 DEF join_community, Save
  <2>2. PlainList(expand) /\ PlainList(<<reread>>)
    BY ExpandPlain, PlainEffects, PlainLists
  <2>3. member \in Member /\ member.agent = a
    BY DEF Member
  <2>4. B[c] = Kept(all[c])
    BY DEF Agrees
  <2> HIDE DEF member, expand, reread
  <2>5. /\ z \in Community
        /\ Kept(z) = Enrolled(B[c], sats, a)
    <3>1. /\ x \in Community
          /\ x.treasury.incoming = all[c].treasury.incoming + sats
          /\ x.treasury.outgoing = all[c].treasury.outgoing
          /\ x.members = all[c].members /\ x.boxes = all[c].boxes
      BY FundKept
    <3> HIDE DEF x
    <3>2. /\ z \in Community /\ z.treasury = x.treasury /\ z.boxes = x.boxes
          /\ AgentsOf(z.members) = AgentsOf(x.members) \cup {a}
      BY <2>3, <3>1, JoinedKept
    <3> HIDE DEF z
    <3> QED
      BY <2>4, <3>1, <3>2, KeptIs DEF Enrolled
  <2>6. Posted(B, e)[c] = Enrolled(B[c], sats, a)
    BY PostedEvents
  <2>7. e.community = c
    BY DEF Event
  <2> HIDE DEF e, z
  <2>8. y \in Community /\ Kept(y) = Posted(B, e)[c]
    BY <2>5, <2>6, RebalancedIn, RebalanceKept
  <2> HIDE DEF y
  <2>9. Agrees([all EXCEPT ![c] = y], Posted(B, e))
    BY <2>7, <2>8, PutAgrees
  <2>10. Balanced(first, f, B) /\ IsList(first)
    BY <2>9, SavedAndTold
  <2> HIDE DEF first
  <2>11. Balanced(first \o expand, f, B) /\ IsList(first \o expand)
    BY <2>2, <2>10, PlainAfter
  <2>12. Balanced(first \o expand \o <<reread>>, f, B)
    BY <2>2, <2>11, PlainAfter
  <2> QED
    BY <2>1, <2>12
<1> QED
  BY <1>1, <1>2

LEMMA ImportedBalanced ==
  ASSUME NEW all, DOMAIN all = Communities, NEW B, IsBooks(B), Agrees(all, B), NEW f,
         NEW c \in Communities, NEW catalog \in Files,
         all[c] # None, all[c] \in Community
  PROVE  Balanced(Imported(all, c, catalog), f, B)
<1> DEFINE Row(id) == IF catalog[id] = None THEN all[c].files[id] ELSE catalog[id]
           files == [id \in FileIds |-> Row(id)]
           y == [all[c] EXCEPT !.files = files]
           e == Event("file_catalog_imported", c, all[c].founder, 0, None)
<1>1. files \in Files
  BY DEF Files, Community
<1>2. Imported(all, c, catalog) = Save([all EXCEPT ![c] = y]) \o <<Record(e)>>
  BY DEF Imported
<1> HIDE DEF files
<1>3. /\ y \in Community /\ y.treasury = all[c].treasury
      /\ y.members = all[c].members /\ y.boxes = all[c].boxes
  BY <1>1 DEF Community
<1>4. e.community = c /\ ~ Pays(Record(e))
  BY PlainEffects DEF Event, Plain, Paying, Joining, Buying
<1> HIDE DEF y, e
<1>5. Posted(B, e) = B
  BY <1>4, OtherEvents
<1>6. Posted(B, e)[c] = Kept(y)
  BY <1>3, <1>5, KeptIs DEF Agrees
<1>7. Agrees([all EXCEPT ![c] = y], Posted(B, e))
  BY <1>3, <1>4, <1>6, PutAgrees
<1> QED
  BY <1>2, <1>7, SavedAndTold

---------------------------------------------------------------------------
\* One process at a time.

LEMMA NothingLeft ==
  ASSUME NEW f, NEW B, Balanced(<<>>, f, B)
  PROVE  f # Torn /\ Agrees(f, B)
<1>1. DOMAIN <<>> = {}
  OBVIOUS
<1>2. Drafts(<<>>) = {} /\ Dues(<<>>) = {}
  BY <1>1 DEF Drafts, Dues
<1> QED
  BY <1>2 DEF Balanced, Outcome, Closing

LEMMA AloneBegin ==
  ASSUME ClawInv, AloneInv, NEW p \in Processes, NEW effects, Begin(p, effects),
         file # Torn /\ Agrees(file, Books(audit)) =>
           effects = <<>> \/ Balanced(effects, file, Books(audit))
  PROVE  AloneInv'
<1>1. /\ \A q \in Processes : running'[q] = IF q = p THEN effects ELSE running[q]
      /\ file' = file /\ audit' = audit /\ mishaps' = mishaps
      /\ Books(audit)' = Books(audit)
  BY DEF Begin, ClawInv, Books, Reported
<1>2. mishaps' \in Nat
  BY <1>1 DEF AloneInv
<1>3. ASSUME ~ overlapped', mishaps' = 0
      PROVE  /\ \A q, r \in Processes : ~ Idle(q)' /\ ~ Idle(r)' => q = r
             /\ \A q \in Processes : ~ Idle(q)' => Balanced(running[q], file, Books(audit))'
             /\ (\A q \in Processes : Idle(q)') => Balanced(<<>>, file, Books(audit))'
  <2>1. ~ overlapped /\ mishaps = 0 /\ \A q \in Processes : Idle(q)
    BY <1>1, <1>3 DEF Begin
  <2>2. Balanced(<<>>, file, Books(audit))
    BY <2>1 DEF AloneInv
  <2>3. effects = <<>> \/ Balanced(effects, file, Books(audit))
    BY <2>2, NothingLeft
  <2>4. \A q \in Processes : ~ Idle(q)' => q = p /\ effects # <<>>
    BY <1>1, <2>1 DEF Idle
  <2> QED
    BY <1>1, <2>2, <2>3, <2>4
<1> QED
  BY <1>2, <1>3 DEF AloneInv

LEMMA AloneThen ==
  ASSUME ClawInv, AloneInv, NEW p \in Processes, NEW effects, Then(p, effects), ~ Idle(p),
         UNCHANGED <<overlapped, mishaps>>,
         Balanced(running[p], file, Books(audit)) =>
           Balanced(effects, file, Books(audit))'
  PROVE  AloneInv'
<1>1. \A q \in Processes : running'[q] = IF q = p THEN effects ELSE running[q]
  BY DEF Then, ClawInv
<1>2. mishaps' \in Nat
  BY DEF AloneInv
<1>3. ASSUME ~ overlapped', mishaps' = 0
      PROVE  /\ \A q, r \in Processes : ~ Idle(q)' /\ ~ Idle(r)' => q = r
             /\ \A q \in Processes : ~ Idle(q)' => Balanced(running[q], file, Books(audit))'
             /\ (\A q \in Processes : Idle(q)') => Balanced(<<>>, file, Books(audit))'
  <2>1. Balanced(effects, file, Books(audit))'
    BY <1>3 DEF AloneInv
  <2>2. \A q \in Processes : q # p => Idle(q)
    BY <1>3 DEF AloneInv
  <2>3. \A q \in Processes : ~ Idle(q)' => q = p
    BY <1>1, <2>2 DEF Idle
  <2>4. Idle(p)' => effects = <<>>
    BY <1>1 DEF Idle
  <2>5. running'[p] = effects
    BY <1>1
  <2> QED
    BY <2>1, <2>3, <2>4, <2>5
<1> QED
  BY <1>2, <1>3 DEF AloneInv

LEMMA AloneOperation ==
  ASSUME ClawInv, AloneInv, NEW p \in Processes, Operation(p)
  PROVE  AloneInv'
<1> DEFINE B == Books(audit)
<1>1. IsBooks(B)
  BY BooksAreBooks
<1>2. \A c \in Communities : Known(c) =>
        DOMAIN file = Communities /\ file[c] # None /\ file[c] \in Community
  BY DEF Known, ClawInv, SoundAll
<1>3. file # Torn => DOMAIN file = Communities
  BY DEF ClawInv, SoundAll
<1> HIDE DEF B
<1>4. PICK c \in Communities, a \in Agents :
        \/ \E sats \in Amounts : CreateCommunity(p, c, a, sats)
        \/ \E sats \in Amounts : FundTreasury(p, c, a, sats)
        \/ \E sats \in Amounts : JoinCommunity(p, c, a, sats)
        \/ \E machine \in Providers, host \in Hosts, price \in Costs :
             BuySeedbox(p, c, a, machine, host, price)
        \/ \E machine \in Providers :
             Known(c) /\ BuySeedbox(p, c, a, machine, NextHost(file[c]), Threshold)
        \/ FindFile(p, c, a)
        \/ \E f \in FileIds, held \in {"that content", "another", "nothing"} :
             RetrieveFile(p, c, a, f, held)
  BY DEF Operation
<1>5. ASSUME NEW sats \in Amounts, CreateCommunity(p, c, a, sats)
      PROVE  AloneInv'
  <2>1. file # Torn /\ file[c] = None /\ Begin(p, Created(file, c, a, sats)) /\ sats \in Nat
    BY <1>5, ClawAssumption DEF CreateCommunity
  <2>2. Agrees(file, B) => Balanced(Created(file, c, a, sats), file, B)
    BY <1>1, <1>3, <2>1, CreatedBalanced
  <2> QED
    BY <2>1, <2>2, AloneBegin DEF B
<1>6. ASSUME NEW sats \in Amounts, FundTreasury(p, c, a, sats)
      PROVE  AloneInv'
  <2>1. Known(c) /\ Begin(p, Funded(file, c, a, sats)) /\ sats \in Nat
    BY <1>6, ClawAssumption DEF FundTreasury
  <2>2. Agrees(file, B) => Balanced(Funded(file, c, a, sats), file, B)
    BY <1>1, <1>2, <2>1, FundedBalanced
  <2> QED
    BY <2>1, <2>2, AloneBegin DEF B
<1>7. ASSUME NEW sats \in Amounts, JoinCommunity(p, c, a, sats)
      PROVE  AloneInv'
  <2>1. Known(c) /\ Begin(p, join_community(file, c, a, sats)) /\ sats \in Nat
    BY <1>7, ClawAssumption DEF JoinCommunity
  <2> DEFINE s == join_community(file, c, a, sats)
  <2>2. Agrees(file, B) => s = <<>> \/ Balanced(s, file, B)
    BY <1>1, <1>2, <2>1, JoinBalanced
  <2> HIDE DEF s
  <2>3. Begin(p, s)
    BY <2>1 DEF s
  <2> QED
    BY <2>2, <2>3, AloneBegin DEF B
<1>8. ASSUME NEW machine, NEW host \in Nat, NEW price \in Nat,
             BuySeedbox(p, c, a, machine, host, price)
      PROVE  AloneInv'
  <2> DEFINE s == buy_seedbox(file, c, a, machine, host, price)
  <2>1. Known(c) /\ Begin(p, s)
    BY <1>8 DEF BuySeedbox
  <2>2. Agrees(file, B) => s = <<>> \/ Balanced(s, file, B)
    BY <1>1, <1>2, <2>1, BuyBalanced
  <2> HIDE DEF s
  <2> QED
    BY <2>1, <2>2, AloneBegin DEF B
<1>9. CASE \E machine \in Providers, host \in Hosts, price \in Costs :
             BuySeedbox(p, c, a, machine, host, price)
  BY <1>8, <1>9, ClawAssumption
<1>10. CASE \E machine \in Providers :
              Known(c) /\ BuySeedbox(p, c, a, machine, NextHost(file[c]), Threshold)
  BY <1>8, <1>10, HostNumber, ClawAssumption
<1>11. ASSUME NEW s, PlainList(s), Begin(p, s)
       PROVE  AloneInv'
  <2>1. file # Torn /\ Agrees(file, B) => Balanced(s, file, B)
    BY <1>11, PlainAlone
  <2> QED
    BY <1>11, <2>1, AloneBegin DEF B
<1>12. CASE FindFile(p, c, a)
  <2>1. PlainList(Searched(c, a))
    BY PlainEffects, PlainLists DEF Searched, Paying, Joining, Buying
  <2> QED
    BY <1>11, <1>12, <2>1 DEF FindFile
<1>13. CASE \E f \in FileIds, held \in {"that content", "another", "nothing"} :
              RetrieveFile(p, c, a, f, held)
  <2>1. \A verified : PlainList(Retrieved(c, a, verified))
    <3>1. \A action \in {"file_retrieval_verified", "file_retrieved"} :
            action \notin Paying \cup Joining \cup Buying
      BY DEF Paying, Joining, Buying
    <3>2. \A sats : \A action \in {"file_retrieval_verified", "file_retrieved"} :
            PlainList(<<Record(Event(action, c, a, sats, None))>>)
      BY <3>1, PlainEffects, PlainLists
    <3> QED
      BY <3>2 DEF Retrieved
  <2> QED
    BY <1>11, <1>13, <2>1 DEF RetrieveFile
<1> QED
  BY <1>4, <1>5, <1>6, <1>7, <1>9, <1>10, <1>12, <1>13

LEMMA AloneImport ==
  ASSUME ClawInv, AloneInv, NEW p \in Processes, NEW c \in Communities,
         NEW catalog \in Catalogs, ImportFileCatalog(p, c, catalog)
  PROVE  AloneInv'
<1>1. Known(c) /\ Begin(p, Imported(file, c, catalog)) /\ catalog \in Files
  BY ClawAssumption DEF ImportFileCatalog
<1>2. DOMAIN file = Communities /\ file[c] # None /\ file[c] \in Community
  BY <1>1 DEF Known, ClawInv, SoundAll
<1>3. Agrees(file, Books(audit)) => Balanced(Imported(file, c, catalog), file, Books(audit))
  BY <1>1, <1>2, ImportedBalanced, BooksAreBooks
<1> QED
  BY <1>1, <1>3, AloneBegin

LEMMA AloneEffect ==
  ASSUME ClawInv, AloneInv, NEW p \in Processes, Effect(p)
  PROVE  AloneInv'
<1> DEFINE s == running[p]
           e == Head(s)
           B == Books(audit)
<1>1. IsList(s) /\ IsBooks(B) /\ Harmless(s, Told, launched)
  BY BooksAreBooks DEF ClawInv, Harmless
<1>2. ASSUME ~ Idle(p), e.do # "buy", Done(p), UNCHANGED <<overlapped, mishaps>>,
             file' = IF e.do = "empty" THEN Torn ELSE IF e.do = "write" THEN e.all ELSE file,
             Books(audit)' = IF e.do = "record" THEN Posted(B, e.event) ELSE B
      PROVE  AloneInv'
  <2>1. s # <<>>
    BY <1>2 DEF Idle
  <2>2. e.do = "write" => e.all # Torn
    <3>1. e.do = "write" => SoundAll(e.all, Told, launched)
      BY <1>1, <2>1, FirstEffect
    <3> QED
      BY <3>1, ClawAssumption DEF SoundAll
  <2>3. Balanced(s, file, B) => Balanced(Tail(s), file', Books(audit)')
    <3> HIDE DEF s, B
    <3> QED
      BY <1>1, <1>2, <2>1, <2>2, NextBalanced
  <2>4. Then(p, Tail(s))
    BY <1>2 DEF Done
  <2> QED
    BY <1>2, <2>3, <2>4, AloneThen
<1>3. ASSUME audit' = audit
      PROVE  Books(audit)' = B
  BY <1>3 DEF Books, Reported
<1>4. CASE LaunchMachine(p)
  BY <1>2, <1>3, <1>4 DEF LaunchMachine, Doing
<1>5. CASE EmptyFile(p)
  BY <1>2, <1>3, <1>5 DEF EmptyFile, Doing
<1>6. CASE WriteFile(p)
  BY <1>2, <1>3, <1>6 DEF WriteFile, Doing
<1>7. CASE RereadMember(p)
  BY <1>2, <1>3, <1>7 DEF RereadMember, Doing
<1>8. CASE RecordEvent(p)
  <2>1. ~ Idle(p) /\ e.do = "record" /\ Done(p) /\ audit' = Append(audit, e.event)
        /\ UNCHANGED <<file, overlapped, mishaps>>
    BY <1>8 DEF RecordEvent, Doing
  <2>2. Books(audit') = Posted(B, e.event)
    BY <2>1, BooksAppend DEF ClawInv
  <2>3. Books(audit)' = Books(audit')
    BY DEF Books, Reported
  <2> QED
    BY <1>2, <2>1, <2>2, <2>3
<1>9. CASE BuyForExpansion(p)
  <2> DEFINE c == e.community
             effects == IF Known(c)
                        THEN buy_seedbox(file, c, e.agent, e.machine,
                                         NextHost(file[c]), Threshold)
                        ELSE <<>>
             next == IF effects = <<>> THEN <<>> ELSE effects \o Tail(s)
  <2>1. /\ ~ Idle(p) /\ e.do = "buy" /\ Then(p, next)
        /\ UNCHANGED <<file, audit, overlapped, mishaps>>
    BY <1>9 DEF BuyForExpansion, Doing
  <2>2. s # <<>> /\ c \in Communities
    BY <1>1, <2>1, FirstEffect DEF Idle
  <2>3. ASSUME Balanced(s, file, B)
        PROVE  Balanced(next, file, B)
    <3>1. Len(s) \in Nat /\ DOMAIN s = 1..Len(s) /\ Len(s) >= 1 /\ e = s[1]
      BY <1>1, <2>2, ListShape, ListTail
    <3> HIDE DEF s, e, B
    <3>2. Drafts(s) = {} /\ Dues(s) = {}
      <4>1. 1 \in DOMAIN s /\ s[1].do = "buy"
        BY <2>1, <3>1
      <4>2. \A l \in Drafts(s) \cup Dues(s) : l < 1
        BY <2>3, <4>1 DEF Balanced
      <4>3. Drafts(s) \cup Dues(s) \subseteq 1..Len(s)
        BY <3>1 DEF Drafts, Dues
      <4> QED
        BY <3>1, <4>2, <4>3
    <3>3. file # Torn /\ Agrees(file, B)
      BY <2>3, <3>2 DEF Balanced, Outcome, Closing
    <3>4. PlainList(s)
      <4>1. \A k \in DOMAIN s : s[k].do # "write" /\ ~ Pays(s[k])
        BY <3>2 DEF Drafts, Dues
      <4>2. \A k \in DOMAIN s : s[k].do # "empty"
        BY <2>3, <3>2 DEF Balanced
      <4> QED
        BY <1>1, <4>1, <4>2 DEF PlainList, Plain
    <3>5. PlainList(Tail(s))
      <4> DEFINE t == Tail(s)
      <4>1. /\ IsList(t) /\ DOMAIN t = 1..Len(s) - 1
            /\ \A k \in 1..Len(s) - 1 : t[k] = s[k + 1]
        BY <1>1, <2>2, ListTail, ListShape DEF s
      <4> HIDE DEF t
      <4>2. \A k \in DOMAIN t : k + 1 \in DOMAIN s /\ t[k] = s[k + 1]
        BY <3>1, <4>1
      <4> QED
        BY <3>4, <4>1, <4>2 DEF PlainList, t
    <3>6. effects = <<>> \/ (IsList(effects) /\ Balanced(effects, file, B))
      <4>1. CASE Known(c)
        <5>1. DOMAIN file = Communities /\ file[c] # None /\ file[c] \in Community
          BY <2>2, <4>1 DEF Known, ClawInv, SoundAll
        <5>2. NextHost(file[c]) \in Nat /\ Threshold \in Nat
          BY <2>2, <4>1, HostNumber, ClawAssumption
        <5> DEFINE b == buy_seedbox(file, c, e.agent, e.machine, NextHost(file[c]), Threshold)
        <5>3. b = <<>> \/ (IsList(b) /\ Balanced(b, file, B))
          BY <1>1, <2>2, <3>3, <5>1, <5>2, BuyBalanced
        <5> QED
          BY <4>1, <5>3
      <4>2. CASE ~ Known(c)
        BY <4>2
      <4> QED
        BY <4>1, <4>2
    <3> HIDE DEF effects
    <3>7. CASE effects = <<>>
      BY <3>3, <3>7, NothingToDo
    <3>8. CASE effects # <<>>
      <4>1. Balanced(effects \o Tail(s), file, B)
        BY <3>5, <3>6, <3>8, PlainAfter
      <4> QED
        BY <3>8, <4>1
    <3> QED
      BY <3>7, <3>8
  <2> HIDE DEF next
  <2>4. file' = file /\ Books(audit)' = B
    BY <1>3, <2>1
  <2>5. Balanced(s, file, B) => Balanced(next, file', Books(audit)')
    BY <2>3, <2>4
  <2> HIDE DEF effects, e, c
  <2> QED
    BY <2>1, <2>5, AloneThen DEF next
<1> QED
  BY <1>4, <1>5, <1>6, <1>7, <1>8, <1>9 DEF Effect

LEMMA AloneMishap ==
  ASSUME AloneInv, NEW p \in Processes, Mishap(p)
  PROVE  AloneInv'
<1>1. mishaps' \in Nat /\ mishaps' # 0
  BY DEF AloneInv, Mishap
<1> QED
  BY <1>1 DEF AloneInv

LEMMA AloneInit ==
  ASSUME Init
  PROVE  AloneInv
<1>1. file # Torn
  BY ClawAssumption DEF Init
<1>2. Agrees(file, Books(audit))
  <2>1. Books(audit) = [c \in Communities |-> Empty]
    BY NoBooks DEF Init
  <2> QED
    BY <2>1 DEF Init, Agrees
<1>3. Balanced(<<>>, file, Books(audit))
  BY <1>1, <1>2, NothingToDo
<1> QED
  BY <1>3 DEF Init, AloneInv, Idle

\* While no two operations overlap and none dies, the operation under way leads
\* to a file that says what the audit log says by then.
THEOREM AloneInvariant == Spec => []AloneInv
<1>1. Init => AloneInv
  BY AloneInit
<1>2. ClawInv /\ AloneInv /\ [Next]_vars => AloneInv'
  <2> SUFFICES ASSUME ClawInv, AloneInv, [Next]_vars
               PROVE  AloneInv'
    OBVIOUS
  <2>1. CASE UNCHANGED vars
    BY <2>1 DEF vars, AloneInv, Idle, Books, Reported
  <2>2. CASE Next
    BY <2>2, AloneOperation, AloneImport, AloneEffect, AloneMishap DEF Next
  <2> QED
    BY <2>1, <2>2
<1> QED
  BY <1>1, <1>2, ClawInvariant, PTL DEF Spec

\* As long as no two operations overlapped and none died, once all have ended
\* the file says what the audit log says.
THEOREM TheBooksBalance == Spec => []NothingLostAlone
<1>1. AloneInv => NothingLostAlone
  <2> SUFFICES ASSUME AloneInv, ~ overlapped, mishaps = 0, \A p \in Processes : Idle(p)
               PROVE  /\ file # Torn
                      /\ \A c \in Communities :
                           file[c] # None => Kept(file[c]) = Reported(audit, c)
    BY DEF NothingLostAlone
  <2>1. file # Torn /\ Agrees(file, Books(audit))
    BY NothingLeft DEF AloneInv
  <2> QED
    BY <2>1 DEF Agrees, Books
<1> QED
  BY <1>1, AloneInvariant, PTL

=============================================================================

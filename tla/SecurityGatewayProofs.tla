------------------------ MODULE SecurityGatewayProofs ------------------------
(***************************************************************************)
(* Proofs about the gateway, for any number of clients, requests, failures *)
(* and restarts, and any log it starts from: a verdict is that of the      *)
(* whole log, no entry takes weight off a subject, a seedbox that the log  *)
(* has a charge for is not charged again by a later audit, and a start     *)
(* rebuilds the state from the log; and about                              *)
(* the tools that play attacks against gateways of their own: a first run  *)
(* ends with its layer done, and done stays done.                          *)
(*                                                                         *)
(* What the gateway knows is a fold over its log, so first comes what one  *)
(* entry more does to a fold (Recursion); then, per property, what the     *)
(* effects of a request still to come may hold; then what each call of a   *)
(* tool answers and adds to the attacker's score.                          *)
(***************************************************************************)
EXTENDS SecurityLayers, SequenceTheorems, FiniteSetTheorems, TLAPS

---------------------------------------------------------------------------
\* Lists.

IsList(s) == s \in Seq({s[i] : i \in DOMAIN s})
Parts(s) == {s[i] : i \in DOMAIN s}

LEMMA ListIn ==
  ASSUME NEW S, NEW s \in Seq(S)
  PROVE  IsList(s) /\ Len(s) \in Nat /\ DOMAIN s = 1..Len(s)
<1>1. Len(s) \in Nat /\ DOMAIN s = 1..Len(s) /\ s = [i \in 1..Len(s) |-> s[i]]
  OBVIOUS
<1> QED
  BY <1>1 DEF IsList

LEMMA ListShape ==
  ASSUME NEW s, IsList(s)
  PROVE  Len(s) \in Nat /\ DOMAIN s = 1..Len(s) /\ s \in Seq(Parts(s))
BY DEF IsList, Parts

LEMMA ListNone == IsList(<<>>) /\ DOMAIN <<>> = {}
<1>1. ASSUME NEW s, s = <<>>
      PROVE  IsList(s) /\ DOMAIN s = {}
  <2>1. s \in Seq({}) /\ Len(s) = 0
    BY <1>1
  <2>2. IsList(s) /\ DOMAIN s = 1..Len(s)
    BY <2>1, ListIn
  <2> QED
    BY <2>1, <2>2
<1> QED
  BY <1>1

LEMMA ListOne ==
  ASSUME NEW e
  PROVE  IsList(<<e>>) /\ DOMAIN <<e>> = {1} /\ <<e>>[1] = e
         /\ Head(<<e>>) = e /\ Tail(<<e>>) = <<>> /\ <<e>> # <<>>
<1>1. <<e>> \in Seq({e}) /\ DOMAIN <<e>> = {1} /\ <<e>>[1] = e
  OBVIOUS
<1>2. Head(<<e>>) = e /\ Tail(<<e>>) = <<>> /\ <<e>> # <<>>
  OBVIOUS
<1>3. IsList(<<e>>)
  BY <1>1, ListIn
<1> QED
  BY <1>1, <1>2, <1>3

LEMMA ListAppend ==
  ASSUME NEW s, IsList(s), NEW e
  PROVE  /\ IsList(Append(s, e))
         /\ Len(Append(s, e)) = Len(s) + 1
         /\ DOMAIN Append(s, e) = 1..Len(s) + 1
         /\ \A i \in 1..Len(s) : Append(s, e)[i] = s[i]
         /\ Append(s, e)[Len(s) + 1] = e
<1> DEFINE S == Parts(s) \cup {e}
<1>1. s \in Seq(S) /\ e \in S
  BY ListShape
<1> HIDE DEF S
<1>2. Append(s, e) \in Seq(S) /\ Len(Append(s, e)) = Len(s) + 1
  BY <1>1, AppendProperties
<1>3. IsList(Append(s, e)) /\ DOMAIN Append(s, e) = 1..Len(s) + 1
  BY <1>2, ListIn
<1> QED
  BY <1>1, <1>2, <1>3, AppendProperties

\* A list of the elements of two.
Joins(r, s, t) ==
  /\ IsList(r)
  /\ \A k \in DOMAIN r : (\E i \in DOMAIN s : r[k] = s[i]) \/ \E i \in DOMAIN t : r[k] = t[i]

LEMMA ListConcat ==
  ASSUME NEW s, NEW t, IsList(s), IsList(t)
  PROVE  Joins(s \o t, s, t)
<1> DEFINE S == Parts(s) \cup Parts(t)
           r == s \o t
<1>1. s \in Seq(S) /\ t \in Seq(S)
  BY ListShape
<1>2. /\ Len(s) \in Nat /\ Len(t) \in Nat
      /\ DOMAIN s = 1..Len(s) /\ DOMAIN t = 1..Len(t)
  BY ListShape
<1> HIDE DEF S
<1>3. r \in Seq(S) /\ Len(r) = Len(s) + Len(t)
      /\ \A i \in 1..Len(s) + Len(t) :
           r[i] = IF i <= Len(s) THEN s[i] ELSE t[i - Len(s)]
  BY <1>1, ConcatProperties
<1>4. IsList(r) /\ DOMAIN r = 1..Len(s) + Len(t)
  BY <1>3, ListIn
<1> HIDE DEF r
<1>5. ASSUME NEW k \in DOMAIN r
      PROVE  (\E i \in DOMAIN s : r[k] = s[i]) \/ \E i \in DOMAIN t : r[k] = t[i]
  <2>1. CASE k <= Len(s)
    BY <1>2, <1>3, <1>4, <2>1
  <2>2. CASE ~ (k <= Len(s))
    <3>1. k - Len(s) \in DOMAIN t /\ r[k] = t[k - Len(s)]
      BY <1>2, <1>3, <1>4, <2>2
    <3> QED
      BY <3>1
  <2> QED
    BY <2>1, <2>2
<1> QED
  BY <1>4, <1>5 DEF Joins, r

LEMMA ListTail ==
  ASSUME NEW s, IsList(s), s # <<>>
  PROVE  /\ 1 \in DOMAIN s /\ Head(s) = s[1]
         /\ IsList(Tail(s))
         /\ \A k \in DOMAIN Tail(s) : \E i \in DOMAIN s : Tail(s)[k] = s[i]
<1>1. s \in Seq(Parts(s)) /\ Len(s) \in Nat /\ DOMAIN s = 1..Len(s)
  BY ListShape
<1>2. Tail(s) \in Seq(Parts(s)) /\ Len(Tail(s)) = Len(s) - 1
      /\ \A i \in 1..Len(Tail(s)) : Tail(s)[i] = s[i + 1]
  BY <1>1, HeadTailProperties
<1>3. Len(s) >= 1 /\ Head(s) = s[1]
  BY <1>1
<1>4. IsList(Tail(s)) /\ DOMAIN Tail(s) = 1..Len(s) - 1
  BY <1>2, ListIn
<1>5. \A k \in DOMAIN Tail(s) : k + 1 \in DOMAIN s /\ Tail(s)[k] = s[k + 1]
  BY <1>1, <1>2, <1>4
<1> QED
  BY <1>1, <1>3, <1>4, <1>5

\* One element and the rest.
LEMMA ListFirst ==
  ASSUME NEW e, NEW s, IsList(s)
  PROVE  IsList(<<e>> \o s) /\ Head(<<e>> \o s) = e /\ Tail(<<e>> \o s) = s
         /\ <<e>> \o s # <<>>
<1> DEFINE S == Parts(s) \cup {e}
<1>1. s \in Seq(S) /\ e \in S
  BY ListShape
<1> HIDE DEF S
<1>2. <<e>> \o s \in Seq(S) /\ Head(<<e>> \o s) = e /\ Tail(<<e>> \o s) = s
        /\ <<e>> \o s # <<>>
  BY <1>1
<1> QED
  BY <1>2, ListIn

---------------------------------------------------------------------------
\* The score of a log, as a recursion over its entries; w is <<log, agent>>.

LastOf(E, w) == Max(E)
ScoreStep(x, i, w) == IF w[1][i].subject = w[2] THEN x + Weight(w[1][i]) ELSE x
Scoring == INSTANCE Recursion WITH Base <- 0, Pick <- LastOf, Step <- ScoreStep

LEMMA LastIsPicked ==
  ASSUME NEW n \in Nat, NEW E \in SUBSET (1..n), E # {}
  PROVE  Max(E) \in E /\ \A i \in E : i <= Max(E)
<1>1. \E i \in E : \A j \in E : j <= i
  BY Scoring!Greatest
<1>2. \E i \in E : \A j \in E : i >= j
  BY <1>1
<1>3. Max(E) \in E /\ \A j \in E : Max(E) >= j
  BY <1>2 DEF Max
<1> QED
  BY <1>3

LEMMA ScoringPicksLast ==
  ASSUME NEW n \in Nat, NEW w
  PROVE  Scoring!PicksLast(n, w)
BY LastIsPicked DEF Scoring!PicksLast, LastOf

LEMMA ScoreIs ==
  ASSUME NEW s, NEW a
  PROVE  Score(s, a) = Scoring!Value(DOMAIN s, <<s, a>>)
BY DEF Score, Scoring!Value, Scoring!Recursive, FoldLeft, MapThenFoldSet,
       ScoreStep, LastOf

LEMMA WeightType ==
  /\ \A action : DEFAULT_WEIGHTS(action) \in Nat
  /\ \A e : e.severity \in Int => Weight(e) \in Nat
<1>1. \A action : DEFAULT_WEIGHTS(action) \in Nat
  BY DEF DEFAULT_WEIGHTS
<1>2. \A e : e.severity \in Int => Weight(e) \in Nat
  BY <1>1 DEF Weight
<1> QED
  BY <1>1, <1>2

\* One entry more adds its weight to the score of its subject.
LEMMA ScoreAppend ==
  ASSUME NEW s, IsList(s), NEW e, NEW a
  PROVE  Score(Append(s, e), a) =
           IF e.subject = a THEN Score(s, a) + Weight(e) ELSE Score(s, a)
<1> DEFINE t == Append(s, e)
           n == Len(s)
           w == <<t, a>>
           v == <<s, a>>
<1>1. n \in Nat /\ DOMAIN s = 1..n
  BY ListShape
<1>2. DOMAIN t = 1..n + 1 /\ t[n + 1] = e /\ \A i \in 1..n : t[i] = s[i]
  BY ListAppend
<1>3. w[1] = t /\ w[2] = a /\ v[1] = s /\ v[2] = a
  OBVIOUS
<1> HIDE DEF t, n, w, v
<1>4. \A i \in 1..n : \A x : ScoreStep(x, i, w) = ScoreStep(x, i, v)
  BY <1>2, <1>3 DEF ScoreStep
<1>5. Scoring!Value(1..n + 1, w) = ScoreStep(Scoring!Value(1..n, v), n + 1, w)
  BY <1>1, <1>4, ScoringPicksLast, Scoring!NextIndex
<1>6. Score(t, a) = Scoring!Value(1..n + 1, w) /\ Score(s, a) = Scoring!Value(1..n, v)
  BY <1>1, <1>2, ScoreIs DEF w, v
<1> QED
  BY <1>2, <1>3, <1>5, <1>6 DEF ScoreStep, t

\* A log whose severities are integers.
ScoredList(s) == IsList(s) /\ \A i \in DOMAIN s : s[i].severity \in Int

LEMMA ScoredUpTo ==
  ASSUME NEW s, ScoredList(s), NEW a, NEW k \in 0..Len(s)
  PROVE  Scoring!Value(1..k, <<s, a>>) \in Nat
<1> DEFINE n == Len(s)
           w == <<s, a>>
           T == {i \in 0..n : Scoring!Value(1..i, w) \in Nat}
<1>1. n \in Nat /\ DOMAIN s = 1..n
  BY ListShape DEF ScoredList
<1>2. 0 \in T
  <2>1. 1..0 = {}
    OBVIOUS
  <2>2. Scoring!Value({}, w) = 0
    BY Scoring!Empty
  <2> QED
    BY <1>1, <2>1, <2>2
<1>3. ASSUME NEW i \in 0..n - 1, i \in T
      PROVE  i + 1 \in T
  <2>1. i \in Nat /\ i + 1 \in 1..n /\ i + 1 \in 0..n
    BY <1>1
  <2>2. Scoring!PicksLast(i, w) /\ Scoring!PicksLast(i + 1, w)
    BY <2>1, ScoringPicksLast
  <2>3. Scoring!Value(1..i + 1, w) = ScoreStep(Scoring!Value(1..i, w), i + 1, w)
    BY <2>1, <2>2, Scoring!NextIndex
  <2>4. w[1] = s
    OBVIOUS
  <2>5. Weight(w[1][i + 1]) \in Nat
    BY <1>1, <2>1, <2>4, WeightType DEF ScoredList
  <2>6. Scoring!Value(1..i, w) \in Nat
    BY <1>3
  <2>7. Scoring!Value(1..i + 1, w) \in Nat
    BY <2>3, <2>5, <2>6 DEF ScoreStep
  <2> QED
    BY <2>1, <2>7
<1>4. k \in 0..n
  OBVIOUS
<1> HIDE DEF T, n
<1>5. \A i \in 0..n : i \in T
  BY <1>1, <1>2, <1>3, Scoring!UpTo
<1> QED
  BY <1>4, <1>5 DEF T

LEMMA ScoreType ==
  ASSUME NEW s, ScoredList(s), NEW a
  PROVE  Score(s, a) \in Nat
<1>1. Len(s) \in Nat /\ DOMAIN s = 1..Len(s)
  BY ListShape DEF ScoredList
<1>2. Len(s) \in 0..Len(s)
  BY <1>1
<1>3. Scoring!Value(1..Len(s), <<s, a>>) \in Nat
  BY <1>2, ScoredUpTo
<1> QED
  BY <1>1, <1>3, ScoreIs

\* The score of two lists, one after the other.
LEMMA ScoreConcat ==
  ASSUME NEW s, NEW t, ScoredList(s), ScoredList(t), NEW a
  PROVE  ScoredList(s \o t) /\ Score(s \o t, a) = Score(s, a) + Score(t, a)
<1> DEFINE r == s \o t
           m == Len(s)
           n == Len(t)
           u == <<s, a>>
           v == <<t, a>>
           w == <<r, a>>
           T == {k \in 0..n : Scoring!Value(1..m + k, w)
                                = Scoring!Value(1..m, u) + Scoring!Value(1..k, v)}
<1>1. /\ m \in Nat /\ DOMAIN s = 1..m /\ s \in Seq(Parts(s))
      /\ n \in Nat /\ DOMAIN t = 1..n /\ t \in Seq(Parts(t))
  BY ListShape DEF ScoredList
<1>2. /\ ScoredList(r) /\ DOMAIN r = 1..m + n
      /\ \A i \in 1..m : r[i] = s[i]
      /\ \A i \in 1..n : r[m + i] = t[i]
  <2> DEFINE S == Parts(s) \cup Parts(t)
  <2>1. s \in Seq(S) /\ t \in Seq(S)
    BY <1>1
  <2> HIDE DEF S
  <2>2. r \in Seq(S) /\ Len(r) = m + n
        /\ \A i \in 1..m + n : r[i] = IF i <= m THEN s[i] ELSE t[i - m]
    BY <1>1, <2>1, ConcatProperties
  <2>3. IsList(r) /\ DOMAIN r = 1..m + n
    BY <2>2, ListIn
  <2> HIDE DEF r, m, n
  <2>4. \A i \in 1..m : r[i] = s[i]
    BY <1>1, <2>2
  <2>5. ASSUME NEW i \in 1..n
        PROVE  r[m + i] = t[i]
    <3>1. m + i \in 1..m + n /\ ~ (m + i <= m) /\ (m + i) - m = i
      BY <1>1
    <3> QED
      BY <2>2, <3>1
  <2>6. ASSUME NEW i \in 1..m + n
        PROVE  r[i].severity \in Int
    <3>1. CASE i \in 1..m
      BY <1>1, <2>4, <3>1 DEF ScoredList
    <3>2. CASE i \notin 1..m
      <4>1. i - m \in 1..n /\ ~ (i <= m)
        BY <1>1, <3>2
      <4> QED
        BY <1>1, <2>2, <4>1 DEF ScoredList
    <3> QED
      BY <3>1, <3>2
  <2> QED
    BY <2>3, <2>4, <2>5, <2>6 DEF ScoredList
<1>3. u[1] = s /\ u[2] = a /\ v[1] = t /\ v[2] = a /\ w[1] = r /\ w[2] = a
  OBVIOUS
<1>4. /\ Score(s, a) = Scoring!Value(1..m, u) /\ Score(t, a) = Scoring!Value(1..n, v)
      /\ Score(r, a) = Scoring!Value(1..m + n, w)
  BY <1>1, <1>2, ScoreIs
<1>5. Scoring!Value(1..m, u) \in Nat
  BY <1>4, ScoreType
<1> HIDE DEF r, m, n, u, v, w
<1>6. Scoring!Value(1..m, w) = Scoring!Value(1..m, u)
  <2>1. CASE m = 0
    <3>1. 1..m = {}
      BY <2>1
    <3> QED
      BY <3>1, Scoring!Empty
  <2>2. CASE m # 0
    <3> DEFINE k == m - 1
    <3>1. k \in Nat /\ k + 1 = m /\ (\A i \in 1..k : i \in 1..m) /\ m \in 1..m
      BY <1>1, <2>2
    <3>2. \A i \in 1..k : \A x : ScoreStep(x, i, w) = ScoreStep(x, i, u)
      BY <1>2, <1>3, <3>1 DEF ScoreStep
    <3> HIDE DEF k
    <3>3. Scoring!Value(1..k + 1, w) = ScoreStep(Scoring!Value(1..k, u), k + 1, w)
      BY <3>1, <3>2, ScoringPicksLast, Scoring!NextIndex
    <3>4. Scoring!Value(1..k + 1, u) = ScoreStep(Scoring!Value(1..k, u), k + 1, u)
      BY <3>1, ScoringPicksLast, Scoring!NextIndex
    <3>5. \A x : ScoreStep(x, m, w) = ScoreStep(x, m, u)
      BY <1>2, <1>3, <3>1 DEF ScoreStep
    <3> QED
      BY <3>1, <3>3, <3>4, <3>5
  <2> QED
    BY <2>1, <2>2
<1>7. 0 \in T
  <2>1. 1..0 = {} /\ m + 0 = m /\ 0 \in 0..n
    BY <1>1
  <2>2. Scoring!Value(1..0, v) = 0
    BY <2>1, Scoring!Empty
  <2> QED
    BY <1>5, <1>6, <2>1, <2>2
<1>8. ASSUME NEW k \in 0..n - 1, k \in T
      PROVE  k + 1 \in T
  <2>1. /\ k \in Nat /\ k + 1 \in 1..n /\ k + 1 \in 0..n
        /\ m + k \in Nat /\ m + (k + 1) = (m + k) + 1
    BY <1>1
  <2>2. Scoring!Value(1..k + 1, v) = ScoreStep(Scoring!Value(1..k, v), k + 1, v)
    BY <2>1, ScoringPicksLast, Scoring!NextIndex
  <2>3. Scoring!Value(1..(m + k) + 1, w)
          = ScoreStep(Scoring!Value(1..m + k, w), (m + k) + 1, w)
    BY <2>1, ScoringPicksLast, Scoring!NextIndex
  <2>4. r[(m + k) + 1] = t[k + 1]
    BY <1>2, <2>1
  <2>5. Scoring!Value(1..m + k, w) = Scoring!Value(1..m, u) + Scoring!Value(1..k, v)
    BY <1>8
  <2>6. /\ Weight(t[k + 1]) \in Nat
        /\ Scoring!Value(1..k, v) \in Nat
    <3>1. Weight(t[k + 1]) \in Nat
      BY <1>1, <2>1, WeightType DEF ScoredList
    <3>2. Scoring!Value(1..k, v) \in Nat
      BY <1>1, <2>1, ScoredUpTo DEF v, n
    <3> QED
      BY <3>1, <3>2
  <2>7. Scoring!Value(1..(m + k) + 1, w)
          = Scoring!Value(1..m, u) + Scoring!Value(1..k + 1, v)
    BY <1>3, <1>5, <2>2, <2>3, <2>4, <2>5, <2>6 DEF ScoreStep
  <2> QED
    BY <2>1, <2>7
<1> HIDE DEF T
<1>9. n \in T
  <2>1. \A k \in 0..n : k \in T
    BY <1>1, <1>7, <1>8, Scoring!UpTo
  <2> QED
    BY <1>1, <2>1
<1>10. Scoring!Value(1..m + n, w) = Scoring!Value(1..m, u) + Scoring!Value(1..n, v)
  BY <1>9 DEF T
<1>11. ScoredList(r) /\ Score(r, a) = Score(s, a) + Score(t, a)
  BY <1>2, <1>4, <1>10
<1> QED
  BY <1>11 DEF r

---------------------------------------------------------------------------
\* What the gateway knows after a start, as a recursion over its log.

Fields == {"boxes", "donations", "proofs", "tasks", "files", "audited", "step"}
IsMemory(m) == Fields \subseteq DOMAIN m

ReloadStep(m, i, entries) ==
  replay_log_entry([m EXCEPT !.step = IF entries[i].step > @ THEN entries[i].step ELSE @],
                   entries[i])
Reloading == INSTANCE Recursion WITH Base <- Fresh, Pick <- LastOf, Step <- ReloadStep

LEMMA ReloadIs ==
  ASSUME NEW s
  PROVE  reload_runtime_state(s) = Reloading!Value(DOMAIN s, s)
BY DEF reload_runtime_state, Reloading!Value, Reloading!Recursive, FoldLeft,
       MapThenFoldSet, ReloadStep, LastOf

LEMMA ReloadingPicksLast ==
  ASSUME NEW n \in Nat, NEW w
  PROVE  Reloading!PicksLast(n, w)
BY LastIsPicked DEF Reloading!PicksLast, LastOf

\* No tool touches the audits.
LEMMA AppliedKeeps ==
  ASSUME NEW m, IsMemory(m), NEW tool, NEW out
  PROVE  IsMemory(Applied(m, tool, out)) /\ Applied(m, tool, out).audited = m.audited
BY DEF Applied, index_file, IsMemory, Fields

LEMMA ReplayKeeps ==
  ASSUME NEW m, IsMemory(m), NEW e
  PROVE  /\ IsMemory(replay_log_entry(m, e))
         /\ m.audited \subseteq replay_log_entry(m, e).audited
         /\ e.action = "seedbox_missing_proof" /\ e.output # None =>
              e.output.box \in replay_log_entry(m, e).audited
<1>1. CASE e.action = "seedbox_missing_proof" /\ e.output # None
  BY <1>1 DEF replay_log_entry, IsMemory, Fields
<1>2. CASE ~ (e.action = "seedbox_missing_proof" /\ e.output # None)
  <2> DEFINE n == CASE e.tool = "broadcast_seedbox_donation" ->
                         [m EXCEPT !.donations = Without(@, e.output.id)]
                    [] e.tool = "submit_seedbox_proof" ->
                         [m EXCEPT !.proofs = Without(@, e.output.id)]
                    [] OTHER -> m
  <2>1. IsMemory(n) /\ n.audited = m.audited
    <3>1. ASSUME NEW x
          PROVE  /\ IsMemory([m EXCEPT !.donations = x])
                 /\ [m EXCEPT !.donations = x].audited = m.audited
                 /\ IsMemory([m EXCEPT !.proofs = x])
                 /\ [m EXCEPT !.proofs = x].audited = m.audited
      BY DEF IsMemory, Fields
    <3> QED
      BY <3>1
  <2>2. replay_log_entry(m, e) = m \/ replay_log_entry(m, e) = Applied(n, e.tool, e.output)
    BY <1>2 DEF replay_log_entry
  <2> HIDE DEF n
  <2> QED
    BY <1>2, <2>1, <2>2, AppliedKeeps
<1> QED
  BY <1>1, <1>2

\* Whoever the log says was charged, the gateway knows after a start.
LEMMA ReloadRemembers ==
  ASSUME NEW s, IsList(s)
  PROVE  /\ IsMemory(reload_runtime_state(s))
         /\ \A i \in DOMAIN s :
              s[i].action = "seedbox_missing_proof" /\ s[i].output # None =>
                s[i].output.box \in reload_runtime_state(s).audited
<1> DEFINE n == Len(s)
           V(k) == Reloading!Value(1..k, s)
           Known(k) == /\ IsMemory(V(k))
                       /\ \A i \in 1..k :
                            s[i].action = "seedbox_missing_proof" /\ s[i].output # None =>
                              s[i].output.box \in V(k).audited
           T == {k \in 0..n : Known(k)}
<1>1. n \in Nat /\ DOMAIN s = 1..n
  BY ListShape
<1>2. 0 \in T
  <2>1. 1..0 = {}
    OBVIOUS
  <2>2. V(0) = Fresh
    BY <2>1, Reloading!Empty
  <2>3. IsMemory(Fresh)
    BY DEF IsMemory, Fresh, Fields
  <2> QED
    BY <1>1, <2>1, <2>2, <2>3
<1>3. ASSUME NEW k \in 0..n - 1, k \in T
      PROVE  k + 1 \in T
  <2>1. k \in Nat /\ k + 1 \in 1..n /\ k + 1 \in 0..n
    BY <1>1
  <2>2. Reloading!PicksLast(k, s) /\ Reloading!PicksLast(k + 1, s)
    BY <2>1, ReloadingPicksLast
  <2>3. V(k + 1) = ReloadStep(V(k), k + 1, s)
    BY <2>1, <2>2, Reloading!NextIndex
  <2> DEFINE e == s[k + 1]
             m == [V(k) EXCEPT !.step = IF e.step > @ THEN e.step ELSE @]
  <2>4. V(k + 1) = replay_log_entry(m, e)
    BY <2>3 DEF ReloadStep
  <2>5. Known(k)
    BY <1>3
  <2>6. IsMemory(m) /\ m.audited = V(k).audited
    BY <2>5 DEF IsMemory, Fields
  <2> HIDE DEF m, V
  <2>7. /\ IsMemory(V(k + 1)) /\ V(k).audited \subseteq V(k + 1).audited
        /\ e.action = "seedbox_missing_proof" /\ e.output # None =>
             e.output.box \in V(k + 1).audited
    BY <2>4, <2>6, ReplayKeeps
  <2>8. \A i \in 1..k + 1 : i \in 1..k \/ i = k + 1
    BY <2>1
  <2>9. Known(k + 1)
    BY <2>5, <2>7, <2>8
  <2> QED
    BY <2>1, <2>9
<1> HIDE DEF T, Known, V, n
<1>4. n \in T
  <2>1. \A k \in 0..n : k \in T
    BY <1>1, <1>2, <1>3, Reloading!UpTo
  <2> QED
    BY <1>1, <2>1
<1> USE DEF V
<1>5. Known(n) /\ reload_runtime_state(s) = V(n)
  BY <1>1, <1>4, ReloadIs DEF T
<1> HIDE DEF V
<1> QED
  BY <1>1, <1>5 DEF Known

---------------------------------------------------------------------------
\* The effects of a request still to come.

EffectSound(e) ==
  /\ e.do = "write" =>
       /\ e.entry.severity \in Int
       /\ IsAudit(e.entry) =>
            e.entry.action = "seedbox_missing_proof" /\ e.entry.output # None
  /\ e.do = "audit" => e.boxes \in Seq(Seedboxes)
  /\ e.do = "charge" => e.box \in Seedboxes

\* No decision among them, and nobody charged for a missing proof.
IsCharge(e) == e.do = "charge" \/ (e.do = "write" /\ IsAudit(e.entry))
Plain(s) ==
  /\ IsList(s)
  /\ \A k \in DOMAIN s :
       EffectSound(s[k]) /\ s[k].do # "decide" /\ ~ IsCharge(s[k])

\* A decision comes right after the lines of the log were added, and a charge
\* is made and written before anything else.
ToDecide(s) == \E e : e.do = "decide" /\ s = <<AddLog, e>>
Sound(s) ==
  \/ s = <<>>
  \/ IsList(s) /\ s # <<>> /\ EffectSound(Head(s)) /\ Plain(Tail(s))
  \/ ToDecide(s)

LEMMA PlainRest ==
  ASSUME NEW s, Plain(s), s # <<>>
  PROVE  Plain(Tail(s)) /\ EffectSound(Head(s))
BY ListTail DEF Plain

LEMMA PlainIsSound ==
  ASSUME NEW s, Plain(s)
  PROVE  Sound(s)
BY PlainRest DEF Plain, Sound

LEMMA PlainConcat ==
  ASSUME NEW s, NEW t, Plain(s), Plain(t)
  PROVE  Plain(s \o t)
<1>1. IsList(s) /\ IsList(t)
  BY DEF Plain
<1>2. IsList(s \o t) /\ Joins(s \o t, s, t)
  BY <1>1, ListConcat DEF Joins
<1>3. ASSUME NEW k \in DOMAIN (s \o t)
      PROVE  /\ EffectSound((s \o t)[k]) /\ (s \o t)[k].do # "decide"
             /\ ~ IsCharge((s \o t)[k])
  <2>1. CASE \E i \in DOMAIN s : (s \o t)[k] = s[i]
    BY <2>1 DEF Plain
  <2>2. CASE \E i \in DOMAIN t : (s \o t)[k] = t[i]
    BY <2>2 DEF Plain
  <2>3. (\E i \in DOMAIN s : (s \o t)[k] = s[i]) \/ \E i \in DOMAIN t : (s \o t)[k] = t[i]
    BY <1>2 DEF Joins
  <2> QED
    BY <2>1, <2>2, <2>3
<1> QED
  BY <1>2, <1>3 DEF Plain

LEMMA PlainOne ==
  ASSUME NEW e, EffectSound(e), e.do # "decide", ~ IsCharge(e)
  PROVE  Plain(<<e>>)
<1>1. IsList(<<e>>) /\ DOMAIN <<e>> = {1} /\ <<e>>[1] = e
  BY ListOne
<1> QED
  BY <1>1 DEF Plain

LEMMA PlainParts ==
  Plain(<<>>) /\ Plain(<<AddLog>>) /\ Plain(Scan)
<1>1. Plain(<<>>)
  BY ListNone DEF Plain
<1>2. AddLog.do = "add" /\ Clear.do = "clear"
  BY DEF AddLog, Clear
<1>3. EffectSound(AddLog) /\ EffectSound(Clear)
  BY <1>2 DEF EffectSound
<1> USE DEF IsCharge
<1>4. Plain(<<AddLog>>)
  BY <1>2, <1>3, PlainOne
<1>5. Plain(Scan)
  <2> DEFINE s == <<Clear, AddLog>>
  <2>1. s \in Seq({Clear, AddLog})
    OBVIOUS
  <2>2. \A k \in DOMAIN s : s[k] = Clear \/ s[k] = AddLog
    OBVIOUS
  <2>3. IsList(s)
    BY <2>1, ListIn
  <2>4. Plain(s)
    <3> HIDE DEF s
    <3> QED
      BY <1>2, <1>3, <2>2, <2>3 DEF Plain
  <2> QED
    BY <2>4 DEF Scan
<1> QED
  BY <1>1, <1>4, <1>5

LEMMA SoundFirst ==
  ASSUME NEW e, EffectSound(e), NEW s, Plain(s)
  PROVE  Sound(<<e>> \o s)
<1>1. IsList(s)
  BY DEF Plain
<1>2. IsList(<<e>> \o s) /\ Head(<<e>> \o s) = e /\ Tail(<<e>> \o s) = s
      /\ <<e>> \o s # <<>>
  BY <1>1, ListFirst
<1> QED
  BY <1>2 DEF Sound

\* What is left after an effect.
LEMMA SoundRest ==
  ASSUME NEW s, Sound(s), s # <<>>
  PROVE  /\ Sound(Tail(s))
         /\ Head(s).do # "add" => Plain(Tail(s)) /\ EffectSound(Head(s))
         /\ ~ ToDecide(s) => Plain(Tail(s)) /\ EffectSound(Head(s))
         /\ ~ ToDecide(Tail(s))
<1>1. CASE IsList(s) /\ EffectSound(Head(s)) /\ Plain(Tail(s))
  <2>1. ~ ToDecide(Tail(s))
    <3>1. ASSUME NEW e, e.do = "decide", Tail(s) = <<AddLog, e>>
          PROVE  FALSE
      <4>1. 2 \in DOMAIN <<AddLog, e>> /\ <<AddLog, e>>[2] = e
        OBVIOUS
      <4> QED
        BY <1>1, <3>1, <4>1 DEF Plain
    <3> QED
      BY <3>1 DEF ToDecide
  <2> QED
    BY <1>1, <2>1, PlainIsSound
<1>2. CASE ToDecide(s)
  <2>1. PICK e : e.do = "decide" /\ s = <<AddLog, e>>
    BY <1>2 DEF ToDecide
  <2>2. Head(s) = AddLog /\ Tail(s) = <<e>>
    BY <2>1
  <2>3. IsList(<<e>>) /\ Head(<<e>>) = e /\ Tail(<<e>>) = <<>> /\ <<e>> # <<>>
    BY ListOne
  <2>4. EffectSound(e)
    BY <2>1 DEF EffectSound
  <2>5. Sound(<<e>>)
    BY <2>3, <2>4, PlainParts DEF Sound
  <2>6. AddLog.do = "add"
    BY DEF AddLog
  <2>7. ~ ToDecide(<<e>>)
    <3>1. \A f : <<e>> # <<AddLog, f>>
      OBVIOUS
    <3> QED
      BY <3>1 DEF ToDecide
  <2> QED
    BY <1>2, <2>2, <2>5, <2>6, <2>7
<1> QED
  BY <1>1, <1>2 DEF Sound

---------------------------------------------------------------------------
\* What tools and the gateway write.

GoodEvents(events) ==
  /\ IsList(events)
  /\ \A i \in DOMAIN events : events[i].severity \in Int /\ ~ IsAudit(events[i])

LEMMA WritesPlain ==
  ASSUME NEW events, GoodEvents(events)
  PROVE  Plain(Writes(events))
<1> DEFINE s == Writes(events)
<1>1. DOMAIN events = 1..Len(events) /\ Len(events) \in Nat
  BY ListShape DEF GoodEvents
<1>2. s = [i \in 1..Len(events) |-> Write(events[i])]
  BY <1>1 DEF Writes
<1>3. IsList(s) /\ DOMAIN s = DOMAIN events /\ \A i \in DOMAIN s : s[i] = Write(events[i])
  <2>1. DOMAIN s = DOMAIN events /\ \A i \in DOMAIN s : s[i] = Write(events[i])
    BY <1>1, <1>2
  <2>2. s = [i \in 1..Len(events) |-> s[i]]
    BY <1>2
  <2> HIDE DEF s
  <2>3. s \in Seq({s[i] : i \in DOMAIN s})
    BY <1>1, <2>1, <2>2
  <2> QED
    BY <2>1, <2>3 DEF IsList
<1>4. \A e : Write(e).do = "write" /\ Write(e).entry = e
  BY DEF Write
<1> HIDE DEF s
<1>5. Plain(s)
  BY <1>3, <1>4 DEF Plain, EffectSound, IsCharge, GoodEvents
<1> QED
  BY <1>5 DEF s

LEMMA GoodConcat ==
  ASSUME NEW s, NEW t, GoodEvents(s), GoodEvents(t)
  PROVE  GoodEvents(s \o t)
<1>1. IsList(s) /\ IsList(t)
  BY DEF GoodEvents
<1>2. IsList(s \o t) /\ Joins(s \o t, s, t)
  BY <1>1, ListConcat DEF Joins
<1>3. ASSUME NEW k \in DOMAIN (s \o t)
      PROVE  (s \o t)[k].severity \in Int /\ ~ IsAudit((s \o t)[k])
  <2>1. CASE \E i \in DOMAIN s : (s \o t)[k] = s[i]
    BY <2>1 DEF GoodEvents
  <2>2. CASE \E i \in DOMAIN t : (s \o t)[k] = t[i]
    BY <2>2 DEF GoodEvents
  <2> QED
    BY <1>2, <2>1, <2>2 DEF Joins
<1> QED
  BY <1>2, <1>3 DEF GoodEvents

LEMMA GoodOne ==
  ASSUME NEW e, e.severity \in Int, ~ IsAudit(e)
  PROVE  GoodEvents(<<e>>)
<1>1. IsList(<<e>>) /\ DOMAIN <<e>> = {1} /\ <<e>>[1] = e
  BY ListOne
<1> QED
  BY <1>1 DEF GoodEvents

LEMMA GoodNone == GoodEvents(<<>>)
BY ListNone DEF GoodEvents

LEMMA GoodEvent ==
  ASSUME NEW a, NEW action, NEW step
  PROVE  GoodEvents(<<Event(a, action, step)>>)
<1>1. Event(a, action, step).severity \in Int
  BY WeightType DEF Event, Entry
<1>2. ~ IsAudit(Event(a, action, step))
  BY GatewayAssumption DEF Event, Entry, IsAudit
<1> QED
  BY <1>1, <1>2, GoodOne

LEMMA GoodTaskEvents ==
  ASSUME NEW m, NEW r, NEW out
  PROVE  GoodEvents(TaskEvents(m, r, out))
BY GoodEvent, GoodNone DEF TaskEvents

LEMMA GoodResult ==
  ASSUME NEW by, NEW m, NEW a, NEW r, NEW out
  PROVE  GoodEvents(record_result(by, m, a, r, out))
<1>1. ASSUME Runs(by, r)
      PROVE  GoodEvents(SuccessEvents(m, a, r, out))
  <2> DEFINE success == Entry(a, "tool_execution_success", 0, 0, r.tool, out)
  <2>1. r.tool # "audit"
    BY <1>1 DEF Runs, allowed_tools, Safe, Sensitive, Dangerous
  <2>2. success.severity \in Int /\ ~ IsAudit(success)
    BY <2>1 DEF Entry, IsAudit
  <2>3. GoodEvents(<<success>>)
    BY <2>2, GoodOne
  <2>4. GoodEvents(DonationEvents(a, out, m.step))
    BY GoodEvent, GoodNone, GoodConcat DEF DonationEvents
  <2> HIDE DEF success
  <2> DEFINE more == CASE r.tool = "register_seedbox" /\ r.value = TRUE ->
                            <<Event(a, "fake_seedbox_created", m.step)>>
                       [] r.tool = "broadcast_seedbox_donation" -> DonationEvents(a, out, m.step)
                       [] r.tool = "submit_seedbox_proof" -> <<Event(a, "seedbox_proof_of_service", 0)>>
                       [] OTHER -> <<>>
  <2>5. GoodEvents(more)
    BY <2>4, GoodEvent, GoodNone
  <2>6. SuccessEvents(m, a, r, out) = <<success>> \o more
    BY DEF SuccessEvents, success
  <2> HIDE DEF more
  <2> QED
    BY <2>3, <2>5, <2>6, GoodConcat
<1> QED
  BY <1>1, GoodEvent, GoodNone DEF record_result

---------------------------------------------------------------------------
\* The types of the log and of the effects, an invariant.

AuditSound(e) ==
  IsAudit(e) => e.action = "seedbox_missing_proof" /\ e.output # None

Typed ==
  /\ DOMAIN doing = Clients /\ \A c \in Clients : Sound(doing[c])
  /\ IsMemory(mem)
  /\ IsList(log)
  /\ \A i \in DOMAIN log : log[i].severity \in Int /\ AuditSound(log[i])

LEMMA SeedboxList ==
  ASSUME NEW S \in SUBSET Seedboxes
  PROVE  SetToSeq(S) \in Seq(Seedboxes)
<1>1. IsFiniteSet(S)
  BY GatewayAssumption, FS_Subset
<1>2. Cardinality(S) \in Nat /\ ExistsBijection(1..Cardinality(S), S)
  BY <1>1, FS_CardinalityType
<1>3. PICK f : f \in Bijection(1..Cardinality(S), S)
  BY <1>2 DEF ExistsBijection
<1>4. f \in [1..Cardinality(S) -> S] /\ IsInjective(f)
  BY <1>3 DEF Bijection, Injection, IsInjective
<1>5. SetToSeq(S) \in [1..Cardinality(S) -> S]
  BY <1>4 DEF SetToSeq
<1> QED
  BY <1>2, <1>5

LEMMA QuietIs ==
  ASSUME NEW s, Plain(s)
  PROVE  /\ ~ ToDecide(s)
         /\ s # <<>> => Head(s).do # "decide" /\ ~ IsCharge(Head(s))
<1>1. ~ ToDecide(s)
  <2>1. ASSUME NEW e, e.do = "decide", s = <<AddLog, e>>
        PROVE  FALSE
    <3>1. 2 \in DOMAIN <<AddLog, e>> /\ <<AddLog, e>>[2] = e
      OBVIOUS
    <3> QED
      BY <2>1, <3>1 DEF Plain
  <2> QED
    BY <2>1 DEF ToDecide
<1>2. s # <<>> => 1 \in DOMAIN s /\ Head(s) = s[1]
  BY ListTail DEF Plain
<1> QED
  BY <1>1, <1>2 DEF Plain

LEMMA DecideIs ==
  ASSUME NEW s, ToDecide(s)
  PROVE  s # <<>> /\ Head(s).do = "add"
<1>1. PICK e : s = <<AddLog, e>>
  BY DEF ToDecide
<1>2. s # <<>> /\ Head(s) = AddLog
  BY <1>1
<1> QED
  BY <1>2 DEF AddLog

\* What a request begins with.
LEMMA ArrivalIs ==
  ASSUME NEW c \in Clients, Arrival(c)
  PROVE  \E steps, effects :
           /\ Arrives(c, steps, effects)
           /\ ~ disturbed' => ~ disturbed /\ ~ Overlaps
           /\ Plain(effects) \/ (ToDecide(effects) /\ ClearScores)
<1>1. ASSUME NEW r, NEW more, Send(c, r, more)
      PROVE  \E steps, effects :
           /\ Arrives(c, steps, effects)
           /\ ~ disturbed' => ~ disturbed /\ ~ Overlaps
           /\ Plain(effects) \/ (ToDecide(effects) /\ ClearScores)
  <2> DEFINE effects == <<AddLog, Decide(r, requests + 1)>>
  <2>1. ToDecide(effects)
    BY DEF ToDecide, Decide
  <2>2. Arrives(c, 1, effects) /\ ClearScores /\ (~ disturbed' => ~ disturbed /\ ~ Overlaps)
    <3> HIDE DEF effects
    <3>1. disturbed' = (disturbed \/ Overlaps \/ Reused(r, requests + 1))
      BY <1>1 DEF Send
    <3>2. Arrives(c, 1, effects) /\ ClearScores
      BY <1>1 DEF Send, effects
    <3> QED
      BY <3>1, <3>2
  <2> HIDE DEF effects
  <2> QED
    BY <2>1, <2>2
<1>2. ASSUME NEW r \in Requests, ToolCall(c, r) \/ handle_agentic_request(c, r)
      PROVE  \E more : Send(c, r, more)
  BY <1>2 DEF ToolCall, handle_agentic_request
<1>3. ASSUME NEW s \in Seedboxes, BuyCommunitySeedbox(c, s) \/ ImportCatalog(c, s)
      PROVE  \E r, more : Send(c, r, more)
  BY <1>3 DEF BuyCommunitySeedbox, ImportCatalog
<1>4. SendNext(c) => \E r, more : Send(c, r, more)
  BY DEF SendNext
<1>5. ASSUME NEW e \in Reports, SecurityReport(c, e)
      PROVE  \E steps, effects :
           /\ Arrives(c, steps, effects)
           /\ ~ disturbed' => ~ disturbed /\ ~ Overlaps
           /\ Plain(effects)
  <2> DEFINE effects == <<Write(e)>> \o Scan
  <2>1. e.severity \in Int /\ ~ IsAudit(e)
    BY GatewayAssumption DEF EntryShape
  <2>2. Write(e).do = "write" /\ Write(e).entry = e
    BY DEF Write
  <2>3. EffectSound(Write(e)) /\ ~ IsCharge(Write(e))
    BY <2>1, <2>2 DEF EffectSound, IsCharge
  <2>4. Plain(<<Write(e)>>)
    BY <2>2, <2>3, PlainOne
  <2>5. Plain(effects)
    BY <2>4, PlainParts, PlainConcat
  <2>6. Arrives(c, 1, effects) /\ disturbed' = (disturbed \/ Overlaps \/ Misleads(e))
    BY <1>5 DEF SecurityReport
  <2> HIDE DEF effects
  <2> QED
    BY <2>5, <2>6
<1>6. ASSUME AuditSeedboxes(c)
      PROVE  \E steps, effects :
           /\ Arrives(c, steps, effects)
           /\ ~ disturbed' => ~ disturbed /\ ~ Overlaps
           /\ Plain(effects)
  <2> DEFINE a == Audit(SetToSeq(Registered(mem)), Cardinality(Registered(mem)))
             effects == <<a>> \o Scan
  <2>1. SetToSeq(Registered(mem)) \in Seq(Seedboxes)
    BY SeedboxList DEF Registered
  <2>2. a.do = "audit" /\ a.boxes \in Seq(Seedboxes)
    BY <2>1 DEF Audit
  <2> HIDE DEF a
  <2>3. Plain(<<a>>)
    BY <2>2, PlainOne DEF EffectSound, IsCharge
  <2>4. Plain(effects)
    BY <2>3, PlainParts, PlainConcat
  <2>5. Arrives(c, 1, effects) /\ disturbed' = (disturbed \/ Overlaps)
    BY <1>6 DEF AuditSeedboxes, a
  <2> HIDE DEF effects
  <2> QED
    BY <2>4, <2>5
<1>7. ASSUME Query(c)
      PROVE  \E steps, effects :
           /\ Arrives(c, steps, effects)
           /\ ~ disturbed' => ~ disturbed /\ ~ Overlaps
           /\ Plain(effects)
  <2>1. Arrives(c, 0, <<AddLog>>) /\ disturbed' = (disturbed \/ Overlaps)
    BY <1>7 DEF Query
  <2> QED
    BY <2>1, PlainParts
<1> QED
  BY <1>1, <1>2, <1>3, <1>4, <1>5, <1>6, <1>7 DEF Arrival

\* What one effect leaves of a request: effects without a decision or a charge,
\* the decision, a charge of a seedbox nobody was charged for, or its entry.
Decides(c, s) == ScanLines(c) /\ ToDecide(doing[c]) /\ s = Tail(doing[c])
Checks(c, s, box) ==
  /\ AuditNext(c) /\ box \in Seedboxes /\ box \notin mem.audited
  /\ \E owner, t : Plain(t) /\ s = <<Charge(box, owner)>> \o t
Charges(c, s, box) ==
  /\ ChargeOwner(c) /\ box \in Seedboxes /\ Head(doing[c]).box = box
  /\ mem' = [mem EXCEPT !.audited = @ \cup {box}]
  /\ \E owner, t : Plain(t) /\ s = <<Write(MissingProof(owner, box, mem.step))>> \o t

ChargesOne(c, s) == \E box : Checks(c, s, box) \/ Charges(c, s, box)

LEMMA CheckSound ==
  ASSUME NEW box \in Seedboxes, NEW owner
  PROVE  LET e == Charge(box, owner)
         IN EffectSound(e) /\ e.do = "charge" /\ e.box = box
BY DEF Charge, EffectSound

LEMMA ChargeSound ==
  ASSUME NEW box \in Seedboxes, NEW owner, NEW step
  PROVE  LET e == Write(MissingProof(owner, box, step))
         IN /\ EffectSound(e) /\ e.do = "write" /\ IsAudit(e.entry)
            /\ e.entry.output.box = box
<1> DEFINE p == MissingProof(owner, box, step)
<1>1. /\ p.severity = 10 /\ IsAudit(p) /\ p.action = "seedbox_missing_proof"
      /\ p.output = [box |-> box]
  BY DEF MissingProof, Entry, IsAudit
<1>2. p.output # None /\ p.output.box = box
  BY <1>1, GatewayAssumption
<1> HIDE DEF p
<1>3. Write(p).do = "write" /\ Write(p).entry = p
  BY DEF Write
<1>4. EffectSound(Write(p))
  BY <1>1, <1>2, <1>3 DEF EffectSound
<1> QED
  BY <1>1, <1>2, <1>3, <1>4 DEF p

LEMMA AuditIs ==
  ASSUME Typed, NEW c \in Clients, AuditNext(c)
  PROVE  \E s : /\ doing' = [doing EXCEPT ![c] = s]
                /\ Plain(s) \/ \E box : Checks(c, s, box)
<1> DEFINE e == Head(doing[c])
           after == Tail(doing[c])
           box == Head(e.boxes)
           next == Audit(Tail(e.boxes), e.count)
           rest == <<next>> \o after
           w == Charge(box, mem.boxes[box].owner)
<1>1. Sound(doing[c]) /\ doing[c] # <<>> /\ e.do = "audit"
  BY DEF Typed, AuditNext, Doing, Idle
<1>2. Plain(after) /\ EffectSound(e)
  BY <1>1, SoundRest
<1>3. e.boxes \in Seq(Seedboxes)
  BY <1>1, <1>2 DEF EffectSound
<1>4. \/ doing' = [doing EXCEPT ![c] = <<>>]
      \/ doing' = [doing EXCEPT ![c] = after]
      \/ /\ e.boxes # <<>> /\ Unproved(mem, box)
         /\ doing' = [doing EXCEPT ![c] = <<w>> \o rest]
      \/ e.boxes # <<>> /\ doing' = [doing EXCEPT ![c] = rest]
  BY DEF AuditNext, Then, Done
<1> HIDE DEF e, after, w
<1>5. ASSUME e.boxes # <<>>
      PROVE  Plain(rest) /\ box \in Seedboxes
  <2>1. Tail(e.boxes) \in Seq(Seedboxes) /\ box \in Seedboxes
    BY <1>3, <1>5, HeadTailProperties
  <2>2. next.do = "audit" /\ next.boxes \in Seq(Seedboxes)
    BY <2>1 DEF Audit
  <2> HIDE DEF next
  <2>3. Plain(<<next>>)
    BY <2>2, PlainOne DEF EffectSound, IsCharge
  <2> QED
    BY <1>2, <2>1, <2>3, PlainConcat
<1> HIDE DEF rest, box
<1>6. CASE /\ e.boxes # <<>> /\ Unproved(mem, box)
           /\ doing' = [doing EXCEPT ![c] = <<w>> \o rest]
  <2>1. box \in Seedboxes /\ box \notin mem.audited
    BY <1>5, <1>6 DEF Unproved
  <2>2. Checks(c, <<w>> \o rest, box)
    BY <1>5, <1>6, <2>1 DEF Checks, w
  <2> QED
    BY <1>6, <2>2
<1> QED
  BY <1>2, <1>4, <1>5, <1>6, PlainParts

LEMMA ChargeIs ==
  ASSUME Typed, NEW c \in Clients, ChargeOwner(c)
  PROVE  \E s, box : doing' = [doing EXCEPT ![c] = s] /\ Charges(c, s, box)
<1> DEFINE e == Head(doing[c])
<1>1. Sound(doing[c]) /\ doing[c] # <<>> /\ e.do = "charge"
  BY DEF Typed, ChargeOwner, Doing, Idle
<1>2. Plain(Tail(doing[c])) /\ EffectSound(e)
  BY <1>1, SoundRest
<1>3. e.box \in Seedboxes
  BY <1>1, <1>2 DEF EffectSound
<1> DEFINE s == <<Write(MissingProof(e.owner, e.box, mem.step))>> \o Tail(doing[c])
<1>4. doing' = [doing EXCEPT ![c] = s] /\ mem' = [mem EXCEPT !.audited = @ \cup {e.box}]
  BY DEF ChargeOwner, Then
<1>5. Charges(c, s, e.box)
  BY <1>2, <1>3, <1>4 DEF Charges
<1> QED
  BY <1>4, <1>5

\* The list of a charge checked or made begins with it, and holds no other.
LEMMA ChargesOneIs ==
  ASSUME NEW c, NEW s, NEW box, Checks(c, s, box) \/ Charges(c, s, box)
  PROVE  /\ Sound(s) /\ s # <<>> /\ Plain(Tail(s)) /\ ~ ToDecide(s)
         /\ IsCharge(Head(s)) /\ Head(s).do # "decide"
         /\ Checks(c, s, box) => Head(s).do = "charge" /\ Head(s).box = box
         /\ Charges(c, s, box) =>
              Head(s).do = "write" /\ Head(s).entry.output.box = box
<1>1. box \in Seedboxes
  BY DEF Checks, Charges
<1>2. ASSUME NEW e, NEW t, Plain(t), s = <<e>> \o t, EffectSound(e),
             e.do \in {"charge", "write"}
      PROVE  Sound(s) /\ s # <<>> /\ Plain(Tail(s)) /\ ~ ToDecide(s) /\ Head(s) = e
  <2>1. Sound(s)
    BY <1>2, SoundFirst
  <2>2. s # <<>> /\ Head(s) = e /\ Tail(s) = t
    BY <1>2, ListFirst DEF Plain
  <2> QED
    BY <1>2, <2>1, <2>2, DecideIs
<1>3. CASE Checks(c, s, box)
  <2>1. PICK owner, t : Plain(t) /\ s = <<Charge(box, owner)>> \o t
    BY <1>3 DEF Checks
  <2>2. PICK e : e = Charge(box, owner)
    OBVIOUS
  <2>3. EffectSound(e) /\ e.do = "charge" /\ e.box = box
    BY <1>1, <2>2, CheckSound
  <2>4. Sound(s) /\ s # <<>> /\ Plain(Tail(s)) /\ ~ ToDecide(s) /\ Head(s) = e
    BY <1>2, <2>1, <2>2, <2>3
  <2>5. ~ Charges(c, s, box)
    BY <1>3 DEF Checks, Charges, AuditNext, ChargeOwner, Doing
  <2> QED
    BY <2>3, <2>4, <2>5, <1>3 DEF IsCharge
<1>4. CASE Charges(c, s, box)
  <2>1. PICK owner, t : Plain(t) /\ s = <<Write(MissingProof(owner, box, mem.step))>> \o t
    BY <1>4 DEF Charges
  <2>2. PICK e : e = Write(MissingProof(owner, box, mem.step))
    OBVIOUS
  <2>3. EffectSound(e) /\ e.do = "write" /\ IsAudit(e.entry) /\ e.entry.output.box = box
    BY <1>1, <2>2, ChargeSound
  <2>4. Sound(s) /\ s # <<>> /\ Plain(Tail(s)) /\ ~ ToDecide(s) /\ Head(s) = e
    BY <1>2, <2>1, <2>2, <2>3
  <2>5. ~ Checks(c, s, box)
    BY <1>4 DEF Checks, Charges, AuditNext, ChargeOwner, Doing
  <2> QED
    BY <2>3, <2>4, <2>5, <1>4 DEF IsCharge
<1> QED
  BY <1>3, <1>4

LEMMA EffectIs ==
  ASSUME Typed, NEW c \in Clients, Effect(c) \/ WriteFails(c)
  PROVE  \E s : /\ doing' = [doing EXCEPT ![c] = s]
                /\ Plain(s) \/ Decides(c, s) \/ ChargesOne(c, s)
<1>1. ASSUME doing[c] # <<>>, Head(doing[c]).do # "add"
      PROVE  Plain(Tail(doing[c]))
  BY <1>1, SoundRest DEF Typed
<1>2. CASE ScanAgain(c) \/ WriteEntry(c)
  <2>1. doing[c] # <<>> /\ Head(doing[c]).do # "add"
    BY <1>2 DEF ScanAgain, WriteEntry, Doing, Idle
  <2>2. doing' = [doing EXCEPT ![c] = Tail(doing[c])]
    BY <1>2 DEF ScanAgain, WriteEntry, Done, Then
  <2> QED
    BY <1>1, <2>1, <2>2
<1>3. CASE ScanLines(c)
  <2>1. doing[c] # <<>> /\ doing' = [doing EXCEPT ![c] = Tail(doing[c])]
    BY <1>3 DEF ScanLines, Doing, Idle, Done, Then
  <2>2. Plain(Tail(doing[c])) \/ ToDecide(doing[c])
    BY <2>1, SoundRest DEF Typed
  <2> QED
    BY <1>3, <2>1, <2>2 DEF Decides
<1>4. CASE DecideAndRun(c)
  <2>1. doing[c] # <<>> /\ Head(doing[c]).do # "add"
    BY <1>4 DEF DecideAndRun, Doing, Idle
  <2> DEFINE r == Head(doing[c]).request
             out == Ran(mode, mem, AgentOf[c], r, Head(doing[c]).now)
             told == IF Runs(mode, r) THEN TaskEvents(mem, r, out) ELSE <<>>
             written == told \o record_result(mode, mem, AgentOf[c], r, out)
  <2>2. \/ doing' = [doing EXCEPT ![c] = Tail(doing[c])]
        \/ doing' = [doing EXCEPT ![c] = Writes(written) \o Scan]
    BY <1>4 DEF DecideAndRun, Done, Then
  <2>3. Plain(Writes(written) \o Scan)
    <3>1. GoodEvents(told)
      BY GoodTaskEvents, GoodNone
    <3>2. GoodEvents(written)
      BY <3>1, GoodResult, GoodConcat
    <3> HIDE DEF written
    <3> QED
      BY <3>2, WritesPlain, PlainParts, PlainConcat
  <2> QED
    BY <1>1, <2>1, <2>2, <2>3
<1>5. CASE AuditNext(c)
  BY <1>5, AuditIs DEF ChargesOne
<1>6. CASE ChargeOwner(c)
  BY <1>6, ChargeIs DEF ChargesOne
<1>7. CASE WriteFails(c)
  BY <1>7, PlainParts DEF WriteFails, Then
<1> QED
  BY <1>2, <1>3, <1>4, <1>5, <1>6, <1>7 DEF Effect

\* No request makes the gateway forget whom it charged.
LEMMA MemoryKept ==
  ASSUME Typed, NEW c \in Clients, Arrival(c) \/ Effect(c) \/ WriteFails(c)
  PROVE  IsMemory(mem') /\ mem.audited \subseteq mem'.audited
<1>1. IsMemory(mem)
  BY DEF Typed
<1>2. CASE Arrival(c)
  <2>1. PICK steps : mem' = [mem EXCEPT !.step = @ + steps]
    BY <1>2, ArrivalIs DEF Arrives
  <2> QED
    BY <1>1, <2>1 DEF IsMemory, Fields
<1>3. CASE DecideAndRun(c)
  <2>1. mem' = mem \/ \E tool, out : mem' = Applied(mem, tool, out)
    BY <1>3 DEF DecideAndRun
  <2> QED
    BY <1>1, <2>1, AppliedKeeps
<1>4. CASE ChargeOwner(c)
  <2>1. \E box : mem' = [mem EXCEPT !.audited = @ \cup {box}]
    BY <1>4 DEF ChargeOwner
  <2> QED
    BY <1>1, <2>1 DEF IsMemory, Fields
<1>5. CASE ScanAgain(c) \/ ScanLines(c) \/ WriteEntry(c) \/ WriteFails(c) \/ AuditNext(c)
  BY <1>1, <1>5 DEF ScanAgain, ScanLines, WriteEntry, WriteFails, AuditNext
<1> QED
  BY <1>2, <1>3, <1>4, <1>5 DEF Effect

LEMMA TypedInit == Init => Typed
<1> SUFFICES ASSUME Init PROVE Typed
  OBVIOUS
<1>1. PICK start \in Starts : log = start[2]
  BY DEF Init
<1>2. Written(log)
  BY <1>1, GatewayAssumption
<1>3. IsList(log) /\ \A i \in DOMAIN log : log[i].severity \in Int /\ AuditSound(log[i])
  BY <1>2 DEF Written, EntryShape, IsList, AuditSound
<1>4. IsMemory(mem)
  BY <1>3, ReloadRemembers DEF Init
<1>5. DOMAIN doing = Clients /\ \A c \in Clients : Sound(doing[c])
  BY DEF Init, Sound
<1> QED
  BY <1>3, <1>4, <1>5 DEF Typed

\* The log changes by entries of one kind.
LEMMA LogGrows ==
  ASSUME Typed, Next, log' # log
  PROVE  \E c \in Clients : WriteEntry(c)
<1>1. ASSUME NEW c \in Clients, Arrival(c)
      PROVE  log' = log
  BY <1>1, ArrivalIs DEF Arrives
<1> QED
  BY <1>1 DEF Next, Effect, WriteFails, Restart, ScanAgain, ScanLines, DecideAndRun,
            AuditNext, ChargeOwner

LEMMA WrittenIs ==
  ASSUME Typed, NEW c \in Clients, WriteEntry(c)
  PROVE  LET e == Head(doing[c]).entry
         IN /\ log' = Append(log, e) /\ e.severity \in Int /\ AuditSound(e)
            /\ doing' = [doing EXCEPT ![c] = Tail(doing[c])] /\ Plain(Tail(doing[c]))
<1>1. doing[c] # <<>> /\ Head(doing[c]).do = "write"
  BY DEF WriteEntry, Doing, Idle
<1>2. Plain(Tail(doing[c])) /\ EffectSound(Head(doing[c]))
  BY <1>1, SoundRest DEF Typed
<1>3. log' = Append(log, Head(doing[c]).entry) /\ doing' = [doing EXCEPT ![c] = Tail(doing[c])]
  BY DEF WriteEntry, Done, Then
<1> QED
  BY <1>1, <1>2, <1>3 DEF EffectSound, AuditSound

LEMMA TypedStep == Typed /\ [Next]_vars => Typed'
<1> SUFFICES ASSUME Typed, [Next]_vars PROVE Typed'
  OBVIOUS
<1>1. IsList(log') /\ \A i \in DOMAIN log' : log'[i].severity \in Int /\ AuditSound(log'[i])
  <2>1. CASE log' = log
    BY <2>1 DEF Typed
  <2>2. CASE log' # log
    <3>1. PICK c \in Clients : WriteEntry(c)
      BY <2>2, LogGrows DEF vars
    <3> DEFINE e == Head(doing[c]).entry
    <3>2. log' = Append(log, e) /\ e.severity \in Int /\ AuditSound(e)
      BY <3>1, WrittenIs
    <3> HIDE DEF e
    <3>3. IsList(log) /\ \A i \in DOMAIN log : log[i].severity \in Int /\ AuditSound(log[i])
      BY DEF Typed
    <3>4. Len(log) \in Nat /\ DOMAIN log = 1..Len(log)
      BY <3>3, ListShape
    <3>5. /\ IsList(log') /\ DOMAIN log' = 1..Len(log) + 1
          /\ \A i \in 1..Len(log) : log'[i] = log[i]
          /\ log'[Len(log) + 1] = e
      BY <3>2, <3>3, ListAppend
    <3>6. \A i \in DOMAIN log' : i \in 1..Len(log) \/ i = Len(log) + 1
      BY <3>4, <3>5
    <3> QED
      BY <3>2, <3>3, <3>4, <3>5, <3>6
  <2> QED
    BY <2>1, <2>2
<1>2. ASSUME NEW c \in Clients, NEW s, Sound(s), doing' = [doing EXCEPT ![c] = s]
      PROVE  DOMAIN doing' = Clients /\ \A d \in Clients : Sound(doing'[d])
  BY <1>2 DEF Typed
<1> DEFINE TypedRequests ==
      DOMAIN doing' = Clients /\ (\A d \in Clients : Sound(doing'[d])) /\ IsMemory(mem')
<1>3. TypedRequests
  <2>1. ASSUME NEW c \in Clients, Arrival(c)
        PROVE  TypedRequests
    <3>1. PICK steps, effects : Arrives(c, steps, effects) /\ (Plain(effects) \/ ToDecide(effects))
      BY <2>1, ArrivalIs
    <3>2. Sound(effects) /\ doing' = [doing EXCEPT ![c] = effects]
      BY <3>1, PlainIsSound DEF Sound, Arrives
    <3> QED
      BY <1>2, <2>1, <3>2, MemoryKept
  <2>2. ASSUME NEW c \in Clients, Effect(c) \/ WriteFails(c)
        PROVE  TypedRequests
    <3>1. PICK s : /\ doing' = [doing EXCEPT ![c] = s]
                   /\ Plain(s) \/ Decides(c, s) \/ ChargesOne(c, s)
      BY <2>2, EffectIs
    <3>2. CASE Plain(s)
      BY <1>2, <2>2, <3>1, <3>2, PlainIsSound, MemoryKept
    <3>3. CASE Decides(c, s)
      <4>1. Sound(s)
        BY <3>3, SoundRest, DecideIs DEF Typed, Decides
      <4> QED
        BY <1>2, <2>2, <3>1, <4>1, MemoryKept
    <3>4. CASE ChargesOne(c, s)
      <4>1. Sound(s)
        BY <3>4, ChargesOneIs DEF ChargesOne
      <4> QED
        BY <1>2, <2>2, <3>1, <4>1, MemoryKept
    <3> QED
      BY <3>1, <3>2, <3>3, <3>4
  <2>3. CASE Restart
    <3>1. doing' = [c \in Clients |-> <<>>] /\ mem' = reload_runtime_state(log)
      BY <2>3 DEF Restart
    <3>2. IsMemory(reload_runtime_state(log))
      BY ReloadRemembers DEF Typed
    <3> QED
      BY <3>1, <3>2 DEF Sound
  <2>4. CASE UNCHANGED vars
    BY <2>4 DEF Typed, vars
  <2> QED
    BY <2>1, <2>2, <2>3, <2>4 DEF Next
<1> QED
  BY <1>1, <1>3 DEF Typed

---------------------------------------------------------------------------
\* Theorems.

\* The log holds what gateways write, and every thread what a request can
\* still have to do.
THEOREM TypesHold == Spec => []Typed
<1> QED
  BY TypedInit, TypedStep, PTL DEF Spec

\* No entry, of whatever severity and by whomever it is written, takes weight
\* off a subject (reputation.py): the score of every agent only grows.
THEOREM WeightsOnlyAdd == Spec => ScoresNeverFall
<1>1. Typed /\ [Next]_vars
        => [log' # log => \A a \in Agents : Score(log', a) >= Score(log, a)]_vars
  <2> SUFFICES ASSUME Typed, Next, log' # log, NEW a \in Agents
               PROVE  Score(log', a) >= Score(log, a)
    OBVIOUS
  <2>1. PICK c \in Clients : WriteEntry(c)
    BY LogGrows
  <2> DEFINE e == Head(doing[c]).entry
  <2>2. log' = Append(log, e) /\ e.severity \in Int
    BY <2>1, WrittenIs
  <2> HIDE DEF e
  <2>3. IsList(log) /\ \A i \in DOMAIN log : log[i].severity \in Int
    BY DEF Typed
  <2>4. Score(log, a) \in Int /\ Weight(e) \in Nat
    BY <2>2, <2>3, ScoreType, WeightType DEF ScoredList
  <2>5. Score(log', a) = IF e.subject = a THEN Score(log, a) + Weight(e) ELSE Score(log, a)
    BY <2>2, <2>3, ScoreAppend
  <2> QED
    BY <2>4, <2>5
<1> QED
  BY <1>1, TypesHold, PTL DEF Spec, ScoresNeverFall

\* With one request at a time, whoever is to decide finds the bans of the whole
\* log, and before the lines are added no scores at all.
Alone == \A c, d \in Clients : ~ Idle(c) /\ ~ Idle(d) => c = d
ScansWhole ==
  ~ disturbed =>
    /\ Alone
    /\ \A c \in Clients : ToDecide(doing[c]) =>
         scores = [a \in Agents |-> 0] /\ banned = {}
    /\ \A c \in Clients : Doing(c, "decide") =>
         \A a \in Agents : a \in banned <=> Score(log, a) >= BanThreshold

LEMMA ScansAlone ==
  ASSUME Typed, Alone, NEW c \in Clients, NEW s, doing' = [doing EXCEPT ![c] = s],
         \A d \in Clients : d # c => doing[d] = <<>>
  PROVE  /\ Alone'
         /\ \A d \in Clients : doing'[d] # <<>> => d = c /\ doing'[d] = s
BY DEF Typed, Alone, Idle

LEMMA ScansStep == Typed /\ ScansWhole /\ [Next]_vars => ScansWhole'
<1> SUFFICES ASSUME Typed, ScansWhole, [Next]_vars, ~ disturbed'
             PROVE  /\ Alone'
                    /\ \A c \in Clients : ToDecide(doing'[c]) =>
                         scores' = [a \in Agents |-> 0] /\ banned' = {}
                    /\ \A c \in Clients : Doing(c, "decide")' =>
                         \A a \in Agents : a \in banned' <=> Score(log', a) >= BanThreshold
  BY DEF ScansWhole
<1> DEFINE Goal ==
      /\ Alone'
      /\ \A c \in Clients : ToDecide(doing'[c]) =>
           scores' = [a \in Agents |-> 0] /\ banned' = {}
      /\ \A c \in Clients : Doing(c, "decide")' =>
           \A a \in Agents : a \in banned' <=> Score(log', a) >= BanThreshold
<1>1. ASSUME NEW c \in Clients, NEW s, doing' = [doing EXCEPT ![c] = s], Alone,
             \A d \in Clients : d # c => doing[d] = <<>>,
             ToDecide(s) => scores' = [a \in Agents |-> 0] /\ banned' = {},
             s # <<>> /\ Head(s).do = "decide" =>
               \A a \in Agents : a \in banned' <=> Score(log', a) >= BanThreshold
      PROVE  Goal
  <2>1. Alone' /\ \A d \in Clients : doing'[d] # <<>> => d = c /\ doing'[d] = s
    BY <1>1, ScansAlone
  <2>2. \A d \in Clients : ToDecide(doing'[d]) => doing'[d] # <<>>
    BY DecideIs
  <2> QED
    BY <1>1, <2>1, <2>2 DEF Doing, Idle
<1>2. ASSUME NEW c \in Clients, Arrival(c)
      PROVE  Goal
  <2>1. PICK steps, effects : /\ Arrives(c, steps, effects)
                              /\ ~ disturbed /\ ~ Overlaps
                              /\ Plain(effects) \/ (ToDecide(effects) /\ ClearScores)
    BY <1>2, ArrivalIs
  <2>2. doing' = [doing EXCEPT ![c] = effects] /\ Alone /\ \A d \in Clients : doing[d] = <<>>
    BY <2>1 DEF Arrives, Overlaps, Idle, ScansWhole
  <2>3. ToDecide(effects) => scores' = [a \in Agents |-> 0] /\ banned' = {}
    BY <2>1, QuietIs DEF ClearScores
  <2>4. ~ (effects # <<>> /\ Head(effects).do = "decide")
    BY <2>1, QuietIs, DecideIs
  <2> QED
    BY <1>1, <2>2, <2>3, <2>4
<1>3. ASSUME NEW c \in Clients, Effect(c)
      PROVE  Goal
  <2>1. doing[c] # <<>> /\ ~ disturbed
    BY <1>3 DEF Effect, ScanAgain, ScanLines, DecideAndRun, AuditNext, ChargeOwner,
                WriteEntry, Doing, Idle
  <2>2. Alone /\ \A d \in Clients : d # c => doing[d] = <<>>
    BY <2>1 DEF ScansWhole, Alone, Idle
  <2>3. PICK s : /\ doing' = [doing EXCEPT ![c] = s]
                 /\ Plain(s) \/ Decides(c, s) \/ ChargesOne(c, s)
    BY <1>3, EffectIs
  <2>4. CASE Plain(s)
    <3>1. ~ ToDecide(s) /\ ~ (s # <<>> /\ Head(s).do = "decide")
      BY <2>4, QuietIs
    <3> QED
      BY <1>1, <2>2, <2>3, <3>1
  <2>5. CASE Decides(c, s)
    <3>1. ~ ToDecide(s)
      BY <2>1, <2>5, SoundRest DEF Typed, Decides
    <3>2. scores = [a \in Agents |-> 0] /\ banned = {}
      BY <2>1, <2>5 DEF ScansWhole, Decides
    <3>3. /\ log' = log
          /\ scores' = [a \in Agents |-> scores[a] + Score(log, a)]
          /\ banned' = banned \cup {a \in Agents : scores'[a] >= BanThreshold}
      BY <2>5 DEF Decides, ScanLines
    <3>4. ASSUME NEW a \in Agents
          PROVE  a \in banned' <=> Score(log', a) >= BanThreshold
      <4>1. Score(log, a) \in Int
        BY ScoreType DEF Typed, ScoredList
      <4>2. scores'[a] = Score(log, a)
        BY <3>2, <3>3, <4>1
      <4>3. a \in banned' <=> scores'[a] >= BanThreshold
        BY <3>2, <3>3
      <4> QED
        BY <3>3, <4>2, <4>3
    <3> QED
      BY <1>1, <2>2, <2>3, <3>1, <3>4
  <2>6. CASE ChargesOne(c, s)
    <3>1. ~ ToDecide(s) /\ Head(s).do # "decide"
      BY <2>6, ChargesOneIs DEF ChargesOne
    <3> QED
      BY <1>1, <2>2, <2>3, <3>1
  <2> QED
    BY <2>3, <2>4, <2>5, <2>6
<1>4. ASSUME NEW c \in Clients, WriteFails(c)
      PROVE  Goal
  BY <1>4 DEF WriteFails
<1>5. CASE Restart
  <2>1. \A c \in Clients : doing'[c] = <<>>
    BY <1>5 DEF Restart
  <2> QED
    BY <2>1, DecideIs DEF Alone, Doing, Idle
<1>6. CASE UNCHANGED vars
  <2>1. doing' = doing /\ scores' = scores /\ banned' = banned /\ log' = log /\ ~ disturbed
    BY <1>6 DEF vars
  <2> QED
    BY <2>1 DEF ScansWhole, Alone, Doing, Idle
<1> QED
  BY <1>2, <1>3, <1>4, <1>5, <1>6 DEF Next

\* With one request at a time the gateway refuses a subject if and only if the
\* whole log weighs BanThreshold or more against it, whatever was reported,
\* restarted or failed before (handle_tool_call, scan_log).
THEOREM VerdictIsTheLogs == Spec => []VerdictFromLog
<1>1. Init => ScansWhole
  <2> SUFFICES ASSUME Init PROVE ScansWhole
    OBVIOUS
  <2>1. \A c \in Clients : doing[c] = <<>>
    BY DEF Init
  <2> QED
    BY <2>1, DecideIs DEF ScansWhole, Alone, Doing, Idle
<1>2. ScansWhole => VerdictFromLog
  BY GatewayAssumption DEF ScansWhole, VerdictFromLog
<1> QED
  BY <1>1, <1>2, ScansStep, TypesHold, PTL DEF Spec

---------------------------------------------------------------------------
\* A charge is remembered before it is written: the gateway knows every charge
\* the log holds, and every charge about to be written.
ChargeWritten(s) == s # <<>> /\ Head(s).do = "write" /\ IsAudit(Head(s).entry)
ChargedKnown ==
  /\ \A i \in DOMAIN log : IsAudit(log[i]) => log[i].output.box \in mem.audited
  /\ \A c \in Clients : ChargeWritten(doing[c]) =>
       Head(doing[c]).entry.output.box \in mem.audited

LEMMA ChargedInit == Init => ChargedKnown
<1> SUFFICES ASSUME Init PROVE ChargedKnown
  OBVIOUS
<1>1. PICK start \in Starts : log = start[2]
  BY DEF Init
<1>2. Written(log)
  BY <1>1, GatewayAssumption
<1>3. IsList(log) /\ mem = reload_runtime_state(log) /\ \A c \in Clients : doing[c] = <<>>
  BY <1>2 DEF Init, Written, IsList
<1>4. \A i \in DOMAIN log : IsAudit(log[i]) => log[i].output.box \in mem.audited
  BY <1>2, <1>3, ReloadRemembers DEF Written
<1> QED
  BY <1>3, <1>4 DEF ChargedKnown, ChargeWritten

\* A step of a request that writes no entry.
LEMMA ChargedKept ==
  ASSUME Typed, ChargedKnown, mem.audited \subseteq mem'.audited, log' = log,
         NEW c \in Clients, NEW s, doing' = [doing EXCEPT ![c] = s],
         ChargeWritten(s) => Head(s).entry.output.box \in mem'.audited
  PROVE  ChargedKnown'
BY DEF Typed, ChargedKnown

LEMMA PlainChargesNone ==
  ASSUME NEW s, Plain(s) \/ ToDecide(s)
  PROVE  ~ ChargeWritten(s)
BY QuietIs, DecideIs DEF ChargeWritten, IsCharge

LEMMA ChargedStep == Typed /\ ChargedKnown /\ [Next]_vars => ChargedKnown'
<1> SUFFICES ASSUME Typed, ChargedKnown, [Next]_vars
             PROVE  ChargedKnown'
  OBVIOUS
<1>1. ASSUME NEW c \in Clients, Arrival(c)
      PROVE  ChargedKnown'
  <2>1. PICK steps, effects : /\ Arrives(c, steps, effects)
                              /\ Plain(effects) \/ ToDecide(effects)
    BY <1>1, ArrivalIs
  <2>2. doing' = [doing EXCEPT ![c] = effects] /\ log' = log
    BY <2>1 DEF Arrives
  <2> QED
    BY <1>1, <2>1, <2>2, PlainChargesNone, MemoryKept, ChargedKept
<1>2. ASSUME NEW c \in Clients, Effect(c) \/ WriteFails(c), ~ WriteEntry(c)
      PROVE  ChargedKnown'
  <2>1. log' = log
    BY <1>2 DEF Effect, WriteFails, ScanAgain, ScanLines, DecideAndRun, AuditNext,
                ChargeOwner
  <2>2. PICK s : /\ doing' = [doing EXCEPT ![c] = s]
                 /\ Plain(s) \/ Decides(c, s) \/ ChargesOne(c, s)
    BY <1>2, EffectIs
  <2>3. mem.audited \subseteq mem'.audited
    BY <1>2, MemoryKept
  <2>4. CASE Plain(s)
    BY <2>1, <2>2, <2>3, <2>4, PlainChargesNone, ChargedKept
  <2>5. CASE Decides(c, s)
    <3>1. PICK e : e.do = "decide" /\ doing[c] = <<AddLog, e>>
      BY <2>5 DEF Decides, ToDecide
    <3>2. s = <<e>> /\ Head(s) = e
      BY <2>5, <3>1 DEF Decides
    <3>3. ~ ChargeWritten(s)
      BY <3>1, <3>2 DEF ChargeWritten
    <3> QED
      BY <2>1, <2>2, <2>3, <3>3, ChargedKept
  <2>6. CASE ChargesOne(c, s)
    <3>1. PICK box : Checks(c, s, box) \/ Charges(c, s, box)
      BY <2>6 DEF ChargesOne
    <3>2. CASE Checks(c, s, box)
      <4>1. ~ ChargeWritten(s)
        BY <3>2, ChargesOneIs DEF ChargeWritten
      <4> QED
        BY <2>1, <2>2, <2>3, <4>1, ChargedKept
    <3>3. CASE Charges(c, s, box)
      <4>1. Head(s).entry.output.box = box
        BY <3>3, ChargesOneIs
      <4>2. box \in mem'.audited
        BY <3>3 DEF Charges, Typed, IsMemory, Fields
      <4> QED
        BY <2>1, <2>2, <2>3, <4>1, <4>2, ChargedKept
    <3> QED
      BY <3>1, <3>2, <3>3
  <2> QED
    BY <2>2, <2>4, <2>5, <2>6
<1>3. ASSUME NEW c \in Clients, WriteEntry(c)
      PROVE  ChargedKnown'
  <2> DEFINE e == Head(doing[c]).entry
             n == Len(log)
  <2>1. /\ log' = Append(log, e) /\ mem' = mem
        /\ doing' = [doing EXCEPT ![c] = Tail(doing[c])] /\ Plain(Tail(doing[c]))
    BY <1>3, WrittenIs DEF WriteEntry
  <2>2. IsAudit(e) => ChargeWritten(doing[c])
    BY <1>3 DEF WriteEntry, ChargeWritten, Doing, Idle
  <2>3. IsAudit(e) => e.output.box \in mem.audited
    BY <2>2 DEF ChargedKnown
  <2>4. ~ ChargeWritten(Tail(doing[c]))
    BY <2>1, PlainChargesNone
  <2>5. \A d \in Clients : ChargeWritten(doing'[d]) => doing'[d] = doing[d]
    BY <2>1, <2>4 DEF Typed
  <2> HIDE DEF e, n
  <2>6. n \in Nat /\ DOMAIN log = 1..n
    BY ListShape DEF Typed, n
  <2>7. DOMAIN log' = 1..n + 1 /\ log'[n + 1] = e /\ \A i \in 1..n : log'[i] = log[i]
    BY <2>1, ListAppend DEF Typed, n
  <2>8. \A i \in DOMAIN log' : (i \in DOMAIN log /\ log'[i] = log[i]) \/ i = n + 1
    BY <2>6, <2>7
  <2>9. \A i \in DOMAIN log' : IsAudit(log'[i]) => log'[i].output.box \in mem'.audited
    BY <2>1, <2>3, <2>7, <2>8 DEF ChargedKnown
  <2> QED
    BY <2>1, <2>5, <2>9 DEF ChargedKnown
<1>4. CASE Restart
  <2>1. log' = log /\ mem' = reload_runtime_state(log) /\ \A c \in Clients : doing'[c] = <<>>
    BY <1>4 DEF Restart
  <2>2. \A i \in DOMAIN log : IsAudit(log[i]) => log[i].output.box \in mem'.audited
    BY <2>1, ReloadRemembers DEF Typed, AuditSound
  <2> QED
    BY <2>1, <2>2 DEF ChargedKnown, ChargeWritten
<1>5. CASE UNCHANGED vars
  BY <1>5 DEF vars, ChargedKnown
<1> QED
  BY <1>1, <1>2, <1>3, <1>4, <1>5 DEF Next

\* Only the head of a thread's effects charges anybody.
ChargeOf(e, s) ==
  \/ e.do = "charge" /\ e.box = s
  \/ e.do = "write" /\ IsAudit(e.entry) /\ e.entry.output.box = s

LEMMA ChargingIs ==
  ASSUME NEW c, NEW s
  PROVE  Charging(c, s) <=> \E i \in DOMAIN doing[c] : ChargeOf(doing[c][i], s)
BY DEF Charging, ChargeOf

LEMMA ChargeNowhere ==
  ASSUME NEW list, NEW s, Plain(list) \/ ToDecide(list)
  PROVE  \A i \in DOMAIN list : ~ ChargeOf(list[i], s)
<1>1. CASE Plain(list)
  BY <1>1 DEF Plain, IsCharge, ChargeOf
<1>2. CASE ToDecide(list)
  <2>1. PICK e : e.do = "decide" /\ list = <<AddLog, e>>
    BY <1>2 DEF ToDecide
  <2>2. \A i \in DOMAIN list : list[i] = AddLog \/ list[i] = e
    BY <2>1
  <2> QED
    BY <2>1, <2>2 DEF ChargeOf, AddLog
<1> QED
  BY <1>1, <1>2

LEMMA ChargeAhead ==
  ASSUME NEW list, IsList(list), list # <<>>, Plain(Tail(list)), NEW s,
         NEW i \in DOMAIN list, ChargeOf(list[i], s)
  PROVE  ChargeOf(Head(list), s)
<1>1. Len(list) \in Nat /\ DOMAIN list = 1..Len(list) /\ list \in Seq(Parts(list))
  BY ListShape
<1>2. Head(list) = list[1] /\ Len(list) >= 1
  BY <1>1
<1>3. CASE i = 1
  BY <1>2, <1>3
<1>4. CASE i # 1
  <2>1. /\ Len(Tail(list)) = Len(list) - 1
        /\ \A j \in 1..Len(Tail(list)) : Tail(list)[j] = list[j + 1]
    BY <1>1, HeadTailProperties
  <2>2. i - 1 \in DOMAIN Tail(list) /\ Tail(list)[i - 1] = list[i]
    <3>1. DOMAIN Tail(list) = 1..Len(Tail(list))
      BY ListShape DEF Plain
    <3>2. i - 1 \in 1..Len(list) - 1 /\ (i - 1) + 1 = i
      BY <1>1, <1>4
    <3> QED
      BY <2>1, <3>1, <3>2
  <2> QED
    BY <2>2, ChargeNowhere
<1> QED
  BY <1>3, <1>4

\* A thread charges a seedbox the gateway did not know to be charged, or one
\* it had made up its mind to charge before.
LEMMA ChargesNew ==
  ASSUME Typed, [Next]_vars, NEW c \in Clients, NEW s, Charging(c, s)'
  PROVE  Charging(c, s) \/ s \notin mem.audited
<1>1. PICK i \in DOMAIN doing'[c] : ChargeOf(doing'[c][i], s)
  BY ChargingIs DEF Charging, ChargeOf
<1>2. CASE doing'[c] = doing[c]
  BY <1>1, <1>2, ChargingIs
<1>3. CASE doing'[c] # doing[c]
  <2>1. ~ (\A d \in Clients : doing'[d] = <<>>)
    BY <1>1, ListNone
  <2>2. PICK d \in Clients : Arrival(d) \/ Effect(d) \/ WriteFails(d)
    BY <1>3, <2>1 DEF Next, Restart, vars
  <2>3. ASSUME Arrival(d)
        PROVE  \E list : doing' = [doing EXCEPT ![d] = list]
                         /\ (Plain(list) \/ ToDecide(list))
    BY <2>3, ArrivalIs DEF Arrives
  <2>4. ASSUME Effect(d) \/ WriteFails(d)
        PROVE  \E list : doing' = [doing EXCEPT ![d] = list]
                         /\ (Plain(list) \/ Decides(d, list) \/ ChargesOne(d, list))
    BY <2>4, EffectIs
  <2>5. PICK list :
          /\ doing' = [doing EXCEPT ![d] = list]
          /\ Plain(list) \/ ToDecide(list) \/ Decides(d, list) \/ ChargesOne(d, list)
    BY <2>2, <2>3, <2>4
  <2>6. d = c /\ doing'[c] = list
    BY <1>3, <2>5 DEF Typed
  <2>7. ChargesOne(c, list)
    <3>1. ASSUME Decides(c, list)
          PROVE  FALSE
      <4>1. PICK e : e.do = "decide" /\ doing[c] = <<AddLog, e>>
        BY <3>1 DEF Decides, ToDecide
      <4>2. list = <<e>> /\ DOMAIN list = {1} /\ list[1] = e
        BY <3>1, <4>1 DEF Decides
      <4> QED
        BY <1>1, <2>6, <4>1, <4>2 DEF ChargeOf
    <3> QED
      BY <1>1, <2>5, <2>6, <3>1, ChargeNowhere
  <2>8. PICK box : Checks(c, list, box) \/ Charges(c, list, box)
    BY <2>7 DEF ChargesOne
  <2>9. ChargeOf(Head(list), s)
    <3>1. IsList(list) /\ list # <<>> /\ Plain(Tail(list))
      BY <2>8, ChargesOneIs, QuietIs DEF Sound
    <3> QED
      BY <1>1, <2>6, <3>1, ChargeAhead
  <2>10. box = s
    BY <2>8, <2>9, ChargesOneIs DEF ChargeOf
  <2>11. CASE Checks(c, list, box)
    BY <2>10, <2>11 DEF Checks
  <2>12. CASE Charges(c, list, box)
    <3>1. doing[c] # <<>> /\ Head(doing[c]).do = "charge" /\ Head(doing[c]).box = s
      BY <2>10, <2>12 DEF Charges, ChargeOwner, Doing, Idle
    <3>2. ~ ToDecide(doing[c])
      BY <3>1, DecideIs
    <3>3. 1 \in DOMAIN doing[c] /\ Head(doing[c]) = doing[c][1]
      BY <3>1, <3>2, ListTail DEF Typed, Sound
    <3> QED
      BY <3>1, <3>3, ChargingIs DEF ChargeOf
  <2> QED
    BY <2>8, <2>11, <2>12
<1> QED
  BY <1>2, <1>3

\* Once the log holds that a seedbox's owner was charged for a missing proof,
\* no audit that had not checked before charges it again: after a failed append
\* the gateway still knows whom it charged, and after a start it knows it from
\* the log (missing_proof_audits, gateway.py:222-250).
THEOREM ProofsChargedOnce == Spec => NoFurtherCharge
<1>1. Typed /\ ChargedKnown /\ [Next]_vars =>
        [\A c \in Clients, s \in Seedboxes :
           ChargedFor(s) /\ Charging(c, s)' => Charging(c, s)]_vars
  <2> SUFFICES ASSUME Typed, ChargedKnown, [Next]_vars, NEW c \in Clients,
                      NEW s \in Seedboxes, ChargedFor(s), Charging(c, s)'
               PROVE  Charging(c, s)
    OBVIOUS
  <2>1. s \in mem.audited
    BY DEF ChargedFor, ChargedKnown
  <2> QED
    BY <2>1, ChargesNew
<1> QED
  BY <1>1, ChargedInit, ChargedStep, TypesHold, PTL DEF Spec, NoFurtherCharge

---------------------------------------------------------------------------
\* What a gateway that started now would know (ReloadReproduces).

\* The state a gateway keeps: lists, and seedboxes registered before their tasks.
Shape(m) ==
  /\ m = [boxes |-> m.boxes, donations |-> m.donations, proofs |-> m.proofs,
          tasks |-> m.tasks, files |-> m.files, audited |-> m.audited, step |-> m.step]
  /\ m.boxes = [s \in Seedboxes |-> m.boxes[s]]
  /\ m.step \in Nat
  /\ IsList(m.donations) /\ IsList(m.proofs) /\ IsList(m.tasks)
TasksHeld(m) == \A i \in DOMAIN m.tasks : m.tasks[i].box \in Registered(m)
Sane(m) == Shape(m) /\ TasksHeld(m)

\* The same but for the step.
SameCore(m, k) ==
  /\ m.boxes = k.boxes /\ m.donations = k.donations /\ m.proofs = k.proofs
  /\ m.tasks = k.tasks /\ m.files = k.files /\ m.audited = k.audited

\* An entry of one of the steps in when, and a request an agent or a tool may send.
EntryOk(e, when) ==
  /\ e.step \in Nat /\ e.step \in when
  /\ e.output # None => Given(e.tool, e.output)
Asks(r) ==
  /\ r.who \in Agents \cup {None}
  /\ r.tool = "register_seedbox" => \A a \in Agents : None # [owner |-> a, fake |-> r.value]

EffectOk(e, when) ==
  /\ e.do = "write" => EntryOk(e.entry, when)
  /\ e.do = "decide" => Asks(e.request)
EffectsOk(s, when) == IsList(s) /\ \A i \in DOMAIN s : EffectOk(s[i], when)
PlanOk(s) == IsList(s) /\ \A i \in DOMAIN s : Asks(s[i])

\* An effect that changes nothing a start would rebuild, and a decision whose
\* ids are in nobody's ledger.
Quiet(e) == e.do # "decide" /\ (e.do = "write" => ~ Restored(e.entry))
ItsId(r, now) == <<Named(r.id, now)>>
Unused(r, now, m) ==
  /\ r.tool = "broadcast_seedbox_donation" =>
       \A i \in DOMAIN m.donations : m.donations[i].id # ItsId(r, now)
  /\ r.tool = "submit_seedbox_proof" =>
       \A i \in DOMAIN m.proofs : m.proofs[i].id # ItsId(r, now)
Open(e, m) == e.do = "decide" /\ Unused(e.request, e.now, m)

\* The log is as far as the state, or one entry behind, which is written before
\* anything else is decided.
Abreast(s, again, m) ==
  SameCore(again, m) /\ \A i \in DOMAIN s : Quiet(s[i]) \/ Open(s[i], m)
Behind(s, again, m) ==
  \E k \in DOMAIN s :
    /\ \A i \in 1..k : s[i].do = "write"
    /\ \A i \in DOMAIN s : i # k => Quiet(s[i])
    /\ SameCore(replay_log_entry(again, s[k].entry), m)
Follows(s, again, m) == Abreast(s, again, m) \/ Behind(s, again, m)

\* The steps entries may have: unless the gateway is disturbed, none of a later
\* request.
Steps == IF disturbed THEN Nat ELSE 0..mem.step
MemorySane ==
  /\ DOMAIN plan = Clients
  /\ Sane(mem) /\ Sane(reload_runtime_state(log))
  /\ reload_runtime_state(log).step \in Steps
  /\ \A c \in Clients : EffectsOk(doing[c], Steps) /\ PlanOk(plan[c])
LogFollows ==
  ~ disturbed =>
    /\ Alone
    /\ (\A c \in Clients : Idle(c)) => SameCore(reload_runtime_state(log), mem)
    /\ \A c \in Clients : ~ Idle(c) =>
         Follows(doing[c], reload_runtime_state(log), mem)
---------------------------------------------------------------------------
\* A list without what has an id.

RestStep(x, i, w) == IF w[1][i].id = w[2] THEN x ELSE Append(x, w[1][i])
Leaving == INSTANCE Recursion WITH Base <- <<>>, Pick <- LastOf, Step <- RestStep

LEMMA LeavingPicksLast ==
  ASSUME NEW n \in Nat, NEW w
  PROVE  Leaving!PicksLast(n, w)
BY LastIsPicked DEF Leaving!PicksLast, LastOf

LEMMA WithoutValue ==
  ASSUME NEW s, NEW id
  PROVE  Without(s, id) = Leaving!Value(DOMAIN s, <<s, id>>)
BY DEF Without, Leaving!Value, Leaving!Recursive, FoldLeft, MapThenFoldSet,
       RestStep, LastOf

\* What is left is of the list, and all of it where nothing has the id.
LEMMA WithoutIs ==
  ASSUME NEW S, NEW s \in Seq(S), NEW id
  PROVE  /\ Without(s, id) \in Seq(S)
         /\ (\A i \in DOMAIN s : s[i].id # id) => Without(s, id) = s
<1> DEFINE n == Len(s)
           w == <<s, id>>
           V(k) == Leaving!Value(1..k, w)
           Nowhere == \A i \in DOMAIN s : s[i].id # id
           Known(k) == /\ V(k) \in Seq(S)
                       /\ Nowhere => Len(V(k)) = k /\ \A i \in 1..k : V(k)[i] = s[i]
           T == {k \in 0..n : Known(k)}
<1>1. n \in Nat /\ DOMAIN s = 1..n /\ \A i \in 1..n : s[i] \in S
  OBVIOUS
<1>2. 0 \in T
  <2>1. 1..0 = {}
    OBVIOUS
  <2>2. V(0) = <<>>
    BY <2>1, Leaving!Empty
  <2>3. <<>> \in Seq(S) /\ Len(<<>>) = 0
    OBVIOUS
  <2> HIDE DEF V, Nowhere
  <2>4. Len(V(0)) = 0 /\ V(0) \in Seq(S) /\ \A i \in 1..0 : V(0)[i] = s[i]
    BY <2>1, <2>2, <2>3
  <2>5. Known(0) /\ 0 \in 0..n
    BY <1>1, <2>4
  <2> HIDE DEF Known
  <2> QED
    BY <2>5
<1>3. ASSUME NEW k \in 0..n - 1, k \in T
      PROVE  k + 1 \in T
  <2>1. k \in Nat /\ k + 1 \in 1..n /\ k + 1 \in 0..n
    BY <1>1
  <2>2. Leaving!PicksLast(k, w) /\ Leaving!PicksLast(k + 1, w)
    BY <2>1, LeavingPicksLast
  <2>3. V(k + 1) = RestStep(V(k), k + 1, w)
    BY <2>1, <2>2, Leaving!NextIndex
  <2>4. V(k + 1) = IF s[k + 1].id = id THEN V(k) ELSE Append(V(k), s[k + 1])
    BY <2>3 DEF RestStep
  <2>5. Known(k) /\ s[k + 1] \in S
    BY <1>1, <1>3, <2>1
  <2> HIDE DEF V
  <2>6. V(k) \in Seq(S) /\ V(k + 1) \in Seq(S)
    BY <2>4, <2>5, AppendProperties
  <2>7. ASSUME Nowhere
        PROVE  Len(V(k + 1)) = k + 1 /\ \A i \in 1..k + 1 : V(k + 1)[i] = s[i]
    <3>1. V(k + 1) = Append(V(k), s[k + 1]) /\ Len(V(k)) = k /\ \A i \in 1..k : V(k)[i] = s[i]
      BY <1>1, <2>1, <2>4, <2>5, <2>7
    <3> HIDE DEF Nowhere
    <3>2. /\ Len(V(k + 1)) = k + 1
          /\ \A i \in 1..k : V(k + 1)[i] = V(k)[i]
          /\ V(k + 1)[k + 1] = s[k + 1]
      <4>1. \A y \in Seq(S), e \in S :
              /\ Len(Append(y, e)) = Len(y) + 1
              /\ \A i \in 1..Len(y) : Append(y, e)[i] = y[i]
              /\ Append(y, e)[Len(y) + 1] = e
        BY AppendProperties
      <4>2. V(k) \in Seq(S) /\ s[k + 1] \in S /\ Len(V(k)) = k
        BY <2>5, <3>1
      <4>3. PICK y : y = V(k)
        OBVIOUS
      <4>4. PICK e : e = s[k + 1]
        OBVIOUS
      <4>5. /\ Len(Append(y, e)) = k + 1
            /\ \A i \in 1..k : Append(y, e)[i] = y[i]
            /\ Append(y, e)[k + 1] = e
        BY <4>1, <4>2, <4>3, <4>4
      <4> QED
        BY <3>1, <4>3, <4>4, <4>5
    <3> QED
      BY <2>1, <3>1, <3>2
  <2> HIDE DEF Nowhere
  <2> QED
    BY <2>1, <2>6, <2>7
<1> HIDE DEF T, n
<1>4. n \in T
  <2>1. \A k \in 0..n : k \in T
    BY <1>1, <1>2, <1>3, Leaving!UpTo
  <2> QED
    BY <1>1, <2>1
<1>5. Known(n) /\ Without(s, id) = V(n)
  BY <1>1, <1>4, WithoutValue DEF T
<1> HIDE DEF V, Nowhere
<1>6. Nowhere => V(n) = s
  <2>1. s \in Seq(S) /\ Len(s) = n
    BY DEF n
  <2> QED
    BY <1>1, <1>5, <2>1
<1> QED
  BY <1>5, <1>6 DEF Nowhere
---------------------------------------------------------------------------
\* One entry more.

Stepped(m, e) == [m EXCEPT !.step = IF e.step > @ THEN e.step ELSE @]

LEMMA ReloadAppend ==
  ASSUME NEW s, IsList(s), NEW e
  PROVE  reload_runtime_state(Append(s, e))
           = replay_log_entry(Stepped(reload_runtime_state(s), e), e)
<1> DEFINE t == Append(s, e)
           n == Len(s)
<1>1. n \in Nat /\ DOMAIN s = 1..n
  BY ListShape
<1>2. DOMAIN t = 1..n + 1 /\ t[n + 1] = e /\ \A i \in 1..n : t[i] = s[i]
  BY ListAppend
<1> HIDE DEF t, n
<1>3. \A i \in 1..n : \A x : ReloadStep(x, i, t) = ReloadStep(x, i, s)
  BY <1>2 DEF ReloadStep
<1>4. Reloading!Value(1..n + 1, t) = ReloadStep(Reloading!Value(1..n, s), n + 1, t)
  BY <1>1, <1>3, ReloadingPicksLast, Reloading!NextIndex
<1>5. reload_runtime_state(t) = Reloading!Value(1..n + 1, t)
      /\ reload_runtime_state(s) = Reloading!Value(1..n, s)
  BY <1>1, <1>2, ReloadIs
<1>6. \A m : ReloadStep(m, n + 1, t) = replay_log_entry(Stepped(m, e), e)
  BY <1>2 DEF ReloadStep, Stepped
<1> QED
  BY <1>4, <1>5, <1>6 DEF t

\* The state with these fields.
Fielded(m, boxes, donations, proofs, tasks, files, audited, step) ==
  /\ m = [boxes |-> boxes, donations |-> donations, proofs |-> proofs, tasks |-> tasks,
          files |-> files, audited |-> audited, step |-> step]
  /\ m.boxes = boxes /\ m.donations = donations /\ m.proofs = proofs
  /\ m.tasks = tasks /\ m.files = files /\ m.audited = audited /\ m.step = step

LEMMA FieldSet ==
  ASSUME NEW m, Shape(m), NEW x
  PROVE  /\ Fielded([m EXCEPT !.boxes = x], x, m.donations, m.proofs, m.tasks,
                    m.files, m.audited, m.step)
         /\ Fielded([m EXCEPT !.donations = x], m.boxes, x, m.proofs, m.tasks,
                    m.files, m.audited, m.step)
         /\ Fielded([m EXCEPT !.proofs = x], m.boxes, m.donations, x, m.tasks,
                    m.files, m.audited, m.step)
         /\ Fielded([m EXCEPT !.tasks = x], m.boxes, m.donations, m.proofs, x,
                    m.files, m.audited, m.step)
         /\ Fielded([m EXCEPT !.files = x], m.boxes, m.donations, m.proofs, m.tasks,
                    x, m.audited, m.step)
         /\ Fielded([m EXCEPT !.audited = x], m.boxes, m.donations, m.proofs, m.tasks,
                    m.files, x, m.step)
         /\ Fielded([m EXCEPT !.step = x], m.boxes, m.donations, m.proofs, m.tasks,
                    m.files, m.audited, x)
<1>1. PICK b, d, p, t, f, a, s :
        m = [boxes |-> b, donations |-> d, proofs |-> p, tasks |-> t, files |-> f,
             audited |-> a, step |-> s]
  BY DEF Shape
<1> QED
  BY <1>1 DEF Fielded

TaskTools == {"submit_atomic_microtask", "verify_atomic_microtask"}
Tools == {"register_seedbox", "broadcast_seedbox_donation", "submit_seedbox_proof",
          "index_seedbox_file"} \cup TaskTools

\* What a tool makes of the state.
AppliedTo(m, tool, out, k) ==
  /\ tool = "register_seedbox" =>
       Fielded(k, [m.boxes EXCEPT ![out.box] = [owner |-> out.owner, fake |-> out.fake]],
               m.donations, m.proofs, m.tasks, m.files, m.audited, m.step)
  /\ tool = "broadcast_seedbox_donation" =>
       Fielded(k, m.boxes, Append(m.donations, out), m.proofs, m.tasks, m.files,
               m.audited, m.step)
  /\ tool = "submit_seedbox_proof" =>
       Fielded(k, m.boxes, m.donations, Append(m.proofs, out), m.tasks, m.files,
               m.audited, m.step)
  /\ tool \in TaskTools =>
       Fielded(k, m.boxes, m.donations, m.proofs, Append(m.tasks, out), m.files,
               m.audited, m.step)
  /\ tool = "index_seedbox_file" =>
       Fielded(k, m.boxes, m.donations, m.proofs, m.tasks,
               [m.files EXCEPT ![out.file] = out.box], m.audited, m.step)
  /\ tool \notin Tools => k = m

LEMMA AppliedIs ==
  ASSUME NEW m, Shape(m), NEW tool, NEW out
  PROVE  AppliedTo(m, tool, out, Applied(m, tool, out))
<1> DEFINE k == Applied(m, tool, out)
<1>1. PICK b, d, p, t, f, a, s :
        m = [boxes |-> b, donations |-> d, proofs |-> p, tasks |-> t, files |-> f,
             audited |-> a, step |-> s]
  BY DEF Shape
<1>2. /\ tool = "register_seedbox" =>
           k = [m EXCEPT !.boxes = [m.boxes EXCEPT ![out.box] =
                                      [owner |-> out.owner, fake |-> out.fake]]]
      /\ tool = "broadcast_seedbox_donation" =>
           k = [m EXCEPT !.donations = Append(m.donations, out)]
      /\ tool = "submit_seedbox_proof" => k = [m EXCEPT !.proofs = Append(m.proofs, out)]
      /\ tool \in TaskTools => k = [m EXCEPT !.tasks = Append(m.tasks, out)]
      /\ tool = "index_seedbox_file" =>
           k = [m EXCEPT !.files = [m.files EXCEPT ![out.file] = out.box]]
      /\ tool \notin Tools => k = m
  BY <1>1 DEF Applied, index_file, Tools, TaskTools
<1> HIDE DEF k
<1>3. ASSUME NEW x
      PROVE  /\ k = [m EXCEPT !.boxes = x] =>
                   Fielded(k, x, m.donations, m.proofs, m.tasks, m.files, m.audited, m.step)
             /\ k = [m EXCEPT !.donations = x] =>
                   Fielded(k, m.boxes, x, m.proofs, m.tasks, m.files, m.audited, m.step)
             /\ k = [m EXCEPT !.proofs = x] =>
                   Fielded(k, m.boxes, m.donations, x, m.tasks, m.files, m.audited, m.step)
             /\ k = [m EXCEPT !.tasks = x] =>
                   Fielded(k, m.boxes, m.donations, m.proofs, x, m.files, m.audited, m.step)
             /\ k = [m EXCEPT !.files = x] =>
                   Fielded(k, m.boxes, m.donations, m.proofs, m.tasks, x, m.audited, m.step)
  BY FieldSet
<1>4. AppliedTo(m, tool, out, k)
  BY <1>2, <1>3 DEF AppliedTo
<1> QED
  BY <1>4 DEF k

\* One more element that is like the others.
LEMMA AllAppend ==
  ASSUME NEW s, IsList(s), NEW e, NEW G, \A i \in DOMAIN s : s[i] \in G, e \in G
  PROVE  IsList(Append(s, e)) /\ \A i \in DOMAIN Append(s, e) : Append(s, e)[i] \in G
<1>1. Len(s) \in Nat /\ DOMAIN s = 1..Len(s)
  BY ListShape
<1>2. \A i \in 1..Len(s) + 1 : i \in 1..Len(s) \/ i = Len(s) + 1
  BY <1>1
<1> QED
  BY <1>1, <1>2, ListAppend

LEMMA ListOver ==
  ASSUME NEW s, IsList(s), NEW G, \A i \in DOMAIN s : s[i] \in G
  PROVE  s \in Seq(G)
<1>1. Len(s) \in Nat /\ DOMAIN s = 1..Len(s) /\ s = [i \in 1..Len(s) |-> s[i]]
  BY DEF IsList
<1> QED
  BY <1>1

\* What a tool gives, given what the state is.
GivenBy(m, tool, out) ==
  /\ Given(tool, out)
  /\ tool \in TaskTools => out.box \in Registered(m)

LEMMA AppliedSane ==
  ASSUME NEW m, Sane(m), NEW tool, NEW out, GivenBy(m, tool, out)
  PROVE  Sane(Applied(m, tool, out)) /\ Applied(m, tool, out).step = m.step
<1>1. PICK k : k = Applied(m, tool, out)
  OBVIOUS
<1>2. Shape(m) /\ TasksHeld(m) /\ AppliedTo(m, tool, out, k)
  BY <1>1, AppliedIs DEF Sane
<1>3. /\ IsList(m.donations) /\ IsList(m.proofs) /\ IsList(m.tasks) /\ m.step \in Nat
      /\ m.boxes = [s \in Seedboxes |-> m.boxes[s]]
  BY <1>2 DEF Shape
<1>4. CASE tool = "register_seedbox"
  <2> DEFINE owned == [owner |-> out.owner, fake |-> out.fake]
             boxes == [m.boxes EXCEPT ![out.box] = owned]
  <2>1. Fielded(k, boxes, m.donations, m.proofs, m.tasks, m.files, m.audited, m.step)
    BY <1>2, <1>4 DEF AppliedTo
  <2>2. owned # None
    BY <1>4 DEF GivenBy, Given
  <2> HIDE DEF owned
  <2>3. boxes = [s \in Seedboxes |-> boxes[s]]
        /\ \A s \in Seedboxes : boxes[s] = IF s = out.box THEN owned ELSE m.boxes[s]
    BY <1>3
  <2> HIDE DEF boxes
  <2>4. Registered(m) \subseteq Registered(k)
    BY <2>1, <2>2, <2>3 DEF Registered, Fielded
  <2>5. Shape(k)
    BY <1>3, <2>1, <2>3 DEF Shape, Fielded
  <2>6. TasksHeld(k) /\ k.step = m.step
    BY <1>2, <2>1, <2>4 DEF TasksHeld, Fielded
  <2> QED
    BY <1>1, <2>5, <2>6 DEF Sane
<1>5. CASE tool = "broadcast_seedbox_donation"
  <2> DEFINE G == Parts(m.donations) \cup {out}
             list == Append(m.donations, out)
  <2>1. Fielded(k, m.boxes, list, m.proofs, m.tasks, m.files, m.audited, m.step)
    BY <1>2, <1>5 DEF AppliedTo
  <2>2. (\A i \in DOMAIN m.donations : m.donations[i] \in G) /\ out \in G
    BY DEF Parts
  <2> HIDE DEF G
  <2>3. IsList(list) /\ \A i \in DOMAIN list : list[i] \in G
    BY <1>3, <2>2, AllAppend
  <2> HIDE DEF list
  <2>4. Shape(k)
    BY <1>3, <2>1, <2>3 DEF Shape, Fielded
  <2>6. TasksHeld(k) /\ k.step = m.step
    BY <1>2, <2>1 DEF TasksHeld, Registered, Fielded
  <2> QED
    BY <1>1, <2>4, <2>6 DEF Sane
<1>6. CASE tool = "submit_seedbox_proof"
  <2> DEFINE G == Parts(m.proofs) \cup {out}
             list == Append(m.proofs, out)
  <2>1. Fielded(k, m.boxes, m.donations, list, m.tasks, m.files, m.audited, m.step)
    BY <1>2, <1>6 DEF AppliedTo
  <2>2. (\A i \in DOMAIN m.proofs : m.proofs[i] \in G) /\ out \in G
    BY DEF Parts
  <2> HIDE DEF G
  <2>3. IsList(list) /\ \A i \in DOMAIN list : list[i] \in G
    BY <1>3, <2>2, AllAppend
  <2> HIDE DEF list
  <2>4. Shape(k)
    BY <1>3, <2>1, <2>3 DEF Shape, Fielded
  <2>6. TasksHeld(k) /\ k.step = m.step
    BY <1>2, <2>1 DEF TasksHeld, Registered, Fielded
  <2> QED
    BY <1>1, <2>4, <2>6 DEF Sane
<1>7. CASE tool \in TaskTools
  <2> DEFINE G == {d \in Parts(m.tasks) \cup {out} : d.box \in Registered(m)}
             list == Append(m.tasks, out)
  <2>1. Fielded(k, m.boxes, m.donations, m.proofs, list, m.files, m.audited, m.step)
    BY <1>2, <1>7 DEF AppliedTo
  <2>2. (\A i \in DOMAIN m.tasks : m.tasks[i] \in G) /\ out \in G
    BY <1>2, <1>7 DEF TasksHeld, GivenBy, Parts
  <2> HIDE DEF G
  <2>3. IsList(list) /\ \A i \in DOMAIN list : list[i] \in G
    BY <1>3, <2>2, AllAppend
  <2> HIDE DEF list
  <2>4. Shape(k)
    BY <1>3, <2>1, <2>3 DEF Shape, Fielded
  <2>5. k.step = m.step /\ Registered(k) = Registered(m)
    BY <1>2, <2>1 DEF Registered, Fielded
  <2>6. TasksHeld(k)
    BY <2>1, <2>3, <2>5 DEF TasksHeld, Fielded, G
  <2> QED
    BY <1>1, <2>4, <2>5, <2>6 DEF Sane
<1>8. CASE tool = "index_seedbox_file"
  <2> DEFINE files == [m.files EXCEPT ![out.file] = out.box]
  <2>1. Fielded(k, m.boxes, m.donations, m.proofs, m.tasks, files, m.audited, m.step)
    BY <1>2, <1>8 DEF AppliedTo
  <2> HIDE DEF files
  <2>2. Shape(k) /\ k.step = m.step
    BY <1>3, <2>1 DEF Shape, Fielded
  <2>3. TasksHeld(k)
    BY <1>2, <2>1 DEF TasksHeld, Registered, Fielded
  <2> QED
    BY <1>1, <2>2, <2>3 DEF Sane
<1>9. CASE tool \notin Tools
  BY <1>1, <1>2, <1>9 DEF AppliedTo
<1> QED
  BY <1>4, <1>5, <1>6, <1>7, <1>8, <1>9 DEF Tools

\* The state without what the output of a tool replaces.
Shed(m, e) ==
  CASE e.tool = "broadcast_seedbox_donation" ->
         [m EXCEPT !.donations = Without(m.donations, e.output.id)]
    [] e.tool = "submit_seedbox_proof" ->
         [m EXCEPT !.proofs = Without(m.proofs, e.output.id)]
    [] OTHER -> m

Charged(e) == e.action = "seedbox_missing_proof" /\ e.output # None
Restores(m, e) ==
  /\ e.action = "tool_execution_success" /\ e.output # None
  /\ e.tool = "register_seedbox" \/ e.output.box \in Registered(m)

LEMMA ReplayIs ==
  ASSUME NEW m, Shape(m), NEW e
  PROVE  /\ Charged(e) => Fielded(replay_log_entry(m, e), m.boxes, m.donations, m.proofs,
              m.tasks, m.files, m.audited \cup {e.output.box}, m.step)
         /\ Restores(m, e) => replay_log_entry(m, e) = Applied(Shed(m, e), e.tool, e.output)
         /\ ~ Charged(e) /\ ~ Restores(m, e) => replay_log_entry(m, e) = m
<1>1. PICK b, d, p, t, f, a, s :
        m = [boxes |-> b, donations |-> d, proofs |-> p, tasks |-> t, files |-> f,
             audited |-> a, step |-> s]
  BY DEF Shape
<1>2. ASSUME Charged(e)
      PROVE  Fielded(replay_log_entry(m, e), m.boxes, m.donations, m.proofs,
                     m.tasks, m.files, m.audited \cup {e.output.box}, m.step)
  <2>1. replay_log_entry(m, e) = [m EXCEPT !.audited = m.audited \cup {e.output.box}]
    BY <1>1, <1>2 DEF replay_log_entry, Charged
  <2> QED
    BY <2>1, FieldSet
<1>3. ASSUME Restores(m, e)
      PROVE  replay_log_entry(m, e) = Applied(Shed(m, e), e.tool, e.output)
  <2>1. Shed(m, e) = CASE e.tool = "broadcast_seedbox_donation" ->
                            [m EXCEPT !.donations = Without(@, e.output.id)]
                       [] e.tool = "submit_seedbox_proof" ->
                            [m EXCEPT !.proofs = Without(@, e.output.id)]
                       [] OTHER -> m
    BY <1>1 DEF Shed
  <2> QED
    BY <1>3, <2>1 DEF replay_log_entry, Restores
<1>4. ~ Charged(e) /\ ~ Restores(m, e) => replay_log_entry(m, e) = m
  BY DEF replay_log_entry, Charged, Restores
<1> QED
  BY <1>2, <1>3, <1>4

LEMMA ShedSane ==
  ASSUME NEW m, Sane(m), NEW e
  PROVE  /\ Sane(Shed(m, e)) /\ Shed(m, e).step = m.step
         /\ Registered(Shed(m, e)) = Registered(m)
<1>1. PICK k : k = Shed(m, e)
  OBVIOUS
<1>2. Shape(m) /\ TasksHeld(m)
  BY DEF Sane
<1>3. /\ IsList(m.donations) /\ IsList(m.proofs) /\ IsList(m.tasks) /\ m.step \in Nat
      /\ m.boxes = [s \in Seedboxes |-> m.boxes[s]]
  BY <1>2 DEF Shape
<1>4. CASE e.tool = "broadcast_seedbox_donation"
  <2> DEFINE G == Parts(m.donations)
             list == Without(m.donations, e.output.id)
  <2>1. k = [m EXCEPT !.donations = list]
    BY <1>1, <1>4 DEF Shed
  <2>2. m.donations \in Seq(G)
    <3>1. \A i \in DOMAIN m.donations : m.donations[i] \in G
      BY DEF Parts
    <3> HIDE DEF G
    <3> QED
      BY <1>3, <3>1, ListOver
  <2> HIDE DEF G
  <2>3. list \in Seq(G)
    BY <2>2, WithoutIs
  <2> HIDE DEF list
  <2>4. IsList(list) /\ \A i \in DOMAIN list : list[i] \in G
    BY <2>3, ListIn
  <2>5. Fielded(k, m.boxes, list, m.proofs, m.tasks, m.files, m.audited, m.step)
    BY <1>2, <2>1, FieldSet
  <2>6. Shape(k)
    BY <1>3, <2>4, <2>5 DEF Shape, Fielded
  <2>8. TasksHeld(k) /\ k.step = m.step /\ Registered(k) = Registered(m)
    BY <1>2, <2>5 DEF TasksHeld, Registered, Fielded
  <2> QED
    BY <1>1, <2>6, <2>8 DEF Sane
<1>5. CASE e.tool = "submit_seedbox_proof"
  <2> DEFINE G == Parts(m.proofs)
             list == Without(m.proofs, e.output.id)
  <2>1. k = [m EXCEPT !.proofs = list]
    BY <1>1, <1>5 DEF Shed
  <2>2. m.proofs \in Seq(G)
    <3>1. \A i \in DOMAIN m.proofs : m.proofs[i] \in G
      BY DEF Parts
    <3> HIDE DEF G
    <3> QED
      BY <1>3, <3>1, ListOver
  <2> HIDE DEF G
  <2>3. list \in Seq(G)
    BY <2>2, WithoutIs
  <2> HIDE DEF list
  <2>4. IsList(list) /\ \A i \in DOMAIN list : list[i] \in G
    BY <2>3, ListIn
  <2>5. Fielded(k, m.boxes, m.donations, list, m.tasks, m.files, m.audited, m.step)
    BY <1>2, <2>1, FieldSet
  <2>6. Shape(k)
    BY <1>3, <2>4, <2>5 DEF Shape, Fielded
  <2>8. TasksHeld(k) /\ k.step = m.step /\ Registered(k) = Registered(m)
    BY <1>2, <2>5 DEF TasksHeld, Registered, Fielded
  <2> QED
    BY <1>1, <2>6, <2>8 DEF Sane
<1>6. CASE e.tool \notin {"broadcast_seedbox_donation", "submit_seedbox_proof"}
  BY <1>6 DEF Shed
<1> QED
  BY <1>4, <1>5, <1>6

LEMMA ReplaySane ==
  ASSUME NEW m, Sane(m),
         NEW e, e.output # None => Given(e.tool, e.output)
  PROVE  Sane(replay_log_entry(m, e)) /\ replay_log_entry(m, e).step = m.step
<1>1. Shape(m) /\ TasksHeld(m)
  BY DEF Sane
<1>2. CASE Charged(e)
  <2>1. PICK k : k = replay_log_entry(m, e)
    OBVIOUS
  <2>2. Fielded(k, m.boxes, m.donations, m.proofs, m.tasks, m.files,
                m.audited \cup {e.output.box}, m.step)
    BY <1>1, <1>2, <2>1, ReplayIs
  <2>3. Shape(k) /\ k.step = m.step
    BY <1>1, <2>2 DEF Shape, Fielded
  <2>4. TasksHeld(k)
    BY <1>1, <2>2 DEF TasksHeld, Registered, Fielded
  <2> QED
    BY <2>1, <2>3, <2>4 DEF Sane
<1>3. CASE Restores(m, e)
  <2>1. PICK k : k = Shed(m, e)
    OBVIOUS
  <2>2. Sane(k) /\ k.step = m.step /\ Registered(k) = Registered(m)
    BY <2>1, ShedSane
  <2>3. GivenBy(k, e.tool, e.output)
    BY <1>3, <2>2 DEF GivenBy, Restores, TaskTools
  <2>4. Sane(Applied(k, e.tool, e.output)) /\ Applied(k, e.tool, e.output).step = k.step
    BY <2>2, <2>3, AppliedSane
  <2>5. replay_log_entry(m, e) = Applied(k, e.tool, e.output)
    BY <1>1, <1>3, <2>1, ReplayIs
  <2> QED
    BY <2>2, <2>4, <2>5
<1>4. CASE ~ Charged(e) /\ ~ Restores(m, e)
  BY <1>1, <1>4, ReplayIs
<1> QED
  BY <1>2, <1>3, <1>4

LEMMA SteppedSane ==
  ASSUME NEW m, Sane(m), NEW e, e.step \in Nat
  PROVE  /\ Sane(Stepped(m, e)) /\ SameCore(Stepped(m, e), m)
         /\ Stepped(m, e).step = IF e.step > m.step THEN e.step ELSE m.step
<1> DEFINE step == IF e.step > m.step THEN e.step ELSE m.step
<1>1. PICK k : k = Stepped(m, e)
  OBVIOUS
<1>2. Shape(m) /\ TasksHeld(m)
  BY DEF Sane
<1>3. step \in Nat
  BY <1>2 DEF Shape
<1>4. k = [m EXCEPT !.step = step]
  <2>1. PICK b, d, p, t, f, a, s :
          m = [boxes |-> b, donations |-> d, proofs |-> p, tasks |-> t, files |-> f,
               audited |-> a, step |-> s]
    BY <1>2 DEF Shape
  <2> QED
    BY <1>1, <2>1 DEF Stepped
<1> HIDE DEF step
<1>5. Fielded(k, m.boxes, m.donations, m.proofs, m.tasks, m.files, m.audited, step)
  BY <1>2, <1>4, FieldSet
<1>6. Shape(k)
  BY <1>2, <1>3, <1>5 DEF Shape, Fielded
<1>7. TasksHeld(k) /\ k.step = step /\ SameCore(k, m)
  BY <1>2, <1>5 DEF TasksHeld, Registered, Fielded, SameCore
<1> QED
  BY <1>1, <1>6, <1>7 DEF Sane, step

LEMMA OneMoreSane ==
  ASSUME NEW m, Sane(m), NEW when, m.step \in when, NEW e, EntryOk(e, when)
  PROVE  /\ Sane(replay_log_entry(Stepped(m, e), e))
         /\ replay_log_entry(Stepped(m, e), e).step \in when
<1>1. e.step \in Nat /\ e.step \in when /\ (e.output # None => Given(e.tool, e.output))
  BY DEF EntryOk
<1>2. PICK k : k = Stepped(m, e)
  OBVIOUS
<1>3. Sane(k) /\ k.step = IF e.step > m.step THEN e.step ELSE m.step
  BY <1>1, <1>2, SteppedSane
<1>4. k.step \in when
  BY <1>1, <1>3
<1>5. Sane(replay_log_entry(k, e)) /\ replay_log_entry(k, e).step = k.step
  BY <1>1, <1>3, ReplaySane
<1> QED
  BY <1>2, <1>4, <1>5

LEMMA FreshSane == Sane(Fresh) /\ Fresh.step = 0
<1>1. PICK k : k = Fresh
  OBVIOUS
<1>2. Fielded(k, [s \in Seedboxes |-> None], <<>>, <<>>, <<>>, [f \in FileIds |-> None], {}, 0)
  BY <1>1 DEF Fresh, Fielded
<1>3. Shape(k)
  BY <1>2, ListNone DEF Shape, Fielded
<1>4. TasksHeld(k) /\ k.step = 0
  BY <1>2, ListNone DEF TasksHeld, Fielded
<1> QED
  BY <1>1, <1>3, <1>4 DEF Sane

\* What a start rebuilds from a log as gateways write it.
LEMMA ReloadSane ==
  ASSUME NEW s, IsList(s),
         \A i \in DOMAIN s : s[i].step \in Nat
                             /\ (s[i].output # None => Given(s[i].tool, s[i].output))
  PROVE  Sane(reload_runtime_state(s))
<1> DEFINE l == Len(s)
           V(k) == Reloading!Value(1..k, s)
           T == {k \in 0..l : Sane(V(k))}
<1>1. l \in Nat /\ DOMAIN s = 1..l
  BY ListShape
<1>2. 0 \in T
  <2>1. 1..0 = {}
    OBVIOUS
  <2>2. V(0) = Fresh
    BY <2>1, Reloading!Empty
  <2>3. Sane(Fresh)
    BY FreshSane
  <2> QED
    BY <1>1, <2>2, <2>3
<1>3. ASSUME NEW k \in 0..l - 1, k \in T
      PROVE  k + 1 \in T
  <2>1. k \in Nat /\ k + 1 \in 1..l /\ k + 1 \in 0..l
    BY <1>1
  <2>2. Reloading!PicksLast(k, s) /\ Reloading!PicksLast(k + 1, s)
    BY <2>1, ReloadingPicksLast
  <2>3. V(k + 1) = ReloadStep(V(k), k + 1, s)
    BY <2>1, <2>2, Reloading!NextIndex
  <2>4. PICK e : e = s[k + 1]
    OBVIOUS
  <2>5. PICK m : m = V(k)
    OBVIOUS
  <2>6. V(k + 1) = replay_log_entry(Stepped(m, e), e)
    BY <2>3, <2>4, <2>5 DEF ReloadStep, Stepped
  <2>7. Sane(m)
    BY <1>3, <2>5
  <2>8. e.step \in Nat /\ (e.output # None => Given(e.tool, e.output))
    BY <1>1, <2>1, <2>4
  <2>9. Sane(Stepped(m, e))
    BY <2>7, <2>8, SteppedSane
  <2>10. Sane(replay_log_entry(Stepped(m, e), e))
    BY <2>8, <2>9, ReplaySane
  <2> QED
    BY <2>1, <2>6, <2>10
<1> HIDE DEF T, V, l
<1>4. l \in T
  <2>1. \A k \in 0..l : k \in T
    BY <1>1, <1>2, <1>3, Reloading!UpTo
  <2> QED
    BY <1>1, <2>1
<1>5. Sane(V(l))
  BY <1>4 DEF T
<1>6. reload_runtime_state(s) = V(l)
  BY <1>1, ReloadIs DEF V
<1> QED
  BY <1>5, <1>6

\* Of two states that are the same but for the step, an entry makes two such.
LEMMA SameApplied ==
  ASSUME NEW m, NEW k, Shape(m), Shape(k), SameCore(m, k), NEW tool, NEW out
  PROVE  SameCore(Applied(m, tool, out), Applied(k, tool, out))
<1>1. PICK x : x = Applied(m, tool, out)
  OBVIOUS
<1>2. PICK y : y = Applied(k, tool, out)
  OBVIOUS
<1>3. AppliedTo(m, tool, out, x) /\ AppliedTo(k, tool, out, y)
  BY <1>1, <1>2, AppliedIs
<1>4. /\ m.boxes = k.boxes /\ m.donations = k.donations /\ m.proofs = k.proofs
      /\ m.tasks = k.tasks /\ m.files = k.files /\ m.audited = k.audited
  BY DEF SameCore
<1>5. CASE tool = "register_seedbox"
  BY <1>1, <1>2, <1>3, <1>4, <1>5 DEF AppliedTo, Fielded, SameCore
<1>6. CASE tool = "broadcast_seedbox_donation"
  BY <1>1, <1>2, <1>3, <1>4, <1>6 DEF AppliedTo, Fielded, SameCore
<1>7. CASE tool = "submit_seedbox_proof"
  BY <1>1, <1>2, <1>3, <1>4, <1>7 DEF AppliedTo, Fielded, SameCore
<1>8. CASE tool \in TaskTools
  BY <1>1, <1>2, <1>3, <1>4, <1>8 DEF AppliedTo, Fielded, SameCore
<1>9. CASE tool = "index_seedbox_file"
  BY <1>1, <1>2, <1>3, <1>4, <1>9 DEF AppliedTo, Fielded, SameCore
<1>10. CASE tool \notin Tools
  BY <1>1, <1>2, <1>3, <1>4, <1>10 DEF AppliedTo, SameCore
<1> QED
  BY <1>5, <1>6, <1>7, <1>8, <1>9, <1>10 DEF Tools

LEMMA SameShed ==
  ASSUME NEW m, NEW k, Shape(m), Shape(k), SameCore(m, k), NEW e
  PROVE  SameCore(Shed(m, e), Shed(k, e))
<1>1. PICK x : x = Shed(m, e)
  OBVIOUS
<1>2. PICK y : y = Shed(k, e)
  OBVIOUS
<1>3. /\ m.boxes = k.boxes /\ m.donations = k.donations /\ m.proofs = k.proofs
      /\ m.tasks = k.tasks /\ m.files = k.files /\ m.audited = k.audited
  BY DEF SameCore
<1>4. CASE e.tool = "broadcast_seedbox_donation"
  <2> DEFINE list == Without(m.donations, e.output.id)
  <2>1. x = [m EXCEPT !.donations = list] /\ y = [k EXCEPT !.donations = list]
    BY <1>1, <1>2, <1>3, <1>4 DEF Shed
  <2> HIDE DEF list
  <2>2. /\ Fielded(x, m.boxes, list, m.proofs, m.tasks, m.files, m.audited, m.step)
        /\ Fielded(y, k.boxes, list, k.proofs, k.tasks, k.files, k.audited, k.step)
    BY <2>1, FieldSet
  <2> QED
    BY <1>1, <1>2, <1>3, <2>2 DEF Fielded, SameCore
<1>5. CASE e.tool = "submit_seedbox_proof"
  <2> DEFINE list == Without(m.proofs, e.output.id)
  <2>1. x = [m EXCEPT !.proofs = list] /\ y = [k EXCEPT !.proofs = list]
    BY <1>1, <1>2, <1>3, <1>5 DEF Shed
  <2> HIDE DEF list
  <2>2. /\ Fielded(x, m.boxes, m.donations, list, m.tasks, m.files, m.audited, m.step)
        /\ Fielded(y, k.boxes, k.donations, list, k.tasks, k.files, k.audited, k.step)
    BY <2>1, FieldSet
  <2> QED
    BY <1>1, <1>2, <1>3, <2>2 DEF Fielded, SameCore
<1>6. CASE e.tool \notin {"broadcast_seedbox_donation", "submit_seedbox_proof"}
  BY <1>6 DEF Shed
<1> QED
  BY <1>4, <1>5, <1>6

LEMMA SameReplay ==
  ASSUME NEW m, NEW k, Sane(m), Sane(k), SameCore(m, k), NEW e
  PROVE  SameCore(replay_log_entry(m, e), replay_log_entry(k, e))
<1>1. Shape(m) /\ Shape(k) /\ Registered(m) = Registered(k)
  BY DEF Sane, SameCore, Registered
<1>2. CASE Charged(e)
  <2>1. PICK x : x = replay_log_entry(m, e)
    OBVIOUS
  <2>2. PICK y : y = replay_log_entry(k, e)
    OBVIOUS
  <2>3. /\ Fielded(x, m.boxes, m.donations, m.proofs, m.tasks, m.files,
                   m.audited \cup {e.output.box}, m.step)
        /\ Fielded(y, k.boxes, k.donations, k.proofs, k.tasks, k.files,
                   k.audited \cup {e.output.box}, k.step)
    BY <1>1, <1>2, <2>1, <2>2, ReplayIs
  <2> QED
    BY <2>1, <2>2, <2>3 DEF Fielded, SameCore
<1>3. CASE Restores(m, e)
  <2>1. PICK x : x = Shed(m, e)
    OBVIOUS
  <2>2. PICK y : y = Shed(k, e)
    OBVIOUS
  <2>3. Shape(x) /\ Shape(y) /\ SameCore(x, y)
    BY <1>1, <2>1, <2>2, ShedSane, SameShed DEF Sane
  <2>4. Restores(k, e)
    BY <1>1, <1>3 DEF Restores
  <2>5. /\ replay_log_entry(m, e) = Applied(x, e.tool, e.output)
        /\ replay_log_entry(k, e) = Applied(y, e.tool, e.output)
    BY <1>1, <1>3, <2>1, <2>2, <2>4, ReplayIs
  <2> QED
    BY <2>3, <2>5, SameApplied
<1>4. CASE ~ Charged(e) /\ ~ Restores(m, e)
  <2>1. ~ Restores(k, e)
    BY <1>1, <1>4 DEF Restores
  <2> QED
    BY <1>1, <1>4, <2>1, ReplayIs
<1> QED
  BY <1>2, <1>3, <1>4

\* The output of a tool that is new to the state is replayed as the tool put it
\* there.
New(m, tool, out) ==
  /\ tool \in Tools \ {"register_seedbox"} => out.box \in Registered(m)
  /\ tool = "broadcast_seedbox_donation" =>
       \A i \in DOMAIN m.donations : m.donations[i].id # out.id
  /\ tool = "submit_seedbox_proof" => \A i \in DOMAIN m.proofs : m.proofs[i].id # out.id

LEMMA NewIsReplayed ==
  ASSUME NEW m, Sane(m),
         NEW e, e.action = "tool_execution_success", e.output # None,
         New(m, e.tool, e.output)
  PROVE  replay_log_entry(m, e) = Applied(m, e.tool, e.output)
<1>1. Shape(m) /\ IsList(m.donations) /\ IsList(m.proofs)
  BY DEF Sane, Shape
<1>2. Shed(m, e) = m
  <2>1. PICK b, d, p, t, f, a, s :
          m = [boxes |-> b, donations |-> d, proofs |-> p, tasks |-> t, files |-> f,
               audited |-> a, step |-> s]
    BY <1>1 DEF Shape
  <2>2. [m EXCEPT !.donations = m.donations] = m /\ [m EXCEPT !.proofs = m.proofs] = m
    BY <2>1
  <2>3. CASE e.tool = "broadcast_seedbox_donation"
    <3>1. m.donations \in Seq(Parts(m.donations))
      BY <1>1, ListShape
    <3>2. \A i \in DOMAIN m.donations : m.donations[i].id # e.output.id
      BY <2>3 DEF New
    <3>3. Without(m.donations, e.output.id) = m.donations
      BY <3>1, <3>2, WithoutIs
    <3> QED
      BY <2>2, <2>3, <3>3 DEF Shed
  <2>4. CASE e.tool = "submit_seedbox_proof"
    <3>1. m.proofs \in Seq(Parts(m.proofs))
      BY <1>1, ListShape
    <3>2. \A i \in DOMAIN m.proofs : m.proofs[i].id # e.output.id
      BY <2>4 DEF New
    <3>3. Without(m.proofs, e.output.id) = m.proofs
      BY <3>1, <3>2, WithoutIs
    <3> QED
      BY <2>2, <2>4, <3>3 DEF Shed
  <2>5. CASE e.tool \notin {"broadcast_seedbox_donation", "submit_seedbox_proof"}
    BY <2>5 DEF Shed
  <2> QED
    BY <2>3, <2>4, <2>5
<1>3. CASE Restores(m, e)
  BY <1>1, <1>2, <1>3, ReplayIs
<1>4. CASE ~ Restores(m, e)
  <2>1. e.tool \notin Tools
    BY <1>4 DEF Restores, New
  <2>2. ~ Charged(e)
    BY DEF Charged
  <2>3. replay_log_entry(m, e) = m
    BY <1>1, <1>4, <2>2, ReplayIs
  <2>4. AppliedTo(m, e.tool, e.output, Applied(m, e.tool, e.output))
    BY <1>1, AppliedIs
  <2> QED
    BY <2>1, <2>3, <2>4 DEF AppliedTo
<1> QED
  BY <1>3, <1>4

\* What a tool gives is of the agent's request, and new where its ids are.
LEMMA LastTask ==
  ASSUME NEW m, Sane(m), NEW task, get(m, task) # None
  PROVE  get(m, task).box \in Registered(m)
<1> DEFINE found == {i \in DOMAIN m.tasks : m.tasks[i].task = task}
<1>1. IsList(m.tasks) /\ \A i \in DOMAIN m.tasks : m.tasks[i].box \in Registered(m)
  BY DEF Sane, Shape, TasksHeld
<1>2. get(m, task) = IF found = {} THEN None
                     ELSE m.tasks[CHOOSE i \in found : \A j \in found : j <= i]
  BY DEF get
<1>3. found \subseteq 1..Len(m.tasks) /\ found # {} /\ Len(m.tasks) \in Nat
        /\ found \subseteq DOMAIN m.tasks
  BY <1>1, <1>2, ListShape
<1> HIDE DEF found
<1>4. \E i \in found : \A j \in found : j <= i
  BY <1>3, Scoring!Greatest
<1>5. (CHOOSE i \in found : \A j \in found : j <= i) \in found
  BY <1>4
<1> QED
  BY <1>1, <1>2, <1>3, <1>5

LEMMA NamedAgent ==
  ASSUME NEW r, Asks(r), NEW a \in Agents
  PROVE  Named(r.who, a) \in Agents
BY DEF Asks, Named

LEMMA OutputGiven ==
  ASSUME NEW m, Sane(m), NEW a \in Agents, NEW r, Asks(r),
         NEW now, NEW out, out = OutputOf(m, a, r, now), out # None
  PROVE  /\ GivenBy(m, r.tool, out)
         /\ Unused(r, now, m) => New(m, r.tool, out)
<1>1. CASE r.tool = "register_seedbox"
  <2>1. out = [box |-> r.box, owner |-> Named(r.who, a), fake |-> r.value]
    BY <1>1 DEF OutputOf
  <2>2. out.owner \in Agents /\ out.fake = r.value
    BY <2>1, NamedAgent
  <2>3. GivenBy(m, r.tool, out)
    BY <1>1, <2>2 DEF GivenBy, Given, TaskTools, Asks
  <2>4. New(m, r.tool, out)
    BY <1>1 DEF New
  <2> QED
    BY <2>3, <2>4
<1>2. CASE r.tool = "broadcast_seedbox_donation"
  <2>1. r.box \in Registered(m)
    BY <1>2 DEF OutputOf
  <2>2. PICK id, donor : id = ItsId(r, now) /\ donor = Named(r.who, a)
    OBVIOUS
  <2>3. out = [box |-> r.box, id |-> id, donor |-> donor,
               recipient |-> m.boxes[r.box].owner, fake |-> m.boxes[r.box].fake]
    BY <1>2, <2>1, <2>2 DEF OutputOf, ItsId
  <2>4. out.box = r.box /\ out.id = ItsId(r, now)
    BY <2>2, <2>3
  <2>5. GivenBy(m, r.tool, out)
    BY <1>2 DEF GivenBy, Given, TaskTools
  <2>6. Unused(r, now, m) => New(m, r.tool, out)
    BY <1>2, <2>1, <2>4 DEF New, Unused
  <2> QED
    BY <2>5, <2>6
<1>3. CASE r.tool = "submit_seedbox_proof"
  <2>1. r.box \in Registered(m)
    BY <1>3 DEF OutputOf
  <2>2. out = [box |-> r.box, id |-> ItsId(r, now)]
    BY <1>3, <2>1 DEF OutputOf, ItsId
  <2>3. out.box = r.box /\ out.id = ItsId(r, now)
    BY <2>2
  <2>4. GivenBy(m, r.tool, out)
    BY <1>3 DEF GivenBy, Given, TaskTools
  <2>5. Unused(r, now, m) => New(m, r.tool, out)
    BY <1>3, <2>1, <2>3 DEF New, Unused
  <2> QED
    BY <2>4, <2>5
<1>4. CASE r.tool \in TaskTools
  <2>1. out.box \in Registered(m)
    <3>1. CASE r.tool = "submit_atomic_microtask"
      BY <3>1 DEF OutputOf
    <3>2. CASE r.tool = "verify_atomic_microtask"
      <4>1. get(m, r.id) # None /\ out.box = get(m, r.id).box
        BY <3>2 DEF OutputOf
      <4> QED
        BY <4>1, LastTask
    <3> QED
      BY <1>4, <3>1, <3>2 DEF TaskTools
  <2> QED
    BY <1>4, <2>1 DEF GivenBy, Given, New, TaskTools
<1>5. CASE r.tool = "index_seedbox_file"
  <2>1. r.box \in Registered(m) /\ out = [box |-> r.box, file |-> r.id]
    BY <1>5 DEF OutputOf
  <2>2. out.box \in Registered(m)
    BY <2>1
  <2> QED
    BY <1>5, <2>2 DEF GivenBy, Given, New, TaskTools
<1>6. CASE r.tool \notin Tools
  BY <1>6 DEF GivenBy, Given, New, Tools, TaskTools
<1> QED
  BY <1>1, <1>2, <1>3, <1>4, <1>5, <1>6 DEF Tools

---------------------------------------------------------------------------
\* What a request has still to write, against what a start would rebuild.

Joined(s, t, r) ==
  /\ IsList(r)
  /\ \A i \in DOMAIN s : i \in DOMAIN r /\ r[i] = s[i]
  /\ \A k \in DOMAIN r : k \in DOMAIN s \/ \E i \in DOMAIN t : k = Len(s) + i /\ r[k] = t[i]

LEMMA ListBoth ==
  ASSUME NEW s, NEW t, IsList(s), IsList(t)
  PROVE  Joined(s, t, s \o t)
<1>1. /\ Len(s) \in Nat /\ Len(t) \in Nat
      /\ DOMAIN s = 1..Len(s) /\ DOMAIN t = 1..Len(t)
      /\ s \in Seq(Parts(s)) /\ t \in Seq(Parts(t))
  BY ListShape
<1> DEFINE S == Parts(s) \cup Parts(t)
<1>2. s \in Seq(S) /\ t \in Seq(S)
  BY <1>1
<1> HIDE DEF S
<1>3. PICK r : r = s \o t
  OBVIOUS
<1>4. r \in Seq(S) /\ Len(r) = Len(s) + Len(t)
      /\ \A i \in 1..Len(s) + Len(t) : r[i] = IF i <= Len(s) THEN s[i] ELSE t[i - Len(s)]
  BY <1>2, <1>3, ConcatProperties
<1>5. IsList(r) /\ DOMAIN r = 1..Len(s) + Len(t)
  BY <1>4, ListIn
<1>6. \A i \in DOMAIN s : i \in DOMAIN r /\ r[i] = s[i]
  BY <1>1, <1>4, <1>5
<1>7. ASSUME NEW k \in DOMAIN r, k \notin DOMAIN s
      PROVE  \E i \in DOMAIN t : k = Len(s) + i /\ r[k] = t[i]
  <2>1. ~ (k <= Len(s)) /\ k - Len(s) \in DOMAIN t /\ k = Len(s) + (k - Len(s))
    BY <1>1, <1>5, <1>7
  <2> QED
    BY <1>4, <1>5, <2>1
<1>8. Joined(s, t, r)
  BY <1>5, <1>6, <1>7 DEF Joined
<1> QED
  BY <1>3, <1>8

LEMMA TailIs ==
  ASSUME NEW s, IsList(s), s # <<>>
  PROVE  /\ 1 \in DOMAIN s /\ Head(s) = s[1] /\ IsList(Tail(s))
         /\ \A i \in DOMAIN Tail(s) : i \in Nat /\ i + 1 \in DOMAIN s /\ Tail(s)[i] = s[i + 1]
         /\ \A k \in DOMAIN s : k # 1 => k - 1 \in DOMAIN Tail(s)
<1>1. s \in Seq(Parts(s)) /\ Len(s) \in Nat /\ DOMAIN s = 1..Len(s)
  BY ListShape
<1>2. Tail(s) \in Seq(Parts(s)) /\ Len(Tail(s)) = Len(s) - 1
      /\ \A i \in 1..Len(Tail(s)) : Tail(s)[i] = s[i + 1]
  BY <1>1, HeadTailProperties
<1>3. Len(s) >= 1 /\ Head(s) = s[1]
  BY <1>1
<1>4. IsList(Tail(s)) /\ DOMAIN Tail(s) = 1..Len(s) - 1
  BY <1>2, ListIn
<1>5. \A i \in DOMAIN Tail(s) : i \in Nat /\ i + 1 \in DOMAIN s /\ Tail(s)[i] = s[i + 1]
  BY <1>1, <1>2, <1>4
<1>6. \A k \in DOMAIN s : k # 1 => k - 1 \in DOMAIN Tail(s)
  BY <1>1, <1>4
<1> QED
  BY <1>1, <1>3, <1>4, <1>5, <1>6

\* Entries, and of them one that matters to a start.
EventsOk(events, when) ==
  IsList(events) /\ \A i \in DOMAIN events : EntryOk(events[i], when)
NoOutput(events) == \A i \in DOMAIN events : events[i].output = None
OneOutput(events, e) ==
  \E k \in DOMAIN events :
    events[k] = e /\ \A i \in DOMAIN events : i # k => events[i].output = None

LEMMA EventsConcat ==
  ASSUME NEW when, NEW s, NEW t, EventsOk(s, when), EventsOk(t, when)
  PROVE  /\ EventsOk(s \o t, when)
         /\ NoOutput(s) /\ NoOutput(t) => NoOutput(s \o t)
         /\ \A e : OneOutput(s, e) /\ NoOutput(t) => OneOutput(s \o t, e)
         /\ \A e : NoOutput(s) /\ OneOutput(t, e) => OneOutput(s \o t, e)
<1>1. IsList(s) /\ IsList(t)
  BY DEF EventsOk
<1>2. PICK r : r = s \o t
  OBVIOUS
<1>3. /\ IsList(r)
      /\ \A i \in DOMAIN s : i \in DOMAIN r /\ r[i] = s[i]
      /\ \A k \in DOMAIN r : k \in DOMAIN s \/ \E i \in DOMAIN t : k = Len(s) + i /\ r[k] = t[i]
  <2>1. Joined(s, t, r)
    BY <1>1, <1>2, ListBoth
  <2> QED
    BY <2>1 DEF Joined
<1>4. EventsOk(r, when)
  BY <1>3 DEF EventsOk
<1>5. NoOutput(s) /\ NoOutput(t) => NoOutput(r)
  BY <1>3 DEF NoOutput
<1>6. ASSUME NEW e, OneOutput(s, e), NoOutput(t)
      PROVE  OneOutput(r, e)
  <2>1. PICK k \in DOMAIN s : s[k] = e /\ \A i \in DOMAIN s : i # k => s[i].output = None
    BY <1>6 DEF OneOutput
  <2>2. k \in DOMAIN r /\ r[k] = e
    BY <1>3, <2>1
  <2>3. \A i \in DOMAIN r : i # k => r[i].output = None
    BY <1>3, <1>6, <2>1 DEF NoOutput
  <2> QED
    BY <2>2, <2>3 DEF OneOutput
<1>7. ASSUME NEW e, NoOutput(s), OneOutput(t, e)
      PROVE  OneOutput(r, e)
  <2>1. PICK k \in DOMAIN t : t[k] = e /\ \A i \in DOMAIN t : i # k => t[i].output = None
    BY <1>7 DEF OneOutput
  <2>2. Len(s) \in Nat /\ Len(t) \in Nat /\ DOMAIN s = 1..Len(s) /\ DOMAIN t = 1..Len(t)
    BY <1>1, ListShape
  <2>3. Len(s) + k \in DOMAIN r /\ r[Len(s) + k] = e
    <3>1. s \in Seq(Parts(s) \cup Parts(t)) /\ t \in Seq(Parts(s) \cup Parts(t))
      BY <1>1, ListShape
    <3>2. r \in Seq(Parts(s) \cup Parts(t)) /\ Len(r) = Len(s) + Len(t)
          /\ \A i \in 1..Len(s) + Len(t) : r[i] = IF i <= Len(s) THEN s[i] ELSE t[i - Len(s)]
      BY <1>2, <3>1, ConcatProperties
    <3>3. DOMAIN r = 1..Len(s) + Len(t)
      BY <3>2, ListIn
    <3>4. Len(s) + k \in 1..Len(s) + Len(t) /\ ~ (Len(s) + k <= Len(s)) /\ (Len(s) + k) - Len(s) = k
      BY <2>2
    <3> QED
      BY <2>1, <3>2, <3>3, <3>4
  <2>4. \A i \in DOMAIN r : i # Len(s) + k => r[i].output = None
    BY <1>3, <1>7, <2>1 DEF NoOutput
  <2> QED
    BY <2>3, <2>4 DEF OneOutput
<1> QED
  BY <1>2, <1>4, <1>5, <1>6, <1>7

LEMMA EventsOne ==
  ASSUME NEW e, NEW when, EntryOk(e, when)
  PROVE  /\ EventsOk(<<e>>, when) /\ OneOutput(<<e>>, e)
         /\ e.output = None => NoOutput(<<e>>)
<1>1. IsList(<<e>>) /\ DOMAIN <<e>> = {1} /\ <<e>>[1] = e
  BY ListOne
<1> QED
  BY <1>1 DEF EventsOk, OneOutput, NoOutput

LEMMA EventsNone ==
  ASSUME NEW when
  PROVE  EventsOk(<<>>, when) /\ NoOutput(<<>>)
BY ListNone DEF EventsOk, NoOutput

LEMMA EventOk ==
  ASSUME NEW when \in SUBSET Nat, NEW a, NEW action, NEW s \in when
  PROVE  EventsOk(<<Event(a, action, s)>>, when) /\ NoOutput(<<Event(a, action, s)>>)
<1>1. PICK e : e = Event(a, action, s)
  OBVIOUS
<1>2. e.step = s /\ e.output = None
  BY <1>1 DEF Event, Entry
<1>3. EntryOk(e, when)
  BY <1>2 DEF EntryOk
<1> QED
  BY <1>1, <1>2, <1>3, EventsOne

\* What a tool and the gateway write of a request.
LEMMA TaskEventsOk ==
  ASSUME NEW when \in SUBSET Nat, NEW m, m.step \in when, NEW r, NEW out
  PROVE  EventsOk(TaskEvents(m, r, out), when) /\ NoOutput(TaskEvents(m, r, out))
<1>1. when \subseteq Nat
  OBVIOUS
<1>2. \A a, action : /\ EventsOk(<<Event(a, action, m.step)>>, when)
                     /\ NoOutput(<<Event(a, action, m.step)>>)
  BY <1>1, EventOk
<1>3. \/ TaskEvents(m, r, out) = <<>>
      \/ \E a, action : TaskEvents(m, r, out) = <<Event(a, action, m.step)>>
  BY DEF TaskEvents
<1> QED
  BY <1>2, <1>3, EventsNone

LEMMA DonationEventsOk ==
  ASSUME NEW when \in SUBSET Nat, NEW step \in when, NEW a, NEW out
  PROVE  EventsOk(DonationEvents(a, out, step), when) /\ NoOutput(DonationEvents(a, out, step))
<1> DEFINE first == <<Event(a, "seedbox_donation_broadcast", step)>>
           more == IF out.donor = out.recipient
                   THEN <<Event(a, "wash_trade_detected", step)>> ELSE <<>>
<1>1. when \subseteq Nat
  OBVIOUS
<1>2. EventsOk(first, when) /\ NoOutput(first)
  BY <1>1, EventOk
<1>3. EventsOk(more, when) /\ NoOutput(more)
  BY <1>1, EventOk, EventsNone
<1>4. DonationEvents(a, out, step) = first \o more
  BY DEF DonationEvents
<1> HIDE DEF first, more
<1> QED
  BY <1>2, <1>3, <1>4, EventsConcat

Success(a, tool, out) == Entry(a, "tool_execution_success", 0, 0, tool, out)

LEMMA SuccessOk ==
  ASSUME NEW when \in SUBSET Nat, 0 \in when, NEW m, m.step \in when, NEW a, NEW r, NEW out,
         out # None, Given(r.tool, out)
  PROVE  /\ EventsOk(SuccessEvents(m, a, r, out), when)
         /\ OneOutput(SuccessEvents(m, a, r, out), Success(a, r.tool, out))
<1> DEFINE success == Success(a, r.tool, out)
           more == CASE r.tool = "register_seedbox" /\ r.value = TRUE ->
                          <<Event(a, "fake_seedbox_created", m.step)>>
                     [] r.tool = "broadcast_seedbox_donation" -> DonationEvents(a, out, m.step)
                     [] r.tool = "submit_seedbox_proof" -> <<Event(a, "seedbox_proof_of_service", 0)>>
                     [] OTHER -> <<>>
<1>1. when \subseteq Nat /\ 0 \in when
  OBVIOUS
<1>2. SuccessEvents(m, a, r, out) = <<success>> \o more
  BY DEF SuccessEvents, Success
<1>3. /\ success.step = 0 /\ success.tool = r.tool /\ success.output = out
  BY DEF Success, Entry
<1>4. EntryOk(success, when)
  BY <1>1, <1>3 DEF EntryOk
<1>5. EventsOk(more, when) /\ NoOutput(more)
  BY <1>1, EventOk, EventsNone, DonationEventsOk
<1> HIDE DEF success, more
<1>6. EventsOk(<<success>>, when) /\ OneOutput(<<success>>, success)
  BY <1>4, EventsOne
<1>7. EventsOk(<<success>> \o more, when) /\ OneOutput(<<success>> \o more, success)
  BY <1>5, <1>6, EventsConcat
<1> QED
  BY <1>2, <1>7 DEF success

\* What a decision writes, and what its tool gave.
Outcome(when, m, a, r, now, out, events) ==
  /\ EventsOk(events, when)
  /\ out = None => NoOutput(events)
  /\ out # None =>
       /\ OneOutput(events, Success(a, r.tool, out))
       /\ GivenBy(m, r.tool, out)
       /\ Unused(r, now, m) => New(m, r.tool, out)

LEMMA WrittenOk ==
  ASSUME NEW when \in SUBSET Nat, 0 \in when, NEW m, Sane(m), m.step \in when,
         NEW by, NEW a \in Agents, NEW r, Asks(r), NEW now,
         NEW out, out = Ran(by, m, a, r, now),
         NEW told, told = IF Runs(by, r) THEN TaskEvents(m, r, out) ELSE <<>>,
         NEW events, events = told \o record_result(by, m, a, r, out)
  PROVE  Outcome(when, m, a, r, now, out, events)
<1>1. PICK result : result = record_result(by, m, a, r, out)
  OBVIOUS
<1>2. EventsOk(told, when) /\ NoOutput(told)
  BY TaskEventsOk, EventsNone
<1>3. when \subseteq Nat
  OBVIOUS
<1>4. CASE out = None
  <2>1. \/ result = <<>>
        \/ \E action : result = <<Event(a, action, m.step)>>
    BY <1>1, <1>4 DEF record_result
  <2>2. EventsOk(result, when) /\ NoOutput(result)
    BY <1>3, <2>1, EventOk, EventsNone
  <2> QED
    BY <1>1, <1>2, <1>4, <2>2, EventsConcat DEF Outcome
<1>5. CASE out # None
  <2>1. Runs(by, r) /\ r.tool \notin Dangerous /\ out = OutputOf(m, a, r, now)
    BY <1>5 DEF Ran
  <2>2. GivenBy(m, r.tool, out) /\ (Unused(r, now, m) => New(m, r.tool, out))
    BY <1>5, <2>1, OutputGiven
  <2>3. result = SuccessEvents(m, a, r, out)
    BY <1>1, <1>5, <2>1 DEF record_result
  <2>4. EventsOk(result, when) /\ OneOutput(result, Success(a, r.tool, out))
    BY <1>5, <2>2, <2>3, SuccessOk DEF GivenBy
  <2> QED
    BY <1>1, <1>2, <1>5, <2>2, <2>4, EventsConcat DEF Outcome
<1> QED
  BY <1>4, <1>5

\* The effects that write such entries, and others after them.
AllQuiet(s) == IsList(s) /\ \A i \in DOMAIN s : Quiet(s[i])

LEMMA WritesAre ==
  ASSUME NEW events, IsList(events), NEW s, s = Writes(events)
  PROVE  /\ IsList(s) /\ DOMAIN s = DOMAIN events
         /\ \A i \in DOMAIN s : s[i].do = "write" /\ s[i].entry = events[i]
<1>1. DOMAIN events = 1..Len(events) /\ Len(events) \in Nat
  BY ListShape
<1>2. s = [i \in 1..Len(events) |-> Write(events[i])]
  BY <1>1 DEF Writes
<1>3. DOMAIN s = DOMAIN events /\ (\A i \in DOMAIN s : s[i] = Write(events[i]))
      /\ s = [i \in 1..Len(events) |-> s[i]]
  BY <1>1, <1>2
<1>4. s \in Seq({s[i] : i \in DOMAIN s})
  BY <1>1, <1>3
<1>5. \A e : Write(e).do = "write" /\ Write(e).entry = e
  BY DEF Write
<1> QED
  BY <1>3, <1>4, <1>5 DEF IsList

LEMMA WrittenEffects ==
  ASSUME NEW when, NEW events, EventsOk(events, when),
         NEW t, EffectsOk(t, when)
  PROVE  EffectsOk(Writes(events) \o t, when)
<1>1. PICK w : w = Writes(events)
  OBVIOUS
<1>2. /\ IsList(w) /\ DOMAIN w = DOMAIN events
      /\ \A i \in DOMAIN w : w[i].do = "write" /\ w[i].entry = events[i]
  BY <1>1, WritesAre DEF EventsOk
<1>3. PICK s : s = w \o t
  OBVIOUS
<1>4. /\ IsList(s)
      /\ \A i \in DOMAIN w : i \in DOMAIN s /\ s[i] = w[i]
      /\ \A k \in DOMAIN s : k \in DOMAIN w \/ \E i \in DOMAIN t : k = Len(w) + i /\ s[k] = t[i]
  <2>1. IsList(w) /\ IsList(t)
    BY <1>2 DEF EffectsOk
  <2>2. Joined(w, t, s)
    BY <1>3, <2>1, ListBoth
  <2> QED
    BY <2>2 DEF Joined
<1>5. EffectsOk(s, when)
  <2>1. \A i \in DOMAIN w : EffectOk(w[i], when)
    BY <1>2 DEF EventsOk, EffectOk
  <2> QED
    BY <1>4, <2>1 DEF EffectsOk
<1> QED
  BY <1>1, <1>3, <1>5

LEMMA WrittenFollow ==
  ASSUME NEW when, NEW events, EventsOk(events, when),
         NEW t, AllQuiet(t), NEW again, NEW m,
         \/ NoOutput(events) /\ SameCore(again, m)
         \/ \E e : OneOutput(events, e) /\ SameCore(replay_log_entry(again, e), m)
  PROVE  Follows(Writes(events) \o t, again, m)
<1>1. PICK w : w = Writes(events)
  OBVIOUS
<1>2. /\ IsList(w) /\ DOMAIN w = DOMAIN events
      /\ \A i \in DOMAIN w : w[i].do = "write" /\ w[i].entry = events[i]
  BY <1>1, WritesAre DEF EventsOk
<1>3. PICK s : s = w \o t
  OBVIOUS
<1>4. /\ IsList(s)
      /\ \A i \in DOMAIN w : i \in DOMAIN s /\ s[i] = w[i]
      /\ \A k \in DOMAIN s : k \in DOMAIN w \/ \E i \in DOMAIN t : k = Len(w) + i /\ s[k] = t[i]
  <2>1. IsList(w) /\ IsList(t)
    BY <1>2 DEF AllQuiet
  <2>2. Joined(w, t, s)
    BY <1>3, <2>1, ListBoth
  <2> QED
    BY <2>2 DEF Joined
<1>5. CASE NoOutput(events) /\ SameCore(again, m)
  <2>1. \A i \in DOMAIN w : Quiet(w[i])
    BY <1>2, <1>5 DEF NoOutput, Quiet, Restored
  <2>2. \A i \in DOMAIN s : Quiet(s[i])
    BY <1>4, <2>1 DEF AllQuiet
  <2> QED
    BY <1>1, <1>3, <1>5, <2>2 DEF Follows, Abreast
<1>6. ASSUME NEW e, OneOutput(events, e), SameCore(replay_log_entry(again, e), m)
      PROVE  Follows(s, again, m)
  <2>1. PICK k \in DOMAIN events :
          events[k] = e /\ \A i \in DOMAIN events : i # k => events[i].output = None
    BY <1>6 DEF OneOutput
  <2>2. k \in DOMAIN s /\ s[k].entry = e
    BY <1>2, <1>4, <2>1
  <2>3. \A i \in 1..k : s[i].do = "write"
    <3>1. \A i \in 1..k : i \in DOMAIN w
      BY <1>2, ListShape
    <3> QED
      BY <1>2, <1>4, <3>1
  <2>4. \A i \in DOMAIN s : i # k => Quiet(s[i])
    <3>1. \A i \in DOMAIN w : i # k => Quiet(w[i])
      BY <1>2, <2>1 DEF Quiet, Restored
    <3> QED
      BY <1>4, <3>1 DEF AllQuiet
  <2> QED
    BY <1>6, <2>2, <2>3, <2>4 DEF Follows, Behind
<1> QED
  BY <1>1, <1>3, <1>5, <1>6

LEMMA QuietParts ==
  ASSUME NEW when
  PROVE  /\ AllQuiet(<<>>) /\ EffectsOk(<<>>, when)
         /\ AllQuiet(<<AddLog>>) /\ EffectsOk(<<AddLog>>, when)
         /\ AllQuiet(Scan) /\ EffectsOk(Scan, when)
<1>1. AddLog.do = "add" /\ Clear.do = "clear"
  BY DEF AddLog, Clear
<1>2. /\ Quiet(AddLog) /\ Quiet(Clear)
      /\ EffectOk(AddLog, when) /\ EffectOk(Clear, when)
  BY <1>1 DEF Quiet, EffectOk
<1>3. AllQuiet(<<>>) /\ EffectsOk(<<>>, when)
  BY ListNone DEF AllQuiet, EffectsOk
<1>4. AllQuiet(<<AddLog>>) /\ EffectsOk(<<AddLog>>, when)
  BY <1>2, ListOne DEF AllQuiet, EffectsOk
<1>5. AllQuiet(Scan) /\ EffectsOk(Scan, when)
  <2>1. Scan \in Seq({Clear, AddLog}) /\ \A k \in DOMAIN Scan : Scan[k] = Clear \/ Scan[k] = AddLog
    BY DEF Scan
  <2>2. IsList(Scan)
    BY <2>1, ListIn
  <2> QED
    BY <1>2, <2>1, <2>2 DEF AllQuiet, EffectsOk
<1> QED
  BY <1>3, <1>4, <1>5

\* What is left when an effect that writes nothing is done.
LEMMA RestFollows ==
  ASSUME NEW s, IsList(s), s # <<>>, Head(s).do # "write", NEW again, NEW m,
         Follows(s, again, m)
  PROVE  Abreast(s, again, m) /\ Follows(Tail(s), again, m)
<1>1. /\ 1 \in DOMAIN s /\ Head(s) = s[1]
      /\ \A i \in DOMAIN Tail(s) : i + 1 \in DOMAIN s /\ Tail(s)[i] = s[i + 1]
  BY TailIs
<1>2. ~ Behind(s, again, m)
  <2>1. ASSUME NEW k \in DOMAIN s, \A i \in 1..k : s[i].do = "write"
        PROVE  FALSE
    <3>1. 1 \in 1..k
      BY ListShape
    <3> QED
      BY <1>1, <2>1, <3>1
  <2> QED
    BY <2>1 DEF Behind
<1>3. Abreast(s, again, m)
  BY <1>2 DEF Follows
<1>4. Abreast(Tail(s), again, m)
  BY <1>1, <1>3 DEF Abreast
<1> QED
  BY <1>3, <1>4 DEF Follows

LEMMA RestOk ==
  ASSUME NEW s, s # <<>>, NEW when, EffectsOk(s, when)
  PROVE  EffectOk(Head(s), when) /\ EffectsOk(Tail(s), when)
<1>1. /\ 1 \in DOMAIN s /\ Head(s) = s[1] /\ IsList(Tail(s))
      /\ \A i \in DOMAIN Tail(s) : i + 1 \in DOMAIN s /\ Tail(s)[i] = s[i + 1]
  BY TailIs DEF EffectsOk
<1> QED
  BY <1>1 DEF EffectsOk

\* What is left when an entry is in the log.
LEMMA WriteFollows ==
  ASSUME NEW s, IsList(s), s # <<>>, Head(s).do = "write", NEW e, e = Head(s).entry,
         NEW when \in SUBSET Nat, EntryOk(e, when),
         NEW again, Sane(again), NEW m, Follows(s, again, m),
         NEW later, later = replay_log_entry(Stepped(again, e), e)
  PROVE  Follows(Tail(s), later, m)
<1>1. /\ 1 \in DOMAIN s /\ Head(s) = s[1]
      /\ \A i \in DOMAIN Tail(s) : i \in Nat /\ i + 1 \in DOMAIN s /\ Tail(s)[i] = s[i + 1]
      /\ \A k \in DOMAIN s : k # 1 => k - 1 \in DOMAIN Tail(s)
  BY TailIs
<1>2. PICK k : k = Stepped(again, e)
  OBVIOUS
<1>3. Sane(k) /\ SameCore(k, again)
  BY <1>2, SteppedSane DEF EntryOk
<1>4. SameCore(later, replay_log_entry(again, e))
  BY <1>2, <1>3, SameReplay
<1>5. Sane(later)
  BY <1>2, <1>3, ReplaySane DEF EntryOk
<1>6. ~ Restored(e) => SameCore(later, again)
  <2>1. ASSUME ~ Restored(e)
        PROVE  later = k
    BY <1>2, <1>3, <2>1, ReplayIs DEF Sane, Charged, Restores, Restored
  <2> QED
    BY <1>3, <2>1
<1>7. CASE Abreast(s, again, m)
  <2>1. Quiet(s[1])
    BY <1>1, <1>7 DEF Abreast, Open
  <2>2. SameCore(later, again)
    BY <1>1, <1>6, <2>1 DEF Quiet
  <2>3. SameCore(later, m)
    BY <1>7, <2>2 DEF Abreast, SameCore
  <2>4. Abreast(Tail(s), later, m)
    BY <1>1, <1>7, <2>3 DEF Abreast
  <2> QED
    BY <2>4 DEF Follows
<1>8. CASE Behind(s, again, m)
  <2>1. PICK l \in DOMAIN s :
          /\ \A i \in 1..l : s[i].do = "write"
          /\ \A i \in DOMAIN s : i # l => Quiet(s[i])
          /\ SameCore(replay_log_entry(again, s[l].entry), m)
    BY <1>8 DEF Behind
  <2>2. CASE l = 1
    <3>1. SameCore(later, m)
      BY <1>1, <1>4, <2>1, <2>2 DEF SameCore
    <3>2. \A i \in DOMAIN Tail(s) : Quiet(Tail(s)[i])
      <4>1. \A i \in DOMAIN Tail(s) : i + 1 # 1
        BY <1>1
      <4> QED
        BY <1>1, <2>1, <2>2, <4>1
    <3> QED
      BY <3>1, <3>2 DEF Follows, Abreast
  <2>3. CASE l # 1
    <3>1. Quiet(s[1]) /\ l - 1 \in DOMAIN Tail(s) /\ l \in Nat /\ (l - 1) + 1 = l
      BY <1>1, <2>1, <2>3, ListShape
    <3>2. SameCore(later, again)
      BY <1>1, <1>6, <3>1 DEF Quiet
    <3>3. SameCore(replay_log_entry(later, s[l].entry), replay_log_entry(again, s[l].entry))
      BY <1>5, <3>2, SameReplay
    <3>4. Tail(s)[l - 1] = s[l]
      BY <1>1, <3>1
    <3>5. SameCore(replay_log_entry(later, Tail(s)[l - 1].entry), m)
      BY <2>1, <3>3, <3>4 DEF SameCore
    <3>6. \A i \in 1..l - 1 : Tail(s)[i].do = "write"
      <4>1. DOMAIN Tail(s) = 1..Len(Tail(s)) /\ Len(Tail(s)) \in Nat
        BY ListTail, ListShape
      <4>2. \A i \in 1..l - 1 : i \in DOMAIN Tail(s) /\ i + 1 \in 1..l
        BY <3>1, <4>1
      <4> QED
        BY <1>1, <2>1, <4>2
    <3>7. \A i \in DOMAIN Tail(s) : i # l - 1 => Quiet(Tail(s)[i])
      <4>1. \A i \in DOMAIN Tail(s) : i # l - 1 => i + 1 # l
        BY <1>1, <3>1
      <4> QED
        BY <1>1, <2>1, <4>1
    <3> QED
      BY <3>1, <3>5, <3>6, <3>7 DEF Follows, Behind
  <2> QED
    BY <2>2, <2>3
<1> QED
  BY <1>7, <1>8 DEF Follows

LEMMA EffectsFirst ==
  ASSUME NEW e, NEW when, EffectOk(e, when), NEW s, EffectsOk(s, when)
  PROVE  EffectsOk(<<e>> \o s, when)
<1>1. PICK f : f = <<e>>
  OBVIOUS
<1>2. IsList(f) /\ IsList(s) /\ DOMAIN f = {1} /\ f[1] = e
  BY <1>1, ListOne DEF EffectsOk
<1>3. PICK r : r = f \o s
  OBVIOUS
<1>4. IsList(r) /\ \A k \in DOMAIN r :
        (\E i \in DOMAIN f : r[k] = f[i]) \/ \E i \in DOMAIN s : r[k] = s[i]
  <2>1. Joins(f \o s, f, s)
    BY <1>2, ListConcat
  <2> QED
    BY <1>3, <2>1 DEF Joins
<1>5. EffectsOk(r, when)
  BY <1>2, <1>4 DEF EffectsOk
<1> QED
  BY <1>1, <1>3, <1>5

LEMMA QuietFirst ==
  ASSUME NEW e, Quiet(e), NEW when, EffectOk(e, when),
         NEW s, AllQuiet(s), EffectsOk(s, when)
  PROVE  AllQuiet(<<e>> \o s) /\ EffectsOk(<<e>> \o s, when)
<1>1. IsList(<<e>>) /\ DOMAIN <<e>> = {1} /\ <<e>>[1] = e /\ IsList(s)
  BY ListOne DEF AllQuiet
<1>2. PICK f : f = <<e>>
  OBVIOUS
<1>3. PICK r : r = f \o s
  OBVIOUS
<1>4. IsList(f) /\ IsList(s) /\ DOMAIN f = {1} /\ f[1] = e
  BY <1>1, <1>2
<1>5. /\ IsList(r)
      /\ \A i \in DOMAIN f : i \in DOMAIN r /\ r[i] = f[i]
      /\ \A k \in DOMAIN r : k \in DOMAIN f \/ \E i \in DOMAIN s : k = Len(f) + i /\ r[k] = s[i]
  <2>1. IsList(f) /\ IsList(s)
    BY <1>4
  <2>2. Joined(f, s, r)
    BY <1>3, <2>1, ListBoth
  <2> QED
    BY <2>2 DEF Joined
<1>6. \A k \in DOMAIN r : r[k] = e \/ \E i \in DOMAIN s : r[k] = s[i]
  BY <1>4, <1>5
<1>7. \A i \in DOMAIN s : Quiet(s[i]) /\ EffectOk(s[i], when)
  BY DEF AllQuiet, EffectsOk
<1>8. \A k \in DOMAIN r : Quiet(r[k]) /\ EffectOk(r[k], when)
  BY <1>6, <1>7
<1>9. AllQuiet(r) /\ EffectsOk(r, when)
  BY <1>5, <1>8 DEF AllQuiet, EffectsOk
<1> QED
  BY <1>2, <1>3, <1>9

---------------------------------------------------------------------------
\* Every step keeps the log and the state together.

LEMMA RequestsAsk == \A r \in Requests : Asks(r)
BY GatewayAssumption DEF Asks

LEMMA PlanOne ==
  ASSUME NEW r, Asks(r)
  PROVE  PlanOk(<<r>>)
<1>1. IsList(<<r>>) /\ DOMAIN <<r>> = {1} /\ <<r>>[1] = r
  BY ListOne
<1> QED
  BY <1>1 DEF PlanOk

LEMMA PlanRest ==
  ASSUME NEW s, PlanOk(s), s # <<>>
  PROVE  Asks(Head(s)) /\ PlanOk(Tail(s))
<1>1. /\ 1 \in DOMAIN s /\ Head(s) = s[1] /\ IsList(Tail(s))
      /\ \A i \in DOMAIN Tail(s) : i + 1 \in DOMAIN s /\ Tail(s)[i] = s[i + 1]
  BY TailIs DEF PlanOk
<1> QED
  BY <1>1 DEF PlanOk

\* The steps entries may have when a request arrived.
StepsAfter(steps) == IF disturbed' THEN Nat ELSE 0..mem.step + steps

\* What a request begins with.
Begins(c, steps, effects) ==
  /\ Arrives(c, steps, effects)
  /\ EffectsOk(effects, StepsAfter(steps))
  /\ DOMAIN plan' = Clients /\ \A d \in Clients : PlanOk(plan'[d])
  /\ ~ disturbed' =>
       /\ ~ disturbed /\ ~ Overlaps
       /\ \A i \in DOMAIN effects : Quiet(effects[i]) \/ Open(effects[i], mem)

LEMMA SendOk ==
  ASSUME MemorySane, NEW c \in Clients, NEW r, Asks(r), NEW more, PlanOk(more), Send(c, r, more)
  PROVE  \E effects : Begins(c, 1, effects)
<1>1. PICK now, e : now = requests + 1 /\ e = Decide(r, now)
  OBVIOUS
<1>2. PICK effects : effects = <<AddLog, e>>
  OBVIOUS
<1>3. e.do = "decide" /\ e.request = r /\ e.now = now
  BY <1>1 DEF Decide
<1>4. PICK when : when = StepsAfter(1)
  OBVIOUS
<1>5. EffectOk(AddLog, when) /\ Quiet(AddLog)
  BY DEF EffectOk, Quiet, AddLog
<1>6. EffectOk(e, when)
  BY <1>3 DEF EffectOk
<1>7. IsList(effects) /\ \A i \in DOMAIN effects : effects[i] = AddLog \/ effects[i] = e
  <2>1. effects \in Seq({AddLog, e}) /\ \A i \in DOMAIN effects : effects[i] = AddLog \/ effects[i] = e
    BY <1>2
  <2> QED
    BY <2>1, ListIn
<1>8. EffectsOk(effects, when)
  BY <1>5, <1>6, <1>7 DEF EffectsOk
<1>9. Arrives(c, 1, effects)
  BY <1>1, <1>2 DEF Send
<1>10. DOMAIN plan' = Clients /\ \A d \in Clients : PlanOk(plan'[d])
  <2>1. plan' = [plan EXCEPT ![c] = more]
    BY DEF Send
  <2> QED
    BY <2>1 DEF MemorySane
<1>11. ASSUME ~ disturbed'
       PROVE  ~ disturbed /\ ~ Overlaps /\ ~ Reused(r, now)
  <2>1. disturbed' = (disturbed \/ Overlaps \/ Reused(r, now))
    BY <1>1 DEF Send
  <2> QED
    BY <1>11, <2>1
<1>12. ~ Reused(r, now) => Unused(r, now, mem)
  BY DEF Reused, Unused, ItsId
<1>13. ASSUME ~ disturbed'
       PROVE  \A i \in DOMAIN effects : Quiet(effects[i]) \/ Open(effects[i], mem)
  BY <1>3, <1>5, <1>7, <1>11, <1>12, <1>13 DEF Open
<1>14. Begins(c, 1, effects)
  BY <1>4, <1>8, <1>9, <1>10, <1>11, <1>13 DEF Begins
<1> QED
  BY <1>14

LEMMA CatalogOk ==
  ASSUME NEW c \in Clients, NEW s \in Seedboxes, ImportCatalog(c, s)
  PROVE  \E r, more : Asks(r) /\ PlanOk(more) /\ Send(c, r, more)
<1> DEFINE Row(f) == Request("index_seedbox_file", TRUE, s, f, None)
           rows == [i \in 1..Cardinality(FileIds) |-> Row(SetToSeq(FileIds)[i])]
<1>1. FileIds # {} /\ Send(c, Head(rows), Tail(rows))
  BY DEF ImportCatalog
<1>2. Cardinality(FileIds) \in Nat /\ Cardinality(FileIds) # 0
  BY <1>1, GatewayAssumption, FS_CardinalityType, FS_EmptySet
<1>3. \A i \in 1..Cardinality(FileIds) : Asks(rows[i])
  BY DEF Asks, Request
<1>4. DOMAIN rows = 1..Cardinality(FileIds) /\ rows = [i \in 1..Cardinality(FileIds) |-> rows[i]]
  OBVIOUS
<1> HIDE DEF rows, Row
<1>5. PlanOk(rows) /\ rows # <<>>
  <2>1. rows \in Seq({rows[i] : i \in DOMAIN rows})
    BY <1>2, <1>4
  <2>2. IsList(rows)
    BY <2>1 DEF IsList
  <2>3. 1 \in DOMAIN rows
    BY <1>2, <1>4
  <2> QED
    BY <1>3, <1>4, <2>2, <2>3, ListNone DEF PlanOk
<1> QED
  BY <1>1, <1>5, PlanRest

LEMMA ArrivalOk ==
  ASSUME Typed, MemorySane, NEW c \in Clients, Arrival(c)
  PROVE  \E steps, effects : steps \in {0, 1} /\ Begins(c, steps, effects)
<1>1. PlanOk(<<>>)
  BY ListNone DEF PlanOk
<1>2. ASSUME NEW r \in Requests, ToolCall(c, r) \/ handle_agentic_request(c, r)
      PROVE  \E effects : Begins(c, 1, effects)
  <2>1. Send(c, r, <<>>)
    BY <1>2 DEF ToolCall, handle_agentic_request
  <2> QED
    BY <1>1, <2>1, RequestsAsk, SendOk
<1>3. ASSUME NEW s \in Seedboxes, BuyCommunitySeedbox(c, s)
      PROVE  \E effects : Begins(c, 1, effects)
  <2>1. PICK r : r = Request("register_seedbox", TRUE, s, None, FALSE)
    OBVIOUS
  <2>2. PICK q : q = Request("submit_seedbox_proof", TRUE, s, None, None)
    OBVIOUS
  <2>3. Send(c, r, <<q>>)
    BY <1>3, <2>1, <2>2 DEF BuyCommunitySeedbox
  <2>4. Asks(r) /\ Asks(q)
    BY <2>1, <2>2, GatewayAssumption DEF Asks, Request
  <2>5. PlanOk(<<q>>)
    BY <2>4, PlanOne
  <2> QED
    BY <2>3, <2>4, <2>5, SendOk
<1>4. ASSUME NEW s \in Seedboxes, ImportCatalog(c, s)
      PROVE  \E effects : Begins(c, 1, effects)
  BY <1>4, CatalogOk, SendOk
<1>5. ASSUME SendNext(c)
      PROVE  \E effects : Begins(c, 1, effects)
  <2>1. plan[c] # <<>> /\ PlanOk(plan[c]) /\ Send(c, Head(plan[c]), Tail(plan[c]))
    BY <1>5 DEF SendNext, MemorySane
  <2> QED
    BY <2>1, PlanRest, SendOk
<1>6. ASSUME NEW steps \in {0, 1}, NEW effects, Arrives(c, steps, effects),
             EffectsOk(effects, StepsAfter(steps)), plan' = plan,
             ~ disturbed' => ~ disturbed /\ ~ Overlaps /\ AllQuiet(effects)
      PROVE  Begins(c, steps, effects)
  <2>1. DOMAIN plan' = Clients /\ \A d \in Clients : PlanOk(plan'[d])
    BY <1>6 DEF MemorySane
  <2>2. ~ disturbed' => \A i \in DOMAIN effects : Quiet(effects[i])
    BY <1>6 DEF AllQuiet
  <2> QED
    BY <1>6, <2>1, <2>2 DEF Begins
<1>7. ASSUME NEW e \in Reports, SecurityReport(c, e)
      PROVE  \E effects : Begins(c, 1, effects)
  <2>1. PICK w : w = Write(e)
    OBVIOUS
  <2>2. PICK effects : effects = <<w>> \o Scan
    OBVIOUS
  <2>3. /\ Arrives(c, 1, effects) /\ plan' = plan
        /\ disturbed' = (disturbed \/ Overlaps \/ Misleads(e))
    BY <1>7, <2>1, <2>2 DEF SecurityReport
  <2>4. w.do = "write" /\ w.entry = e
    BY <2>1 DEF Write
  <2>5. e.step \in Nat /\ (e.output # None => Given(e.tool, e.output))
    BY GatewayAssumption DEF EntryShape
  <2>6. PICK when : when = StepsAfter(1)
    OBVIOUS
  <2>7. e.step \in when
    <3>1. CASE disturbed'
      BY <2>5, <2>6, <3>1 DEF StepsAfter
    <3>2. CASE ~ disturbed'
      <4>1. ~ (e.step > mem.step) /\ mem.step \in Nat
        BY <2>3, <3>2 DEF Misleads, MemorySane, Sane, Shape
      <4>2. e.step \in 0..mem.step + 1
        BY <2>5, <4>1
      <4> QED
        BY <2>6, <3>2, <4>2 DEF StepsAfter
    <3> QED
      BY <3>1, <3>2
  <2>8. EffectOk(w, when)
    BY <2>4, <2>5, <2>7 DEF EffectOk, EntryOk
  <2>9. EffectsOk(effects, when)
    BY <2>2, <2>8, EffectsFirst, QuietParts
  <2>10. ~ disturbed' => ~ disturbed /\ ~ Overlaps /\ AllQuiet(effects)
    <3>1. ASSUME ~ disturbed'
          PROVE  Quiet(w) /\ ~ disturbed /\ ~ Overlaps
      BY <2>3, <2>4, <3>1 DEF Quiet, Misleads
    <3>2. Quiet(w) => AllQuiet(effects)
      BY <2>2, <2>8, QuietFirst, QuietParts
    <3> QED
      BY <3>1, <3>2
  <2> QED
    BY <1>6, <2>3, <2>6, <2>9, <2>10
<1>8. ASSUME AuditSeedboxes(c)
      PROVE  \E effects : Begins(c, 1, effects)
  <2>1. PICK w : w = Audit(SetToSeq(Registered(mem)), Cardinality(Registered(mem)))
    OBVIOUS
  <2>2. PICK effects : effects = <<w>> \o Scan
    OBVIOUS
  <2>3. w.do = "audit"
    BY <2>1 DEF Audit
  <2>4. PICK when : when = StepsAfter(1)
    OBVIOUS
  <2>5. Quiet(w) /\ EffectOk(w, when)
    BY <2>3 DEF Quiet, EffectOk
  <2>6. AllQuiet(effects) /\ EffectsOk(effects, when)
    BY <2>2, <2>5, QuietFirst, QuietParts
  <2>7. Arrives(c, 1, effects) /\ disturbed' = (disturbed \/ Overlaps) /\ plan' = plan
    BY <1>8, <2>1, <2>2 DEF AuditSeedboxes
  <2>8. ~ disturbed' => ~ disturbed /\ ~ Overlaps /\ AllQuiet(effects)
    BY <2>6, <2>7
  <2> QED
    BY <1>6, <2>4, <2>6, <2>7, <2>8
<1>9. ASSUME Query(c)
      PROVE  \E effects : Begins(c, 0, effects)
  <2>1. Arrives(c, 0, <<AddLog>>) /\ disturbed' = (disturbed \/ Overlaps) /\ plan' = plan
    BY <1>9 DEF Query
  <2>2. AllQuiet(<<AddLog>>) /\ EffectsOk(<<AddLog>>, StepsAfter(0))
    BY QuietParts
  <2>3. ~ disturbed' => ~ disturbed /\ ~ Overlaps /\ AllQuiet(<<AddLog>>)
    BY <2>1, <2>2
  <2> QED
    BY <1>6, <2>1, <2>2, <2>3
<1> QED
  BY <1>2, <1>3, <1>4, <1>5, <1>7, <1>8, <1>9 DEF Arrival

LEMMA EffectsIn ==
  ASSUME NEW when, NEW later, when \subseteq later
  PROVE  \A s : EffectsOk(s, when) => EffectsOk(s, later)
BY DEF EffectsOk, EffectOk, EntryOk

LEMMA StepsAre ==
  ASSUME MemorySane
  PROVE  /\ Steps \in SUBSET Nat /\ 0 \in Steps /\ mem.step \in Steps /\ mem.step \in Nat
         /\ ~ disturbed => Steps = 0..mem.step
<1>1. mem.step \in Nat
  BY DEF MemorySane, Sane, Shape
<1> QED
  BY <1>1 DEF Steps

\* What an effect leaves: the state, the log and what is still to come.
Advanced(c, s) ==
  /\ doing' = [doing EXCEPT ![c] = s]
  /\ EffectsOk(s, Steps)
  /\ Sane(mem') /\ mem'.step = mem.step
  /\ Sane(reload_runtime_state(log'))
  /\ reload_runtime_state(log').step \in Steps
  /\ Follows(doing[c], reload_runtime_state(log), mem) =>
       Follows(s, reload_runtime_state(log'), mem')

LEMMA ScanAdvances ==
  ASSUME MemorySane, NEW c \in Clients, doing[c] # <<>>, Head(doing[c]).do # "write",
         doing' = [doing EXCEPT ![c] = Tail(doing[c])], mem' = mem, log' = log
  PROVE  Advanced(c, Tail(doing[c]))
<1>1. EffectsOk(doing[c], Steps)
  BY DEF MemorySane
<1>2. PICK s, when : s = doing[c] /\ when = Steps
  OBVIOUS
<1>3. EffectsOk(Tail(s), when)
  BY <1>1, <1>2, RestOk
<1>4. PICK again : again = reload_runtime_state(log)
  OBVIOUS
<1>5. IsList(s) /\ s # <<>> /\ Head(s).do # "write"
  BY <1>1, <1>2 DEF EffectsOk
<1>6. Follows(s, again, mem) => Follows(Tail(s), again, mem)
  BY <1>5, RestFollows
<1> QED
  BY <1>2, <1>3, <1>4, <1>6 DEF Advanced, MemorySane

LEMMA WriteAdvances ==
  ASSUME Typed, MemorySane, NEW c \in Clients, WriteEntry(c)
  PROVE  Advanced(c, Tail(doing[c]))
<1>1. PICK s : s = doing[c]
  OBVIOUS
<1>2. PICK e : e = Head(s).entry
  OBVIOUS
<1>3. /\ s # <<>> /\ Head(s).do = "write" /\ doing' = [doing EXCEPT ![c] = Tail(s)]
      /\ log' = Append(log, e) /\ mem' = mem
  BY <1>1, <1>2 DEF WriteEntry, Doing, Idle, Done, Then
<1>4. PICK when : when = Steps
  OBVIOUS
<1>5. /\ EffectsOk(s, when) /\ Sane(mem)
      /\ Sane(reload_runtime_state(log)) /\ reload_runtime_state(log).step \in when
  BY <1>1, <1>4 DEF MemorySane
<1>6. IsList(s) /\ EffectOk(Head(s), when) /\ EffectsOk(Tail(s), when)
  <2>1. IsList(s)
    BY <1>5 DEF EffectsOk
  <2> QED
    BY <1>3, <1>5, <2>1, RestOk
<1>7. EntryOk(e, when)
  BY <1>2, <1>3, <1>6 DEF EffectOk
<1>8. PICK again : again = reload_runtime_state(log)
  OBVIOUS
<1>9. PICK later : later = replay_log_entry(Stepped(again, e), e)
  OBVIOUS
<1>10. reload_runtime_state(log') = later
  BY <1>3, <1>8, <1>9, ReloadAppend DEF Typed
<1>11. Sane(again) /\ again.step \in when
  BY <1>5, <1>8
<1>12. Sane(later) /\ later.step \in when
  BY <1>7, <1>9, <1>11, OneMoreSane
<1>13. PICK m : m = mem
  OBVIOUS
<1>14. Follows(s, again, m) => Follows(Tail(s), later, m)
  <2>1. when \in SUBSET Nat
    BY <1>4, StepsAre
  <2> QED
    BY <1>2, <1>3, <1>6, <1>7, <1>9, <1>11, <2>1, WriteFollows
<1> QED
  BY <1>1, <1>3, <1>4, <1>5, <1>6, <1>8, <1>10, <1>12, <1>13, <1>14 DEF Advanced

LEMMA DecisionAdvances ==
  ASSUME Typed, MemorySane, NEW c \in Clients, DecideAndRun(c)
  PROVE  \E s : Advanced(c, s)
<1>1. PICK s : s = doing[c]
  OBVIOUS
<1>2. /\ s # <<>> /\ Head(s).do = "decide" /\ log' = log
      /\ AgentOf[c] \in banned => doing' = [doing EXCEPT ![c] = Tail(s)] /\ mem' = mem
  BY <1>1 DEF DecideAndRun, Doing, Idle, Done, Then
<1>3. CASE AgentOf[c] \in banned
  BY <1>1, <1>2, <1>3, ScanAdvances
<1>4. CASE AgentOf[c] \notin banned
  <2>1. PICK when, m, by, a, r, now, out, told, events :
          /\ when = Steps /\ m = mem /\ by = mode /\ a = AgentOf[c]
          /\ r = Head(s).request /\ now = Head(s).now
          /\ out = Ran(by, m, a, r, now)
          /\ told = IF Runs(by, r) THEN TaskEvents(m, r, out) ELSE <<>>
          /\ events = told \o record_result(by, m, a, r, out)
    OBVIOUS
  <2>2. /\ mem' = IF out = None THEN m ELSE Applied(m, r.tool, out)
        /\ doing' = [doing EXCEPT ![c] = Writes(events) \o Scan]
    BY <1>1, <1>4, <2>1 DEF DecideAndRun, Then
  <2>3. /\ EffectsOk(s, when) /\ Sane(m)
        /\ Sane(reload_runtime_state(log)) /\ reload_runtime_state(log).step \in when
    BY <1>1, <2>1 DEF MemorySane
  <2>4. IsList(s) /\ EffectOk(Head(s), when)
    <3>1. IsList(s)
      BY <2>3 DEF EffectsOk
    <3> QED
      BY <1>2, <2>3, <3>1, RestOk
  <2>5. Asks(r)
    BY <1>2, <2>1, <2>4 DEF EffectOk
  <2>6. a \in Agents
    BY <2>1, GatewayAssumption
  <2>7. when \in SUBSET Nat /\ 0 \in when /\ m.step \in when
    BY <2>1, StepsAre
  <2>8. /\ EventsOk(events, when)
        /\ out = None => NoOutput(events)
        /\ out # None =>
             /\ OneOutput(events, Success(a, r.tool, out))
             /\ GivenBy(m, r.tool, out)
             /\ Unused(r, now, m) => New(m, r.tool, out)
    <3>1. /\ out = Ran(by, m, a, r, now)
          /\ told = IF Runs(by, r) THEN TaskEvents(m, r, out) ELSE <<>>
          /\ events = told \o record_result(by, m, a, r, out)
      BY <2>1
    <3>2. Outcome(when, m, a, r, now, out, events)
      BY <2>3, <2>5, <2>6, <2>7, <3>1, WrittenOk
    <3> QED
      BY <3>2 DEF Outcome
  <2>9. PICK t : t = Scan
    OBVIOUS
  <2>10. AllQuiet(t) /\ EffectsOk(t, when)
    BY <2>9, QuietParts
  <2>11. EffectsOk(Writes(events) \o t, when)
    BY <2>8, <2>10, WrittenEffects
  <2>12. Sane(mem') /\ mem'.step = m.step
    <3>1. CASE out = None
      BY <2>2, <2>3, <2>7, <3>1
    <3>2. CASE out # None
      <4>1. Sane(Applied(m, r.tool, out)) /\ Applied(m, r.tool, out).step = m.step
        BY <2>3, <2>8, <3>2, AppliedSane
      <4> QED
        BY <2>2, <2>7, <3>2, <4>1
    <3> QED
      BY <3>1, <3>2
  <2>13. PICK again : again = reload_runtime_state(log)
    OBVIOUS
  <2>14. ASSUME Follows(s, again, m)
         PROVE  Follows(Writes(events) \o t, again, mem')
    <3>1. Abreast(s, again, m)
      BY <1>2, <2>4, <2>14, RestFollows
    <3>2. SameCore(again, m) /\ (Quiet(Head(s)) \/ Open(Head(s), m))
      BY <1>2, <2>4, <3>1, TailIs DEF Abreast
    <3>3. Unused(r, now, m)
      BY <1>2, <2>1, <3>2 DEF Quiet, Open
    <3>4. CASE out = None
      <4>1. NoOutput(events) /\ SameCore(again, mem')
        BY <2>2, <2>8, <3>2, <3>4
      <4> QED
        BY <2>8, <2>10, <4>1, WrittenFollow
    <3>5. CASE out # None
      <4>1. PICK e : e = Success(a, r.tool, out)
        OBVIOUS
      <4>2. e.action = "tool_execution_success" /\ e.tool = r.tool /\ e.output = out
        BY <4>1 DEF Success, Entry
      <4>3. New(again, r.tool, out)
        <5>1. again.boxes = m.boxes /\ again.donations = m.donations /\ again.proofs = m.proofs
          BY <3>2 DEF SameCore
        <5>2. Registered(again) = Registered(m)
          BY <5>1 DEF Registered
        <5> QED
          BY <2>8, <3>3, <3>5, <5>1, <5>2 DEF New
      <4>4. Sane(again)
        BY <2>3, <2>13
      <4>5. replay_log_entry(again, e) = Applied(again, r.tool, out)
        BY <2>3, <3>5, <4>2, <4>3, <4>4, NewIsReplayed
      <4>6. SameCore(Applied(again, r.tool, out), Applied(m, r.tool, out))
        BY <2>3, <3>2, <4>4, SameApplied DEF Sane
      <4>7. OneOutput(events, e) /\ SameCore(replay_log_entry(again, e), mem')
        BY <2>2, <2>8, <3>5, <4>1, <4>5, <4>6
      <4> QED
        BY <2>8, <2>10, <4>7, WrittenFollow
    <3> QED
      BY <3>4, <3>5
  <2>15. Advanced(c, Writes(events) \o t)
    BY <1>1, <1>2, <2>1, <2>2, <2>3, <2>9, <2>11, <2>12, <2>13, <2>14 DEF Advanced
  <2> QED
    BY <2>15
<1> QED
  BY <1>3, <1>4

LEMMA EffectsConcat ==
  ASSUME NEW s, NEW t, NEW when, EffectsOk(s, when), EffectsOk(t, when)
  PROVE  /\ EffectsOk(s \o t, when)
         /\ \A again, m : Abreast(s, again, m) /\ Abreast(t, again, m)
              => Abreast(s \o t, again, m)
<1>1. IsList(s) /\ IsList(t)
  BY DEF EffectsOk
<1>2. PICK r : r = s \o t
  OBVIOUS
<1>3. IsList(r) /\ \A k \in DOMAIN r :
        (\E i \in DOMAIN s : r[k] = s[i]) \/ \E i \in DOMAIN t : r[k] = t[i]
  BY <1>1, <1>2, ListConcat DEF Joins
<1>4. EffectsOk(r, when)
  BY <1>3 DEF EffectsOk
<1>5. ASSUME NEW again, NEW m, Abreast(s, again, m), Abreast(t, again, m)
      PROVE  Abreast(r, again, m)
  BY <1>3, <1>5 DEF Abreast
<1> QED
  BY <1>2, <1>4, <1>5

\* A charge is what a start would read from its entry.
LEMMA ChargeOk ==
  ASSUME NEW m, Sane(m), NEW box \in Seedboxes, NEW owner,
         NEW when, m.step \in when, NEW e, e = MissingProof(owner, box, m.step)
  PROVE  /\ EntryOk(e, when)
         /\ Sane([m EXCEPT !.audited = @ \cup {box}])
         /\ [m EXCEPT !.audited = @ \cup {box}].step = m.step
         /\ \A again : Sane(again) /\ SameCore(again, m) =>
              SameCore(replay_log_entry(again, e), [m EXCEPT !.audited = @ \cup {box}])
<1>1. /\ e.action = "seedbox_missing_proof" /\ e.tool = "audit" /\ e.step = m.step
      /\ e.output = [box |-> box] /\ e.output # None
  BY GatewayAssumption DEF MissingProof, Entry
<1>2. e.output.box = box /\ Charged(e)
  BY <1>1 DEF Charged
<1>3. Given(e.tool, e.output)
  BY <1>1 DEF Given
<1>4. Shape(m) /\ m.step \in Nat
  BY DEF Sane, Shape
<1>5. EntryOk(e, when)
  BY <1>1, <1>3, <1>4 DEF EntryOk
<1>6. PICK k : k = [m EXCEPT !.audited = m.audited \cup {box}]
  OBVIOUS
<1>7. PICK r : r = replay_log_entry(m, e)
  OBVIOUS
<1>8. r = k
  <2>1. Fielded(k, m.boxes, m.donations, m.proofs, m.tasks, m.files, m.audited \cup {box}, m.step)
    BY <1>4, <1>6, FieldSet
  <2>2. Fielded(r, m.boxes, m.donations, m.proofs, m.tasks, m.files,
                m.audited \cup {e.output.box}, m.step)
    BY <1>2, <1>4, <1>7, ReplayIs
  <2> QED
    BY <1>2, <2>1, <2>2 DEF Fielded
<1>9. Sane(r) /\ r.step = m.step
  BY <1>3, <1>7, ReplaySane
<1>10. ASSUME NEW again, Sane(again), SameCore(again, m)
       PROVE  SameCore(replay_log_entry(again, e), r)
  BY <1>7, <1>10, SameReplay
<1> QED
  BY <1>5, <1>6, <1>8, <1>9, <1>10

LEMMA AuditAdvances ==
  ASSUME Typed, MemorySane, NEW c \in Clients, AuditNext(c)
  PROVE  \E s : Advanced(c, s)
<1>1. PICK s : s = doing[c]
  OBVIOUS
<1>2. PICK e, after : e = Head(s) /\ after = Tail(s)
  OBVIOUS
<1>3. PICK a, w : /\ a = Audit(Tail(e.boxes), e.count)
                  /\ w = Charge(Head(e.boxes), mem.boxes[Head(e.boxes)].owner)
  OBVIOUS
<1>4. s # <<>> /\ e.do = "audit" /\ log' = log /\ mem' = mem
  BY <1>1, <1>2 DEF AuditNext, Doing, Idle
<1>5. PICK rest : rest = <<a>> \o after
  OBVIOUS
<1>6. \/ doing' = [doing EXCEPT ![c] = <<>>]
      \/ doing' = [doing EXCEPT ![c] = after]
      \/ doing' = [doing EXCEPT ![c] = <<w>> \o rest]
      \/ doing' = [doing EXCEPT ![c] = rest]
  BY <1>1, <1>2, <1>3, <1>5 DEF AuditNext, Then, Done
<1>7. PICK when, m, again :
        when = Steps /\ m = mem /\ again = reload_runtime_state(log)
  OBVIOUS
<1>8. /\ EffectsOk(s, when) /\ Sane(m) /\ Sane(again) /\ again.step \in when
  BY <1>1, <1>7 DEF MemorySane
<1>9. IsList(s) /\ EffectsOk(after, when)
  <2>1. IsList(s)
    BY <1>8 DEF EffectsOk
  <2> QED
    BY <1>2, <1>4, <1>8, <2>1, RestOk
<1>10. Follows(s, again, m) => SameCore(again, m) /\ Abreast(after, again, m)
  <2>1. ASSUME Follows(s, again, m)
        PROVE  Abreast(s, again, m)
    BY <1>2, <1>4, <1>9, <2>1, RestFollows
  <2>2. \A i \in DOMAIN after : i + 1 \in DOMAIN s /\ after[i] = s[i + 1]
    BY <1>2, <1>4, <1>9, TailIs
  <2> QED
    BY <2>1, <2>2 DEF Abreast
<1>11. /\ Quiet(a) /\ EffectOk(a, when)
       /\ Quiet(w) /\ EffectOk(w, when)
  <2>1. a.do = "audit" /\ w.do = "charge"
    BY <1>3 DEF Audit, Charge
  <2> QED
    BY <2>1 DEF Quiet, EffectOk
<1>12. ASSUME NEW x, Quiet(x), EffectOk(x, when), NEW y, EffectsOk(y, when)
       PROVE  /\ EffectsOk(<<x>> \o y, when)
              /\ \A k, l : Abreast(y, k, l) => Abreast(<<x>> \o y, k, l)
  <2>1. PICK f : f = <<x>>
    OBVIOUS
  <2>2. EffectsOk(f, when) /\ AllQuiet(f)
    BY <1>12, <2>1, ListOne DEF EffectsOk, AllQuiet
  <2>3. /\ EffectsOk(f \o y, when)
        /\ \A k, l : Abreast(f, k, l) /\ Abreast(y, k, l) => Abreast(f \o y, k, l)
    BY <1>12, <2>2, EffectsConcat
  <2>4. \A k, l : Abreast(y, k, l) => Abreast(f, k, l)
    BY <2>2 DEF Abreast, AllQuiet
  <2> QED
    BY <2>1, <2>3, <2>4
<1>13. EffectsOk(rest, when) /\ (Abreast(after, again, m) => Abreast(rest, again, m))
  BY <1>5, <1>9, <1>11, <1>12
<1>14. PICK full : full = <<w>> \o rest
  OBVIOUS
<1>15. EffectsOk(full, when) /\ (Abreast(rest, again, m) => Abreast(full, again, m))
  BY <1>11, <1>12, <1>13, <1>14
<1>16. EffectsOk(<<>>, when) /\ (SameCore(again, m) => Abreast(<<>>, again, m))
  BY QuietParts, ListNone DEF Abreast
<1>17. ASSUME NEW left, doing' = [doing EXCEPT ![c] = left], EffectsOk(left, when),
              Follows(s, again, m) => Abreast(left, again, m)
       PROVE  Advanced(c, left)
  BY <1>1, <1>4, <1>7, <1>8, <1>17 DEF Advanced, Follows
<1> QED
  BY <1>6, <1>9, <1>10, <1>13, <1>14, <1>15, <1>16, <1>17

LEMMA ChargeAdvances ==
  ASSUME Typed, MemorySane, NEW c \in Clients, ChargeOwner(c)
  PROVE  \E s : Advanced(c, s)
<1>1. PICK s : s = doing[c]
  OBVIOUS
<1>2. PICK e, after : e = Head(s) /\ after = Tail(s)
  OBVIOUS
<1>3. s # <<>> /\ e.do = "charge" /\ log' = log /\ Sound(s)
  BY <1>1, <1>2 DEF ChargeOwner, Doing, Idle, Typed
<1>4. Plain(after) /\ EffectSound(e)
  BY <1>2, <1>3, SoundRest
<1>5. PICK box, owner : box = e.box /\ owner = e.owner
  OBVIOUS
<1>6. PICK m, when, again :
        m = mem /\ when = Steps /\ again = reload_runtime_state(log)
  OBVIOUS
<1>7. PICK p : p = MissingProof(owner, box, m.step)
  OBVIOUS
<1>8. PICK events : events = <<p>>
  OBVIOUS
<1>9. Writes(events) = <<Write(p)>>
  BY <1>8 DEF Writes
<1>10. /\ doing' = [doing EXCEPT ![c] = Writes(events) \o after]
       /\ mem' = [m EXCEPT !.audited = @ \cup {box}]
  BY <1>1, <1>2, <1>5, <1>6, <1>7, <1>9 DEF ChargeOwner, Then
<1>11. /\ EffectsOk(s, when) /\ Sane(m) /\ Sane(again) /\ again.step \in when
       /\ m.step \in when /\ box \in Seedboxes
  <2>1. m.step \in when
    BY <1>6, StepsAre
  <2> QED
    BY <1>1, <1>3, <1>4, <1>5, <1>6, <2>1 DEF MemorySane, EffectSound
<1>12. IsList(s) /\ EffectsOk(after, when)
  <2>1. IsList(s)
    BY <1>11 DEF EffectsOk
  <2> QED
    BY <1>2, <1>3, <1>11, <2>1, RestOk
<1>13. /\ EntryOk(p, when)
       /\ Sane(mem') /\ mem'.step = m.step
       /\ SameCore(again, m) => SameCore(replay_log_entry(again, p), mem')
  BY <1>7, <1>10, <1>11, ChargeOk
<1>14. EventsOk(events, when) /\ OneOutput(events, p)
  BY <1>8, <1>13, EventsOne
<1>15. EffectsOk(Writes(events) \o after, when)
  BY <1>12, <1>14, WrittenEffects
<1>16. ASSUME Follows(s, again, m)
       PROVE  Follows(Writes(events) \o after, again, mem')
  <2>1. Abreast(s, again, m)
    BY <1>2, <1>3, <1>12, <1>16, RestFollows
  <2>2. \A i \in DOMAIN after : i + 1 \in DOMAIN s /\ after[i] = s[i + 1]
    BY <1>2, <1>3, <1>12, TailIs
  <2>3. AllQuiet(after)
    BY <1>4, <1>12, <2>1, <2>2 DEF Abreast, Open, Plain, AllQuiet, EffectsOk
  <2>4. SameCore(replay_log_entry(again, p), mem')
    BY <1>13, <2>1 DEF Abreast
  <2> QED
    BY <1>14, <2>3, <2>4, WrittenFollow
<1>17. Advanced(c, Writes(events) \o after)
  BY <1>1, <1>3, <1>6, <1>10, <1>11, <1>13, <1>15, <1>16 DEF Advanced
<1> QED
  BY <1>17

LEMMA EffectAdvances ==
  ASSUME Typed, MemorySane, NEW c \in Clients, Effect(c)
  PROVE  /\ doing[c] # <<>> /\ \E s : Advanced(c, s)
         /\ requests' = requests /\ plan' = plan /\ disturbed' = disturbed
<1>1. doing[c] # <<>> /\ requests' = requests /\ plan' = plan /\ disturbed' = disturbed
  BY DEF Effect, ScanAgain, ScanLines, DecideAndRun, AuditNext, ChargeOwner, WriteEntry,
         Doing, Idle
<1>2. ASSUME ScanAgain(c) \/ ScanLines(c)
      PROVE  Advanced(c, Tail(doing[c]))
  <2>1. /\ Head(doing[c]).do # "write" /\ mem' = mem /\ log' = log
        /\ doing' = [doing EXCEPT ![c] = Tail(doing[c])]
    BY <1>2 DEF ScanAgain, ScanLines, Doing, Done, Then
  <2> QED
    BY <1>1, <2>1, ScanAdvances
<1>3. \E s : Advanced(c, s)
  BY <1>2, DecisionAdvances, AuditAdvances, ChargeAdvances, WriteAdvances DEF Effect
<1> QED
  BY <1>1, <1>3

\* A request that arrives disturbs none of those there are.
LEMMA BeginsIs ==
  ASSUME Typed, MemorySane, NEW c \in Clients, NEW steps \in {0, 1}, NEW effects,
         Begins(c, steps, effects)
  PROVE  /\ doing' = [doing EXCEPT ![c] = effects]
         /\ log' = log /\ Sane(mem') /\ SameCore(mem, mem')
         /\ Steps \subseteq Steps'
         /\ EffectsOk(effects, Steps')
         /\ DOMAIN plan' = Clients /\ \A d \in Clients : PlanOk(plan'[d])
         /\ ~ disturbed' =>
              /\ ~ disturbed /\ \A d \in Clients : doing[d] = <<>>
              /\ \A i \in DOMAIN effects : Quiet(effects[i]) \/ Open(effects[i], mem')
<1>1. /\ mem' = [mem EXCEPT !.step = @ + steps]
      /\ doing' = [doing EXCEPT ![c] = effects] /\ log' = log
  BY DEF Begins, Arrives
<1>2. Sane(mem) /\ Shape(mem) /\ mem.step \in Nat
  BY DEF MemorySane, Sane, Shape
<1>3. PICK m : m = mem
  OBVIOUS
<1>4. PICK k, step : step = m.step + steps /\ k = [m EXCEPT !.step = step]
  OBVIOUS
<1>5. mem' = k /\ step \in Nat /\ m.step <= step
  BY <1>1, <1>2, <1>3, <1>4
<1>6. Fielded(k, m.boxes, m.donations, m.proofs, m.tasks, m.files, m.audited, step)
  BY <1>2, <1>3, <1>4, FieldSet
<1>7. SameCore(m, k) /\ k.step = step
  BY <1>6 DEF Fielded, SameCore
<1>8. Sane(k)
  <2>1. Sane(m)
    BY <1>2, <1>3
  <2>2. Shape(k)
    BY <1>2, <1>3, <1>5, <1>6 DEF Fielded, Shape
  <2>3. Registered(k) = Registered(m)
    BY <1>7 DEF SameCore, Registered
  <2>4. TasksHeld(k)
    BY <1>7, <2>1, <2>3 DEF Sane, TasksHeld, SameCore
  <2> QED
    BY <2>2, <2>4 DEF Sane
<1>9. /\ Steps = IF disturbed THEN Nat ELSE 0..m.step
      /\ Steps' = IF disturbed' THEN Nat ELSE 0..step
      /\ Steps' = StepsAfter(steps)
  BY <1>3, <1>4, <1>5, <1>7 DEF Steps, StepsAfter
<1>10. ~ disturbed' => ~ disturbed /\ \A d \in Clients : doing[d] = <<>>
  BY DEF Begins, Overlaps, Idle
<1>11. Steps \subseteq Steps'
  <2>1. 0..m.step \subseteq 0..step /\ 0..m.step \subseteq Nat
    BY <1>2, <1>3, <1>5
  <2> QED
    BY <1>9, <1>10, <2>1
<1>12. EffectsOk(effects, Steps')
  BY <1>9 DEF Begins
<1>13. DOMAIN plan' = Clients /\ \A d \in Clients : PlanOk(plan'[d])
  BY DEF Begins
<1>14. ASSUME ~ disturbed'
       PROVE  \A i \in DOMAIN effects : Quiet(effects[i]) \/ Open(effects[i], k)
  <2>1. \A i \in DOMAIN effects : Quiet(effects[i]) \/ Open(effects[i], m)
    BY <1>3, <1>14 DEF Begins
  <2>2. \A i \in DOMAIN effects : Open(effects[i], m) => Open(effects[i], k)
    BY <1>7 DEF Open, Unused, SameCore
  <2> QED
    BY <2>1, <2>2
<1> QED
  BY <1>1, <1>3, <1>5, <1>7, <1>8, <1>10, <1>11, <1>12, <1>13, <1>14

LEMMA MemoryInit == Init => MemorySane /\ LogFollows
<1> SUFFICES ASSUME Init PROVE MemorySane /\ LogFollows
  OBVIOUS
<1>1. PICK start \in Starts : log = start[2]
  BY DEF Init
<1>2. Written(log)
  BY <1>1, GatewayAssumption
<1>3. /\ IsList(log)
      /\ \A i \in DOMAIN log : log[i].step \in Nat
           /\ (log[i].output # None => Given(log[i].tool, log[i].output))
  BY <1>2 DEF Written, EntryShape, IsList
<1>4. mem = reload_runtime_state(log) /\ Sane(mem)
  BY <1>3, ReloadSane DEF Init
<1>5. mem.step \in Steps
  BY <1>4 DEF Sane, Shape, Steps
<1>6. /\ doing = [c \in Clients |-> <<>>] /\ plan = [c \in Clients |-> <<>>]
  BY DEF Init
<1>7. EffectsOk(<<>>, Steps) /\ PlanOk(<<>>)
  BY QuietParts, ListNone DEF PlanOk
<1>8. MemorySane
  BY <1>4, <1>5, <1>6, <1>7 DEF MemorySane
<1>9. LogFollows
  BY <1>4, <1>6 DEF LogFollows, Alone, Idle, SameCore
<1> QED
  BY <1>8, <1>9

LEMMA MemoryStep == Typed /\ MemorySane /\ [Next]_vars => MemorySane'
<1> SUFFICES ASSUME Typed, MemorySane, [Next]_vars PROVE MemorySane'
  OBVIOUS
<1>1. PICK again : again = reload_runtime_state(log)
  OBVIOUS
<1>2. /\ DOMAIN plan = Clients /\ DOMAIN doing = Clients
      /\ Sane(mem) /\ Sane(again) /\ again.step \in Steps /\ again.step \in Nat
      /\ \A d \in Clients : EffectsOk(doing[d], Steps) /\ PlanOk(plan[d])
  BY <1>1 DEF MemorySane, Typed, Sane, Shape
<1>3. ASSUME NEW c \in Clients, Arrival(c)
      PROVE  MemorySane'
  <2>1. PICK steps, effects : steps \in {0, 1} /\ Begins(c, steps, effects)
    BY <1>3, ArrivalOk
  <2>2. /\ doing' = [doing EXCEPT ![c] = effects]
        /\ log' = log /\ Sane(mem') /\ Steps \subseteq Steps'
        /\ EffectsOk(effects, Steps')
        /\ DOMAIN plan' = Clients /\ \A d \in Clients : PlanOk(plan'[d])
    BY <2>1, BeginsIs
  <2>3. \A d \in Clients : EffectsOk(doing[d], Steps')
    BY <1>2, <2>2, EffectsIn
  <2>4. \A d \in Clients : EffectsOk(doing'[d], Steps')
    BY <1>2, <2>2, <2>3
  <2>5. reload_runtime_state(log') = again
    BY <1>1, <2>2
  <2> QED
    BY <1>2, <2>2, <2>4, <2>5 DEF MemorySane
<1>4. ASSUME NEW c \in Clients, Effect(c)
      PROVE  MemorySane'
  <2>1. PICK s : Advanced(c, s)
    BY <1>4, EffectAdvances
  <2>2. plan' = plan /\ disturbed' = disturbed
    BY <1>4, EffectAdvances
  <2>3. /\ doing' = [doing EXCEPT ![c] = s] /\ EffectsOk(s, Steps)
        /\ Sane(mem') /\ mem'.step = mem.step
        /\ Sane(reload_runtime_state(log'))
        /\ reload_runtime_state(log').step \in Steps
    BY <2>1 DEF Advanced
  <2>4. Steps' = Steps
    BY <2>2, <2>3 DEF Steps
  <2>5. \A d \in Clients : EffectsOk(doing'[d], Steps)
    BY <1>2, <2>3
  <2> QED
    BY <1>2, <2>2, <2>3, <2>4, <2>5 DEF MemorySane
<1>5. PlanOk(<<>>) /\ \A when : EffectsOk(<<>>, when)
  BY QuietParts, ListNone DEF PlanOk
<1>6. ASSUME NEW c \in Clients, WriteFails(c)
      PROVE  MemorySane'
  <2>1. /\ doing' = [doing EXCEPT ![c] = <<>>] /\ plan' = [plan EXCEPT ![c] = <<>>]
        /\ log' = log /\ mem' = mem /\ disturbed' = TRUE
    BY <1>6 DEF WriteFails, Then
  <2>2. Steps' = Nat /\ Steps \subseteq Nat
    BY <2>1, StepsAre DEF Steps
  <2>3. \A d \in Clients : EffectsOk(doing[d], Steps')
    BY <1>2, <2>2, EffectsIn
  <2>4. \A d \in Clients : EffectsOk(doing'[d], Steps') /\ PlanOk(plan'[d])
    BY <1>2, <1>5, <2>1, <2>3
  <2> QED
    BY <1>1, <1>2, <2>1, <2>2, <2>4 DEF MemorySane
<1>7. CASE Restart
  <2>1. /\ doing' = [d \in Clients |-> <<>>] /\ plan' = [d \in Clients |-> <<>>]
        /\ log' = log /\ mem' = again
    BY <1>1, <1>7 DEF Restart
  <2>2. \A d \in Clients : EffectsOk(doing'[d], Steps') /\ PlanOk(plan'[d])
    BY <1>5, <2>1
  <2>3. again.step \in Steps'
    BY <1>2, <2>1 DEF Steps
  <2> QED
    BY <1>1, <1>2, <2>1, <2>2, <2>3 DEF MemorySane
<1>8. CASE UNCHANGED vars
  BY <1>8 DEF vars, MemorySane, Steps
<1> QED
  BY <1>3, <1>4, <1>6, <1>7, <1>8 DEF Next

LEMMA FollowsStep == Typed /\ MemorySane /\ LogFollows /\ [Next]_vars => LogFollows'
<1> SUFFICES ASSUME Typed, MemorySane, LogFollows, [Next]_vars, ~ disturbed'
             PROVE  /\ Alone'
                    /\ (\A c \in Clients : doing'[c] = <<>>)
                         => SameCore(reload_runtime_state(log'), mem')
                    /\ \A c \in Clients : doing'[c] # <<>> =>
                         Follows(doing'[c], reload_runtime_state(log'), mem')
  BY DEF LogFollows, Idle
<1> DEFINE Goal ==
      /\ Alone'
      /\ (\A c \in Clients : doing'[c] = <<>>) => SameCore(reload_runtime_state(log'), mem')
      /\ \A c \in Clients : doing'[c] # <<>> =>
           Follows(doing'[c], reload_runtime_state(log'), mem')
<1>1. ASSUME NEW c \in Clients, NEW s, doing' = [doing EXCEPT ![c] = s], Alone,
             \A d \in Clients : d # c => doing[d] = <<>>,
             Follows(s, reload_runtime_state(log'), mem')
      PROVE  Goal
  <2>1. PICK again, m : again = reload_runtime_state(log') /\ m = mem'
    OBVIOUS
  <2>2. Alone' /\ \A d \in Clients : doing'[d] # <<>> => d = c /\ doing'[d] = s
    BY <1>1, ScansAlone
  <2>3. doing'[c] = s
    BY <1>1 DEF Typed
  <2>4. s = <<>> => SameCore(again, m)
    <3>1. Follows(s, again, m)
      BY <1>1, <2>1
    <3> QED
      BY <3>1, ListNone DEF Follows, Abreast, Behind
  <2> QED
    BY <1>1, <2>1, <2>2, <2>3, <2>4
<1>2. ASSUME NEW c \in Clients, Arrival(c)
      PROVE  Goal
  <2>1. PICK steps, effects : steps \in {0, 1} /\ Begins(c, steps, effects)
    BY <1>2, ArrivalOk
  <2>2. /\ doing' = [doing EXCEPT ![c] = effects] /\ log' = log /\ SameCore(mem, mem')
        /\ ~ disturbed /\ \A d \in Clients : doing[d] = <<>>
        /\ \A i \in DOMAIN effects : Quiet(effects[i]) \/ Open(effects[i], mem')
    BY <2>1, BeginsIs
  <2>3. Alone /\ SameCore(reload_runtime_state(log), mem)
    BY <2>2 DEF LogFollows, Idle
  <2>4. PICK again : again = reload_runtime_state(log)
    OBVIOUS
  <2>5. SameCore(again, mem')
    BY <2>2, <2>3, <2>4 DEF SameCore
  <2>6. Follows(effects, again, mem')
    BY <2>2, <2>5 DEF Follows, Abreast
  <2>7. Follows(effects, reload_runtime_state(log'), mem')
    BY <2>2, <2>4, <2>6
  <2> QED
    BY <1>1, <2>2, <2>3, <2>7
<1>3. ASSUME NEW c \in Clients, Effect(c)
      PROVE  Goal
  <2>1. doing[c] # <<>> /\ ~ disturbed
    BY <1>3, EffectAdvances
  <2>2. PICK s : Advanced(c, s)
    BY <1>3, EffectAdvances
  <2>3. Alone /\ Follows(doing[c], reload_runtime_state(log), mem)
    BY <2>1 DEF LogFollows, Idle
  <2>4. \A d \in Clients : d # c => doing[d] = <<>>
    BY <2>1, <2>3 DEF Alone, Idle
  <2>5. doing' = [doing EXCEPT ![c] = s] /\ Follows(s, reload_runtime_state(log'), mem')
    BY <2>2, <2>3 DEF Advanced
  <2> QED
    BY <1>1, <2>3, <2>4, <2>5
<1>4. ASSUME NEW c \in Clients, WriteFails(c)
      PROVE  Goal
  BY <1>4 DEF WriteFails
<1>5. CASE Restart
  <2>1. (\A c \in Clients : doing'[c] = <<>>) /\ log' = log /\ mem' = reload_runtime_state(log)
    BY <1>5 DEF Restart
  <2>2. Alone'
    BY <2>1 DEF Alone, Idle
  <2>3. SameCore(reload_runtime_state(log'), mem')
    BY <2>1 DEF SameCore
  <2> QED
    BY <2>1, <2>2, <2>3
<1>6. CASE UNCHANGED vars
  <2>1. doing' = doing /\ mem' = mem /\ log' = log /\ ~ disturbed
    BY <1>6 DEF vars
  <2> QED
    BY <2>1 DEF LogFollows, Alone, Idle
<1> QED
  BY <1>2, <1>3, <1>4, <1>5, <1>6 DEF Next

\* With one request at a time, no failed append, ids of donations and proofs used
\* once and no report in the guise of a gateway's own entries, a gateway that
\* started now would know what this one knows, for any log it started from
\* (reload_runtime_state, replay_log_entry).
THEOREM StartsKnowTheSame == Spec => []ReloadReproduces
<1>1. MemorySane /\ LogFollows => ReloadReproduces
  <2> SUFFICES ASSUME MemorySane, LogFollows, ~ disturbed, \A c \in Clients : Idle(c)
               PROVE  LET again == reload_runtime_state(log) IN
                      /\ [again EXCEPT !.step = mem.step] = mem
                      /\ again.step <= mem.step
    BY DEF ReloadReproduces
  <2>1. PICK again, m : again = reload_runtime_state(log) /\ m = mem
    OBVIOUS
  <2>2. Shape(again) /\ Shape(m) /\ again.step <= m.step
    BY <2>1, StepsAre DEF MemorySane, Sane
  <2>3. SameCore(again, m)
    BY <2>1 DEF LogFollows
  <2>4. PICK k : k = [again EXCEPT !.step = m.step]
    OBVIOUS
  <2>5. Fielded(k, again.boxes, again.donations, again.proofs, again.tasks, again.files,
                again.audited, m.step)
    BY <2>2, <2>4, FieldSet
  <2>6. k = m
    BY <2>2, <2>3, <2>5 DEF Fielded, SameCore, Shape
  <2> QED
    BY <2>1, <2>2, <2>4, <2>6
<1> QED
  BY <1>1, MemoryInit, MemoryStep, FollowsStep, TypesHold, PTL DEF Spec

---------------------------------------------------------------------------
\* What the tools of the layers ask.

P == "run_preventative_layer"
A == "run_accountability_layer"
I == "run_impact_layer"

GatewaysOf(tool) ==
  CASE tool = P -> {"layer1-baseline", "layer1-defended"}
    [] tool = A -> {"layer2-accountability"}
    [] tool = I -> {}
    [] tool = Episode -> {"integrated-defended-gateway"}

LEMMA ToolsDiffer ==
  AllTools = {P, A, I, Episode} /\ P # A /\ P # I /\ P # Episode /\ A # I
    /\ A # Episode /\ I # Episode
BY DEF AllTools, LayerTools, P, A, I, Episode

LEMMA PreventativeCalls ==
  /\ Len(Calls(P)) = 3 /\ DOMAIN Calls(P) = 1..3
  /\ Calls(P)[1] = Ask("layer1-baseline", "exfiltrate_private_key", None)
  /\ Calls(P)[2] = Ask("layer1-defended", "send_message", None)
  /\ Calls(P)[3] = Ask("layer1-defended", "exfiltrate_private_key", None)
<1>1. Calls(P) = Exfiltration
  BY DEF Calls, P, Episode
<1>2. Len(Exfiltration) = 3 /\ DOMAIN Exfiltration = 1..3
      /\ Exfiltration[1] = Ask("layer1-baseline", "exfiltrate_private_key", None)
      /\ Exfiltration[2] = Ask("layer1-defended", "send_message", None)
      /\ Exfiltration[3] = Ask("layer1-defended", "exfiltrate_private_key", None)
  BY DEF Exfiltration
<1> QED
  BY <1>1, <1>2

\* The call that registers a fake seedbox.
Fake(g) == Ask(g, "register_seedbox", TRUE)

LEMMA RugPullIs ==
  ASSUME NEW g
  PROVE  /\ Len(RugPull(g)) = 5 /\ DOMAIN RugPull(g) = 1..5 /\ IsList(RugPull(g))
         /\ RugPull(g)[1] = Fake(g)
         /\ RugPull(g)[2] = Ask(g, "broadcast_seedbox_donation", None)
         /\ RugPull(g)[3] = AuditOn(g)
         /\ RugPull(g)[4] = ReportOn(g, "self_donation", 15)
         /\ RugPull(g)[5] = ReportOn(g, "wash_trade_detected", 20)
<1>1. ASSUME NEW v, NEW w, NEW x, NEW y, NEW z, NEW s, s = <<v, w, x, y, z>>
      PROVE  /\ Len(s) = 5 /\ DOMAIN s = 1..5 /\ IsList(s)
             /\ s[1] = v /\ s[2] = w /\ s[3] = x /\ s[4] = y /\ s[5] = z
  <2>1. s \in Seq({v, w, x, y, z}) /\ Len(s) = 5
        /\ s[1] = v /\ s[2] = w /\ s[3] = x /\ s[4] = y /\ s[5] = z
    BY <1>1
  <2>2. IsList(s) /\ DOMAIN s = 1..Len(s)
    BY <2>1, ListIn
  <2> QED
    BY <2>1, <2>2
<1> QED
  BY <1>1 DEF RugPull, Fake

LEMMA AccountabilityCalls ==
  LET g == "layer2-accountability" IN
  /\ Len(Calls(A)) = 5 /\ DOMAIN Calls(A) = 1..5
  /\ Calls(A)[1] = Fake(g)
  /\ Calls(A)[2] = Ask(g, "broadcast_seedbox_donation", None)
  /\ Calls(A)[3] = AuditOn(g)
  /\ Calls(A)[4] = ReportOn(g, "self_donation", 15)
  /\ Calls(A)[5] = ReportOn(g, "wash_trade_detected", 20)
<1>1. Calls(A) = RugPull("layer2-accountability")
  BY DEF Calls, A, Episode
<1> QED
  BY <1>1, RugPullIs

LEMMA ImpactCalls ==
  Len(Calls(I)) = 1 /\ DOMAIN Calls(I) = 1..1 /\ Calls(I)[1] = Guardrails
<1> DEFINE l == <<Guardrails>>
<1>1. Len(l) = 1 /\ DOMAIN l = 1..1 /\ l[1] = Guardrails
  OBVIOUS
<1> HIDE DEF l
<1>2. Calls(I) = l
  BY DEF Calls, I, Episode, l
<1> QED
  BY <1>1, <1>2

LEMMA EpisodeCalls ==
  LET g == "integrated-defended-gateway" IN
  /\ Len(Calls(Episode)) = 9 /\ DOMAIN Calls(Episode) = 1..9
  /\ Calls(Episode)[1] = Ask(g, "send_message", None)
  /\ Calls(Episode)[2] = Ask(g, "exfiltrate_private_key", None)
  /\ Calls(Episode)[3] = Ask(g, "modify_iptables", None)
  /\ Calls(Episode)[4] = Fake(g)
  /\ Calls(Episode)[5] = Ask(g, "broadcast_seedbox_donation", None)
  /\ Calls(Episode)[6] = AuditOn(g)
  /\ Calls(Episode)[7] = ReportOn(g, "self_donation", 15)
  /\ Calls(Episode)[8] = ReportOn(g, "wash_trade_detected", 20)
  /\ Calls(Episode)[9] = Guardrails
<1> DEFINE g == "integrated-defended-gateway"
           x == Ask(g, "send_message", None)
           y == Ask(g, "exfiltrate_private_key", None)
           z == Ask(g, "modify_iptables", None)
           h == <<x, y, z>>
           r == RugPull(g)
           S == {x, y, z, Guardrails} \cup Parts(r)
           c == Calls(Episode)
<1>1. c = (h \o r) \o <<Guardrails>>
  <2>1. c = Story(g)
    BY DEF Calls, Episode
  <2> QED
    BY <2>1 DEF Story
<1>2. h \in Seq(S) /\ Len(h) = 3 /\ h[1] = x /\ h[2] = y /\ h[3] = z
  OBVIOUS
<1>3. <<Guardrails>> \in Seq(S) /\ Len(<<Guardrails>>) = 1 /\ <<Guardrails>>[1] = Guardrails
  OBVIOUS
<1>4. IsList(r) /\ Len(r) = 5
  BY RugPullIs
<1>5. r \in Seq(Parts(r))
  BY <1>4, ListShape
<1>6. r \in Seq(S)
  BY <1>5
<1> DEFINE l == <<Guardrails>>
<1> HIDE DEF h, r, S, c, l, x, y, z
<1>7. h \o r \in Seq(S) /\ Len(h \o r) = 8
      /\ \A i \in 1..8 : (h \o r)[i] = IF i <= 3 THEN h[i] ELSE r[i - 3]
  <2>1. h \o r \in Seq(S) /\ Len(h \o r) = Len(h) + Len(r)
        /\ \A i \in 1..Len(h) + Len(r) :
             (h \o r)[i] = IF i <= Len(h) THEN h[i] ELSE r[i - Len(h)]
    BY <1>2, <1>6, ConcatProperties
  <2>2. Len(h) = 3 /\ Len(r) = 5 /\ 3 + 5 = 8
    BY <1>2, <1>4
  <2> QED
    BY <2>1, <2>2
<1> DEFINE q == h \o r
<1>8. q \in Seq(S) /\ Len(q) = 8 /\ \A i \in 1..8 : q[i] = IF i <= 3 THEN h[i] ELSE r[i - 3]
  BY <1>7
<1>9. l \in Seq(S) /\ Len(l) = 1 /\ l[1] = Guardrails /\ c = q \o l
  BY <1>1, <1>3 DEF l
<1> HIDE DEF q
<1>10. c \in Seq(S) /\ Len(c) = 9 /\ \A i \in 1..9 : c[i] = IF i <= 8 THEN q[i] ELSE l[i - 8]
  <2>1. q \o l \in Seq(S) /\ Len(q \o l) = Len(q) + Len(l)
        /\ \A i \in 1..Len(q) + Len(l) :
             (q \o l)[i] = IF i <= Len(q) THEN q[i] ELSE l[i - Len(q)]
    BY <1>8, <1>9, ConcatProperties
  <2>2. Len(q) = 8 /\ Len(l) = 1 /\ 8 + 1 = 9 /\ c = q \o l
    BY <1>8, <1>9
  <2> QED
    BY <2>1, <2>2
<1>11. /\ c[1] = h[1] /\ c[2] = h[2] /\ c[3] = h[3]
       /\ c[4] = r[1] /\ c[5] = r[2] /\ c[6] = r[3] /\ c[7] = r[4] /\ c[8] = r[5]
       /\ c[9] = l[1]
  BY <1>8, <1>10
<1>12. DOMAIN c = 1..9
  BY <1>10
<1>13. c[1] = x /\ c[2] = y /\ c[3] = z /\ c[9] = Guardrails
  BY <1>2, <1>9, <1>11
<1>14. /\ c[4] = Fake(g)
       /\ c[5] = Ask(g, "broadcast_seedbox_donation", None)
       /\ c[6] = AuditOn(g)
       /\ c[7] = ReportOn(g, "self_donation", 15)
       /\ c[8] = ReportOn(g, "wash_trade_detected", 20)
  BY <1>11, RugPullIs DEF r
<1> QED
  BY <1>10, <1>12, <1>13, <1>14 DEF c, x, y, z

LEMMA FakeOn ==
  ASSUME NEW g
  PROVE  Fake(g).on = g /\ Fake(g).do = "tool"
BY DEF Fake, Ask

\* Every call of a tool but the probe is on a gateway of its own.
LEMMA CallsOwn ==
  ASSUME NEW tool \in AllTools
  PROVE  /\ Len(Calls(tool)) \in Nat /\ DOMAIN Calls(tool) = 1..Len(Calls(tool))
         /\ \A i \in DOMAIN Calls(tool) :
              Calls(tool)[i].do # "guardrails" => Calls(tool)[i].on \in GatewaysOf(tool)
<1>1. CASE tool = P
  BY <1>1, PreventativeCalls, ToolsDiffer DEF GatewaysOf, Ask
<1>2. CASE tool = A
  BY <1>2, AccountabilityCalls, ToolsDiffer, FakeOn DEF GatewaysOf, Ask, AuditOn, ReportOn
<1>3. CASE tool = I
  BY <1>3, ImpactCalls, ToolsDiffer DEF Guardrails
<1>4. CASE tool = Episode
  BY <1>4, EpisodeCalls, ToolsDiffer, FakeOn DEF GatewaysOf, Ask, AuditOn, ReportOn, Guardrails
<1> QED
  BY <1>1, <1>2, <1>3, <1>4, ToolsDiffer

LEMMA OwnGateways ==
  ASSUME NEW tool \in AllTools
  PROVE  /\ GatewaysOf(tool) \subseteq Gateways
         /\ \A u \in AllTools : u # tool => GatewaysOf(u) \cap GatewaysOf(tool) = {}
BY ToolsDiffer DEF GatewaysOf, Gateways

---------------------------------------------------------------------------
\* What a gateway answers, and what it writes weighs.

ScoreOn(g) == Score(layerLogs[g], Member)
FakeOwned(m) ==
  IsMemory(m) /\ m.step \in Nat /\ m.boxes[FakeBox] = [owner |-> Member, fake |-> TRUE]

LEMMA ScoreNone == ScoredList(<<>>) /\ \A a : Score(<<>>, a) = 0
<1>1. ScoredList(<<>>) /\ DOMAIN <<>> = {}
  BY ListNone DEF ScoredList
<1>2. ASSUME NEW a
      PROVE  Score(<<>>, a) = 0
  BY <1>1, ScoreIs, Scoring!Empty
<1> QED
  BY <1>1, <1>2

LEMMA ScoreOne ==
  ASSUME NEW e, e.severity \in Int
  PROVE  ScoredList(<<e>>)
         /\ \A a : Score(<<e>>, a) = IF e.subject = a THEN Weight(e) ELSE 0
<1>1. ScoredList(<<e>>)
  BY ListOne DEF ScoredList
<1> DEFINE none == <<>>
           one == <<e>>
<1>2. one = Append(none, e) /\ IsList(none) /\ \A a : Score(none, a) = 0
  BY ScoreNone, ListNone
<1>3. Weight(e) \in Nat
  BY WeightType
<1> HIDE DEF none, one
<1>4. ASSUME NEW a
      PROVE  Score(one, a) = IF e.subject = a THEN Weight(e) ELSE 0
  <2>1. Score(Append(none, e), a)
          = IF e.subject = a THEN Score(none, a) + Weight(e) ELSE Score(none, a)
    BY <1>2, ScoreAppend
  <2> QED
    BY <1>2, <1>3, <2>1
<1> QED
  BY <1>1, <1>4 DEF one

LEMMA GoodIsScored ==
  ASSUME NEW s, GoodEvents(s)
  PROVE  ScoredList(s)
BY DEF GoodEvents, ScoredList

\* An event of the gateway's own weighs what the table says.
LEMMA EventWeighs ==
  ASSUME NEW a, NEW action, NEW step
  PROVE  ScoredList(<<Event(a, action, step)>>)
         /\ Score(<<Event(a, action, step)>>, a) = DEFAULT_WEIGHTS(action)
<1> DEFINE e == Event(a, action, step)
           w == DEFAULT_WEIGHTS(action)
<1>1. w \in Nat
  BY WeightType
<1> HIDE DEF w
<1>2. e.severity = w /\ e.action = action /\ e.subject = a
  BY DEF Event, Entry, w
<1>3. Weight(e) = w
  BY <1>1, <1>2 DEF Weight, w
<1> HIDE DEF e
<1>4. ScoredList(<<e>>) /\ Score(<<e>>, a) = w
  BY <1>1, <1>2, <1>3, ScoreOne
<1> QED
  BY <1>4 DEF e, w

LEMMA Weights ==
  /\ DEFAULT_WEIGHTS("tool_execution_success") = 0
  /\ DEFAULT_WEIGHTS("unauthorized_tool_request") = 10
  /\ DEFAULT_WEIGHTS("fake_seedbox_created") = 10
  /\ DEFAULT_WEIGHTS("seedbox_donation_broadcast") = 5
  /\ DEFAULT_WEIGHTS("wash_trade_detected") = 20
BY DEF DEFAULT_WEIGHTS

LEMMA SuccessWeighs ==
  ASSUME NEW tool, NEW out
  PROVE  ScoredList(<<Entry(Member, "tool_execution_success", 0, 0, tool, out)>>)
         /\ Score(<<Entry(Member, "tool_execution_success", 0, 0, tool, out)>>, Member) = 0
<1> DEFINE e == Entry(Member, "tool_execution_success", 0, 0, tool, out)
<1>1. e.severity = 0 /\ e.action = "tool_execution_success" /\ e.subject = Member
  BY DEF Entry
<1> HIDE DEF e
<1>2. Weight(e) = 0
  BY <1>1, Weights DEF Weight
<1>3. ScoredList(<<e>>) /\ Score(<<e>>, Member) = 0
  BY <1>1, <1>2, ScoreOne
<1> QED
  BY <1>3 DEF e

\* A banned subject is refused, and nothing is written.
LEMMA AskedBanned ==
  ASSUME NEW g, NEW m, NEW call, ScoreOn(g) >= 30, NEW e, e = Asked(g, m, call)
  PROVE  e.refused = TRUE /\ e.events = <<>> /\ e.executed = FALSE /\ e.attack = FALSE
BY DEF Asked, ScoreOn, ban_threshold

Attacks(by, r) == Runs(by, r) /\ r.tool \in Dangerous
Answered(e, by, m, r, out) ==
  /\ e.refused = FALSE
  /\ e.mem = (IF out = None THEN m ELSE Applied(m, r.tool, out))
  /\ e.events = record_result(by, m, Member, r, out)
  /\ Attacks(by, r) => e.attack = TRUE
  /\ ~ Attacks(by, r) => e.attack = FALSE
  /\ e.attack = FALSE /\ out = None => e.executed = FALSE
  /\ out # None => e.executed = TRUE

LEMMA AskedElse ==
  ASSUME NEW g, NEW m, NEW call, NEW r, r = call.request, ~ (ScoreOn(g) >= 30),
         NEW e, e = Asked(g, m, call),
         NEW out, out = Ran(mode_of(g), m, Member, r, m.step)
  PROVE  Answered(e, mode_of(g), m, r, out)
<1>1. ~ (Score(layerLogs[g], Member) >= ban_threshold)
  BY DEF ScoreOn, ban_threshold
<1> DEFINE x == Attacks(mode_of(g), r)
<1>2. e = [mem |-> IF out = None THEN m ELSE Applied(m, r.tool, out),
           events |-> record_result(mode_of(g), m, Member, r, out),
           refused |-> FALSE, executed |-> x \/ out # None, attack |-> x]
  BY <1>1 DEF Asked, Attacks
<1>3. /\ e.refused = FALSE
      /\ e.mem = (IF out = None THEN m ELSE Applied(m, r.tool, out))
      /\ e.events = record_result(mode_of(g), m, Member, r, out)
  BY <1>2
<1>4. e.attack = x /\ e.executed = (x \/ out # None)
  BY <1>2
<1>5. x \in BOOLEAN /\ (out # None) \in BOOLEAN
  BY DEF Attacks
<1> HIDE DEF x
<1>6. /\ x => e.attack = TRUE
      /\ ~ x => e.attack = FALSE
      /\ e.attack = FALSE /\ out = None => e.executed = FALSE
      /\ out # None => e.executed = TRUE
  BY <1>4, <1>5
<1> QED
  BY <1>3, <1>6 DEF x, Answered

\* The baseline leaks the key.
LEMMA BaselineLeaks ==
  ASSUME NEW g, mode_of(g) = "baseline", NEW m, NEW call, NEW r, r = call.request,
         r.tool = "exfiltrate_private_key",
         ~ (ScoreOn(g) >= 30), NEW e, e = Asked(g, m, call)
  PROVE  e.refused = FALSE /\ e.attack = TRUE
<1>1. Attacks(mode_of(g), r)
  BY DEF Attacks, Runs, Dangerous
<1> DEFINE out == Ran(mode_of(g), m, Member, r, m.step)
<1>2. out = Ran(mode_of(g), m, Member, r, m.step)
  OBVIOUS
<1> HIDE DEF out
<1>3. Answered(e, mode_of(g), m, r, out)
  BY <1>2, AskedElse
<1> QED
  BY <1>1, <1>3 DEF Answered

\* Hands runs what is on its list and no more.
HandsOn(r) ==
  /\ r.tool \in allowed_tools =>
       Runs("defended", r) /\ Authorized("defended", r) /\ r.tool \notin Dangerous
  /\ r.tool \notin allowed_tools => ~ Runs("defended", r) /\ ~ Authorized("defended", r)

LEMMA HandsRuns ==
  ASSUME NEW r, r.complete = TRUE
  PROVE  HandsOn(r)
<1>1. risk_value(r.tool) \in 0..1
  BY DEF risk_value
<1>2. risk_value(r.tool) <= MaxRisk
  BY <1>1, LayersAssumption, GatewayAssumption
<1>3. r.tool \in allowed_tools => r.tool \notin Dangerous
  BY DEF allowed_tools, Safe, Sensitive, Dangerous
<1> QED
  BY <1>2, <1>3 DEF HandsOn, Runs, Authorized

LEMMA DefendedBlocks ==
  ASSUME NEW g, mode_of(g) = "defended", NEW m, NEW call, NEW r, r = call.request,
         r.complete = TRUE, r.tool \notin allowed_tools,
         ~ (ScoreOn(g) >= 30), NEW e, e = Asked(g, m, call)
  PROVE  /\ e.refused = FALSE /\ e.executed = FALSE /\ e.attack = FALSE
         /\ Score(e.events, Member) = 10
<1> DEFINE out == Ran(mode_of(g), m, Member, r, m.step)
<1>1. out = Ran(mode_of(g), m, Member, r, m.step)
  OBVIOUS
<1> HIDE DEF out
<1>2. ~ Runs("defended", r) /\ ~ Authorized("defended", r)
  BY HandsRuns DEF HandsOn
<1>3. out = None /\ ~ Attacks(mode_of(g), r)
  BY <1>1, <1>2 DEF Ran, Attacks
<1>4. record_result("defended", m, Member, r, out)
        = <<Event(Member, "unauthorized_tool_request", m.step)>>
  BY <1>2 DEF record_result
<1>5. Score(<<Event(Member, "unauthorized_tool_request", m.step)>>, Member) = 10
  BY EventWeighs, Weights
<1>6. Answered(e, mode_of(g), m, r, out)
  BY <1>1, AskedElse
<1> QED
  BY <1>3, <1>4, <1>5, <1>6 DEF Answered

Served(e, m, r, out) ==
  /\ e.refused = FALSE /\ e.executed = TRUE /\ e.attack = FALSE
  /\ e.mem = Applied(m, r.tool, out)
  /\ e.events = SuccessEvents(m, Member, r, out)

LEMMA DefendedRuns ==
  ASSUME NEW g, mode_of(g) = "defended", NEW m, NEW call, NEW r, r = call.request,
         r.complete = TRUE, r.tool \in allowed_tools,
         ~ (ScoreOn(g) >= 30), NEW e, e = Asked(g, m, call),
         NEW out, out = OutputOf(m, Member, r, m.step), out # None
  PROVE  Served(e, m, r, out)
<1>1. Runs("defended", r) /\ r.tool \notin Dangerous
  BY HandsRuns DEF HandsOn
<1>2. out = Ran(mode_of(g), m, Member, r, m.step) /\ ~ Attacks(mode_of(g), r)
  BY <1>1 DEF Ran, Attacks
<1>3. record_result("defended", m, Member, r, out) = SuccessEvents(m, Member, r, out)
  BY <1>1 DEF record_result
<1>4. Answered(e, mode_of(g), m, r, out)
  BY <1>2, AskedElse
<1> QED
  BY <1>2, <1>3, <1>4 DEF Answered, Served

LEMMA MessageSent ==
  ASSUME NEW g, mode_of(g) = "defended", NEW m, NEW call, NEW r, r = call.request,
         r.complete = TRUE, r.tool = "send_message",
         ~ (ScoreOn(g) >= 30), NEW e, e = Asked(g, m, call)
  PROVE  /\ e.refused = FALSE /\ e.executed = TRUE /\ e.attack = FALSE
         /\ Score(e.events, Member) = 0
<1> DEFINE out == OutputOf(m, Member, r, m.step)
<1>1. out = [box |-> None]
  BY DEF OutputOf
<1>2. [box |-> None] \in LayerOutputs
  BY DEF LayerOutputs
<1>3. out # None /\ r.tool \in allowed_tools
  BY <1>1, <1>2, LayersAssumption DEF allowed_tools, Safe
<1>4. out = OutputOf(m, Member, r, m.step)
  OBVIOUS
<1> HIDE DEF out
<1>5. /\ e.refused = FALSE /\ e.executed = TRUE /\ e.attack = FALSE
      /\ e.events = SuccessEvents(m, Member, r, out)
  <2>1. Served(e, m, r, out)
    BY <1>3, <1>4, DefendedRuns
  <2> QED
    BY <2>1 DEF Served
<1> DEFINE s == <<Entry(Member, "tool_execution_success", 0, 0, r.tool, out)>>
           none == <<>>
<1>6. SuccessEvents(m, Member, r, out) = s \o none
  BY DEF SuccessEvents
<1>7. ScoredList(s) /\ Score(s, Member) = 0 /\ ScoredList(none) /\ Score(none, Member) = 0
  BY SuccessWeighs, ScoreNone
<1> HIDE DEF s, none
<1>8. Score(s \o none, Member) = 0
  BY <1>7, ScoreConcat
<1> QED
  BY <1>5, <1>6, <1>8

LEMMA FakeRegistered ==
  ASSUME NEW g, mode_of(g) = "defended", NEW m, NEW call, NEW r, r = call.request,
         r.complete = TRUE, r.tool = "register_seedbox", r.box = FakeBox, r.value = TRUE,
         r.who = None,
         ~ (ScoreOn(g) >= 30), NEW e, e = Asked(g, m, call)
  PROVE  /\ e.refused = FALSE
         /\ Score(e.events, Member) = 10
         /\ IsMemory(m) /\ m.step \in Nat /\ DOMAIN m.boxes = Seedboxes
              => FakeOwned(e.mem)
<1> DEFINE out == OutputOf(m, Member, r, m.step)
           made == [box |-> FakeBox, owner |-> Member, fake |-> TRUE]
<1>1. out = made
  BY DEF OutputOf, Named
<1>2. made \in LayerOutputs
  BY LayersAssumption DEF LayerOutputs
<1>3. out # None /\ r.tool \in allowed_tools
  BY <1>1, <1>2, LayersAssumption DEF allowed_tools, Sensitive
<1>4. out = OutputOf(m, Member, r, m.step)
  OBVIOUS
<1> HIDE DEF out
<1>5. /\ e.refused = FALSE /\ e.mem = Applied(m, r.tool, out)
      /\ e.events = SuccessEvents(m, Member, r, out)
  <2>1. Served(e, m, r, out)
    BY <1>3, <1>4, DefendedRuns
  <2> QED
    BY <2>1 DEF Served
<1> DEFINE s == <<Entry(Member, "tool_execution_success", 0, 0, r.tool, out)>>
           t == <<Event(Member, "fake_seedbox_created", m.step)>>
<1>6. SuccessEvents(m, Member, r, out) = s \o t
  BY DEF SuccessEvents
<1>7. ScoredList(s) /\ Score(s, Member) = 0 /\ ScoredList(t) /\ Score(t, Member) = 10
  BY SuccessWeighs, EventWeighs, Weights
<1> HIDE DEF s, t
<1>8. Score(s \o t, Member) = 10
  BY <1>7, ScoreConcat
<1>9. ASSUME IsMemory(m), m.step \in Nat, DOMAIN m.boxes = Seedboxes
      PROVE  FakeOwned(e.mem)
  <2> DEFINE seat == [owner |-> Member, fake |-> TRUE]
  <2>1. out.box = FakeBox /\ [owner |-> out.owner, fake |-> out.fake] = seat
    BY <1>1
  <2>2. e.mem = [m EXCEPT !.boxes[FakeBox] = seat]
    BY <1>5, <2>1 DEF Applied
  <2> HIDE DEF seat
  <2>3. FakeBox \in DOMAIN m.boxes /\ "boxes" \in DOMAIN m
    BY <1>9, LayersAssumption DEF IsMemory, Fields
  <2>4. DOMAIN e.mem = DOMAIN m /\ e.mem.boxes = [m.boxes EXCEPT ![FakeBox] = seat]
    BY <2>2, <2>3
  <2>5. e.mem.boxes[FakeBox] = seat /\ e.mem.step = m.step
    BY <1>9, <2>2, <2>3, <2>4 DEF IsMemory, Fields
  <2> QED
    BY <1>9, <2>4, <2>5 DEF FakeOwned, IsMemory, seat
<1> QED
  BY <1>5, <1>6, <1>8, <1>9

LEMMA SelfDonated ==
  ASSUME NEW g, mode_of(g) = "defended", NEW m, FakeOwned(m), m.step \in Nat,
         NEW call, NEW r, r = call.request,
         r.complete = TRUE, r.tool = "broadcast_seedbox_donation", r.box = FakeBox,
         r.who = None, r.id = None,
         ~ (ScoreOn(g) >= 30), NEW e, e = Asked(g, m, call)
  PROVE  /\ e.refused = FALSE
         /\ Score(e.events, Member) = 25
<1> DEFINE out == OutputOf(m, Member, r, m.step)
           seat == [owner |-> Member, fake |-> TRUE]
           made == [box |-> FakeBox, id |-> <<m.step>>, donor |-> Member,
                    recipient |-> Member, fake |-> TRUE]
<1>1. seat \in LayerOutputs /\ made \in LayerOutputs
  <2>1. <<m.step>> \in [{1} -> Nat]
    OBVIOUS
  <2>2. PICK n : n = <<m.step>>
    OBVIOUS
  <2> QED
    BY <2>1, <2>2, LayersAssumption DEF LayerOutputs, FakeOwned
<1>2. m.boxes[FakeBox] = seat /\ seat.owner = Member /\ seat.fake = TRUE
  BY DEF FakeOwned
<1>3. FakeBox \in Registered(m)
  BY <1>1, <1>2, LayersAssumption DEF Registered
<1>4. out = made
  BY <1>2, <1>3 DEF OutputOf, Named
<1>5. out # None /\ r.tool \in allowed_tools
  BY <1>1, <1>4, LayersAssumption DEF allowed_tools, Sensitive
<1>6. out = OutputOf(m, Member, r, m.step)
  OBVIOUS
<1> HIDE DEF out
<1>7. e.refused = FALSE /\ e.events = SuccessEvents(m, Member, r, out)
  <2>1. Served(e, m, r, out)
    BY <1>5, <1>6, DefendedRuns
  <2> QED
    BY <2>1 DEF Served
<1> DEFINE s == <<Entry(Member, "tool_execution_success", 0, 0, r.tool, out)>>
           t == <<Event(Member, "seedbox_donation_broadcast", m.step)>>
           u == <<Event(Member, "wash_trade_detected", m.step)>>
<1>8. SuccessEvents(m, Member, r, out) = s \o (t \o u)
  <2>1. out.donor = out.recipient
    BY <1>4
  <2>2. DonationEvents(Member, out, m.step) = t \o u
    BY <2>1 DEF DonationEvents
  <2> QED
    BY <2>2 DEF SuccessEvents
<1>9. /\ ScoredList(s) /\ Score(s, Member) = 0
      /\ ScoredList(t) /\ Score(t, Member) = 5
      /\ ScoredList(u) /\ Score(u, Member) = 20
  BY SuccessWeighs, EventWeighs, Weights
<1> HIDE DEF s, t, u
<1>10. ScoredList(t \o u) /\ Score(t \o u, Member) = 25
  BY <1>9, ScoreConcat
<1>11. Score(s \o (t \o u), Member) = 25
  BY <1>9, <1>10, ScoreConcat
<1> QED
  BY <1>7, <1>8, <1>11

---------------------------------------------------------------------------
\* The calls, one by one.

IsAsk(call, g, tool) ==
  /\ call.on = g /\ call.do = "tool"
  /\ call.request.tool = tool /\ call.request.complete = TRUE
  /\ call.request.box = FakeBox
  /\ call.request.who = None /\ call.request.id = None

LEMMA AskIs ==
  ASSUME NEW g, NEW tool, NEW value
  PROVE  IsAsk(Ask(g, tool, value), g, tool)
BY DEF IsAsk, Ask, Request

LEMMA FakeIs ==
  ASSUME NEW g
  PROVE  IsAsk(Fake(g), g, "register_seedbox") /\ Fake(g).request.value = TRUE
<1>1. IsAsk(Fake(g), g, "register_seedbox")
  BY DEF IsAsk, Fake, Ask, Request
<1>2. Fake(g).request.value = TRUE
  BY DEF Fake, Ask, Request
<1> QED
  BY <1>1, <1>2

LEMMA PreventativeAsks ==
  /\ IsAsk(Calls(P)[1], "layer1-baseline", "exfiltrate_private_key")
  /\ IsAsk(Calls(P)[2], "layer1-defended", "send_message")
  /\ IsAsk(Calls(P)[3], "layer1-defended", "exfiltrate_private_key")
BY PreventativeCalls, AskIs

OnOne(calls, g) == \A call \in calls : call.on = g /\ call.do # "guardrails"

LEMMA AccountabilityAsks ==
  LET g == "layer2-accountability" IN
  /\ IsAsk(Calls(A)[1], g, "register_seedbox") /\ Calls(A)[1].request.value = TRUE
  /\ IsAsk(Calls(A)[2], g, "broadcast_seedbox_donation")
  /\ OnOne({Calls(A)[i] : i \in 1..5}, g)
<1> DEFINE g == "layer2-accountability"
<1>1. Calls(A)[1] = Fake(g)
  BY AccountabilityCalls
<1>2. OnOne({Calls(A)[i] : i \in 1..5}, g)
  <2>1. ASSUME NEW i \in 1..5
        PROVE  Calls(A)[i].on = g /\ Calls(A)[i].do # "guardrails"
    <3>1. i = 1 \/ i = 2 \/ i = 3 \/ i = 4 \/ i = 5
      OBVIOUS
    <3> QED
      BY <3>1, AccountabilityCalls, FakeOn DEF Ask, AuditOn, ReportOn
  <2> QED
    BY <2>1 DEF OnOne
<1> QED
  BY <1>1, <1>2, FakeIs, AskIs, AccountabilityCalls

LEMMA EpisodeAsks ==
  LET g == "integrated-defended-gateway" IN
  /\ IsAsk(Calls(Episode)[1], g, "send_message")
  /\ IsAsk(Calls(Episode)[2], g, "exfiltrate_private_key")
  /\ IsAsk(Calls(Episode)[3], g, "modify_iptables")
  /\ IsAsk(Calls(Episode)[4], g, "register_seedbox") /\ Calls(Episode)[4].request.value = TRUE
  /\ OnOne({Calls(Episode)[i] : i \in 1..8}, g)
  /\ Calls(Episode)[9].do = "guardrails"
<1> DEFINE g == "integrated-defended-gateway"
<1>1. Calls(Episode)[4] = Fake(g)
  BY EpisodeCalls
<1>2. OnOne({Calls(Episode)[i] : i \in 1..8}, g)
  <2>1. ASSUME NEW i \in 1..8
        PROVE  Calls(Episode)[i].on = g /\ Calls(Episode)[i].do # "guardrails"
    <3>1. i = 1 \/ i = 2 \/ i = 3 \/ i = 4 \/ i = 5 \/ i = 6 \/ i = 7 \/ i = 8
      OBVIOUS
    <3> QED
      BY <3>1, EpisodeCalls, FakeOn DEF Ask, AuditOn, ReportOn
  <2> QED
    BY <2>1 DEF OnOne
<1>3. Calls(Episode)[9].do = "guardrails"
  BY EpisodeCalls DEF Guardrails
<1> QED
  BY <1>1, <1>2, <1>3, FakeIs, AskIs, EpisodeCalls

Later(m) == [m EXCEPT !.step = @ + 1]

LEMMA EffectedAsks ==
  ASSUME NEW g, NEW m, NEW call, call.do = "tool"
  PROVE  Effected(g, m, call) = Asked(g, Later(m), call)
BY DEF Effected, Later

SoundCall(call) ==
  /\ call.do \in {"tool", "audit", "report", "guardrails"}
  /\ call.do = "report" => call.entry.severity \in Int

LEMMA CallsSound ==
  ASSUME NEW tool \in AllTools, NEW k \in DOMAIN Calls(tool)
  PROVE  SoundCall(Calls(tool)[k])
<1>1. \A g, name, value : SoundCall(Ask(g, name, value))
  BY DEF SoundCall, Ask
<1>2. \A g : SoundCall(AuditOn(g)) /\ SoundCall(Fake(g))
  BY DEF SoundCall, AuditOn, Fake, Ask
<1>3. SoundCall(Guardrails)
  BY DEF SoundCall, Guardrails
<1>4. \A g, action : SoundCall(ReportOn(g, action, 15)) /\ SoundCall(ReportOn(g, action, 20))
  BY DEF SoundCall, ReportOn, Entry
<1>5. CASE tool = P
  <2>1. k = 1 \/ k = 2 \/ k = 3
    BY <1>5, PreventativeCalls
  <2> QED
    BY <1>1, <1>5, <2>1, PreventativeCalls
<1>6. CASE tool = A
  <2>1. k = 1 \/ k = 2 \/ k = 3 \/ k = 4 \/ k = 5
    BY <1>6, AccountabilityCalls
  <2> QED
    BY <1>1, <1>2, <1>4, <1>6, <2>1, AccountabilityCalls
<1>7. CASE tool = I
  BY <1>3, <1>7, ImpactCalls
<1>8. CASE tool = Episode
  <2>1. k = 1 \/ k = 2 \/ k = 3 \/ k = 4 \/ k = 5 \/ k = 6 \/ k = 7 \/ k = 8 \/ k = 9
    BY <1>8, EpisodeCalls
  <2> QED
    BY <1>1, <1>2, <1>3, <1>4, <1>8, <2>1, EpisodeCalls
<1> QED
  BY <1>5, <1>6, <1>7, <1>8, ToolsDiffer

\* Whatever a gateway writes has integer severities.
LEMMA EffectedWrites ==
  ASSUME NEW g, NEW m, NEW call, SoundCall(call), call.do # "guardrails"
  PROVE  ScoredList(Effected(g, m, call).events)
<1>1. CASE call.do = "tool"
  <2> DEFINE e == Asked(g, Later(m), call)
             r == call.request
             out == Ran(mode_of(g), Later(m), Member, r, Later(m).step)
  <2>1. /\ r = call.request /\ e = Asked(g, Later(m), call)
        /\ out = Ran(mode_of(g), Later(m), Member, r, Later(m).step)
    OBVIOUS
  <2> HIDE DEF e, r, out
  <2>2. CASE ScoreOn(g) >= 30
    <3>1. e.events = <<>>
      BY <2>1, <2>2, AskedBanned
    <3> QED
      BY <1>1, <2>1, <3>1, ScoreNone, EffectedAsks
  <2>3. CASE ~ (ScoreOn(g) >= 30)
    <3>1. Answered(e, mode_of(g), Later(m), r, out)
      BY <2>1, <2>3, AskedElse
    <3>2. GoodEvents(e.events)
      BY <3>1, GoodResult DEF Answered
    <3> QED
      BY <1>1, <2>1, <3>2, GoodIsScored, EffectedAsks
  <2> QED
    BY <2>2, <2>3
<1>2. CASE call.do = "audit"
  <2> DEFINE n == Later(m)
             S == {s \in Registered(n) : Unproved(n, s)}
             found == SetToSeq(S)
             events == [i \in DOMAIN found |->
                         MissingProof(n.boxes[found[i]].owner, found[i], n.step)]
  <2>1. S \subseteq Seedboxes
    BY DEF Registered
  <2>2. Effected(g, m, call) = Audited(n)
    BY <1>2 DEF Effected, Later
  <2>3. Audited(n).events = events
    BY DEF Audited
  <2> HIDE DEF n, S
  <2>4. found \in Seq(Seedboxes)
    BY <2>1, SeedboxList
  <2> HIDE DEF found
  <2>5. Len(found) \in Nat /\ DOMAIN found = 1..Len(found)
    BY <2>4
  <2>6. /\ DOMAIN events = 1..Len(found)
        /\ \A i \in DOMAIN events : events[i] = MissingProof(n.boxes[found[i]].owner, found[i], n.step)
        /\ events = [i \in 1..Len(found) |-> events[i]]
    BY <2>5
  <2> HIDE DEF events
  <2>7. IsList(events)
    BY <2>5, <2>6 DEF IsList
  <2>8. \A i \in DOMAIN events : events[i].severity \in Int
    BY <2>6 DEF MissingProof, Entry
  <2> QED
    BY <2>2, <2>3, <2>7, <2>8 DEF ScoredList
<1>3. CASE call.do = "report"
  <2>1. Effected(g, m, call).events = <<call.entry>>
    BY <1>3 DEF Effected
  <2> QED
    BY <1>3, <2>1, ScoreOne DEF SoundCall
<1> QED
  BY <1>1, <1>2, <1>3 DEF SoundCall

---------------------------------------------------------------------------
\* What is so of the logs, the runs and the file: per tool, what a run that
\* nothing was before it has seen, and what any run has.

Answers(tool) == running[tool].answers
At(tool) == Len(Answers(tool))
First(tool) == past[tool].ended = 0 /\ past[tool].died = 0

\* What LayerDone reads in the file.
DoneBy(tool) ==
  /\ evidence # None
  /\ (IF tool = Episode THEN evidence.story ELSE evidence.layers[layer_of(tool)]) = TRUE

LayersTyped ==
  /\ scenario \in {"service", "security_layers", "secure_community_demo"}
  /\ DOMAIN layerLogs = Gateways /\ \A g \in Gateways : ScoredList(layerLogs[g])
  /\ DOMAIN running = AllTools
  /\ \A tool \in AllTools :
       DOMAIN running[tool] = {"mems", "answers"} /\ IsList(running[tool].answers)
  /\ past \in [AllTools -> [began : Nat, ended : Nat, died : Nat]]
  /\ guardrails \in BOOLEAN \cup {None} /\ evidence \in EvidenceFiles \cup {None}

FileInv ==
  evidence # None =>
    /\ evidence.checklist = checklist(evidence.layers, evidence.story)
    /\ scenario = "security_layers" => evidence.ok = (Layers \subseteq evidence.checklist)
    /\ scenario = "secure_community_demo" => evidence.ok = (evidence.story = TRUE)

\* Not refused, layer 1 always goes as told.
PreventativeInv ==
  LET a == Answers(P) IN
  /\ \A i \in DOMAIN a :
       /\ i = 1 => a[i].refused = TRUE \/ a[i].attack = TRUE
       /\ i = 2 => a[i].refused = TRUE \/ a[i].executed = TRUE
       /\ i = 3 => a[i].executed = FALSE /\ a[i].attack = FALSE
  /\ First(P) => /\ At(P) = 0 => ScoreOn("layer1-baseline") = 0
                 /\ At(P) <= 2 => ScoreOn("layer1-defended") = 0
                 /\ \A i \in DOMAIN a : i <= 3 => a[i].refused = FALSE
  /\ past[P].ended > 0 /\ past[P].died = 0 => DoneBy(P)

\* Whoever was banned is, and a done layer refuses what a run asks first.
BannedInv(tool, g) ==
  /\ \A i \in DOMAIN Answers(tool) :
       \/ Answers(tool)[i].banned = FALSE
       \/ Answers(tool)[i].banned = TRUE /\ ScoreOn(g) >= 30
  /\ DoneBy(tool) => ScoreOn(g) >= 30
                     /\ (At(tool) >= 1 => Answers(tool)[1].refused = TRUE)

AccountabilityInv ==
  LET a == Answers(A)
      g == "layer2-accountability" IN
  /\ BannedInv(A, g)
  /\ First(A) =>
       /\ ~ Busy(A) => layerLogs[g] = <<>>
       /\ At(A) = 0 => ScoreOn(g) = 0
       /\ Busy(A) /\ At(A) = 0 => running[A].mems = [h \in {g} |-> Fresh]
       /\ At(A) = 1 => ScoreOn(g) = 10 /\ g \in DOMAIN running[A].mems
                         /\ FakeOwned(running[A].mems[g])
       /\ At(A) >= 2 => ScoreOn(g) >= 35
       /\ \A i \in DOMAIN a :
            /\ i = 1 => a[i].score = 10 /\ a[i].banned = FALSE
            /\ i <= 2 => a[i].refused = FALSE
            /\ i = 5 => a[i].score \in Nat /\ a[i].score >= 35 /\ a[i].banned = TRUE
  /\ past[A].ended > 0 /\ past[A].died = 0 => DoneBy(A)

ImpactInv ==
  LET a == Answers(I) IN
  /\ At(I) >= 1 => a[1].executed = guardrails /\ guardrails # None
  /\ past[I].ended > 0 => guardrails # None /\ (guardrails = TRUE => DoneBy(I))
  /\ DoneBy(I) => guardrails = TRUE

EpisodeInv ==
  LET a == Answers(Episode)
      g == "integrated-defended-gateway"
      score == ScoreOn(g) IN
  /\ BannedInv(Episode, g)
  /\ At(Episode) >= 9 => a[9].executed = guardrails /\ guardrails # None
  /\ First(Episode) =>
       /\ At(Episode) = 0 => score = 0
       /\ At(Episode) = 1 => score = 0
       /\ At(Episode) = 2 => score = 10
       /\ At(Episode) = 3 => score = 20
       /\ At(Episode) >= 4 => score >= 30
       /\ \A i \in DOMAIN a :
            /\ i <= 3 => a[i].refused = FALSE
            /\ i = 1 => a[i].executed = TRUE
            /\ i \in {2, 3} => a[i].executed = FALSE /\ a[i].attack = FALSE
                                 /\ a[i].banned = FALSE
            /\ i = 8 => a[i].banned = TRUE
  /\ past[Episode].ended > 0 => guardrails # None
  /\ past[Episode].ended > 0 /\ past[Episode].died = 0 /\ guardrails = TRUE
       => DoneBy(Episode)

LayersInv ==
  /\ LayersTyped /\ FileInv
  /\ PreventativeInv /\ AccountabilityInv /\ ImpactInv /\ EpisodeInv

\* The predicates read what the tools put into the file.
LEMMA DoneIs ==
  ASSUME LayersTyped, FileInv, NEW tool \in AllTools
  PROVE  LayerDone(tool) <=> DoneBy(tool)
<1>1. CASE evidence = None
  <2>1. SecuritySection = NoEvidence /\ NoEvidence.checklist = {} /\ ~ DoneBy(tool)
    BY <1>1 DEF SecuritySection, NoEvidence, DoneBy
  <2> QED
    BY <2>1 DEF LayerDone, Satisfied, Spelled, predicate, InChecklist
<1>2. CASE evidence # None
  <2>1. SecuritySection = evidence /\ evidence # Absent
    BY <1>2, LayersAssumption DEF SecuritySection, LayersTyped
  <2>2. evidence.checklist = checklist(evidence.layers, evidence.story)
    BY <1>2 DEF FileInv
  <2>3. CASE tool = Episode
    <3>1. LayerDone(tool) <=> "integrated" \in evidence.checklist
      BY <2>1, <2>3 DEF LayerDone, Satisfied, Spelled, predicate, InChecklist
    <3> QED
      BY <1>2, <2>2, <2>3, <3>1 DEF DoneBy, checklist, Layers
  <2>4. CASE tool # Episode
    <3>1. LayerDone(tool) <=> layer_of(tool) \in evidence.checklist
      BY <2>1, <2>4 DEF LayerDone, Satisfied, Spelled, predicate, InChecklist
    <3>2. layer_of(tool) \in Layers /\ layer_of(tool) # "integrated"
      BY <2>4, ToolsDiffer DEF layer_of, Layers, P, A, I, Episode
    <3> QED
      BY <1>2, <2>2, <2>4, <3>1, <3>2 DEF DoneBy, checklist
  <2> QED
    BY <2>3, <2>4
<1> QED
  BY <1>1, <1>2

LEMMA AllDoneIs ==
  ASSUME LayersTyped, FileInv
  PROVE  /\ AllDone => evidence # None
         /\ scenario = "security_layers" /\ evidence # None =>
              (AllDone <=> DoneBy(P) /\ DoneBy(A) /\ DoneBy(I))
         /\ scenario = "secure_community_demo" /\ evidence # None =>
              (AllDone <=> DoneBy(Episode))
<1>1. CASE evidence = None
  <2>1. SecuritySection = NoEvidence /\ NoEvidence.ok = FALSE
    BY <1>1 DEF SecuritySection, NoEvidence
  <2> QED
    BY <1>1, <2>1 DEF AllDone, Satisfied, Spelled, predicate
<1>2. CASE evidence # None
  <2>1. SecuritySection = evidence /\ evidence # Absent
    BY <1>2, LayersAssumption DEF SecuritySection, LayersTyped
  <2>2. AllDone <=> evidence.ok = TRUE
    <3>1. evidence.ok \in BOOLEAN
      BY <1>2 DEF LayersTyped, EvidenceFiles
    <3> QED
      BY <2>1, <3>1 DEF AllDone, Satisfied, Spelled, predicate
  <2>3. ASSUME scenario = "security_layers"
        PROVE  AllDone <=> DoneBy(P) /\ DoneBy(A) /\ DoneBy(I)
    <3>1. evidence.ok = (Layers \subseteq evidence.checklist)
          /\ evidence.checklist = checklist(evidence.layers, evidence.story)
      BY <1>2, <2>3 DEF FileInv
    <3>2. Layers \subseteq evidence.checklist <=>
            \A l \in Layers : evidence.layers[l] = TRUE
      BY <3>1 DEF checklist, Layers
    <3>3. layer_of(P) = "layer1" /\ layer_of(A) = "layer2" /\ layer_of(I) = "layer3"
      BY DEF layer_of, P, A, I, Episode
    <3>4. DoneBy(P) /\ DoneBy(A) /\ DoneBy(I) <=> \A l \in Layers : evidence.layers[l] = TRUE
      BY <1>2, <3>3, ToolsDiffer DEF DoneBy, Layers
    <3> QED
      BY <2>2, <3>1, <3>2, <3>4
  <2>4. ASSUME scenario = "secure_community_demo"
        PROVE  AllDone <=> DoneBy(Episode)
    BY <1>2, <2>2, <2>4 DEF FileInv, DoneBy
  <2> QED
    BY <1>2, <2>3, <2>4
<1> QED
  BY <1>1, <1>2

---------------------------------------------------------------------------
\* What a step of a tool does, in the terms of the invariant.

\* An answer more.
Grown(tool, x) ==
  /\ At(tool) \in Nat /\ DOMAIN Answers(tool) = 1..At(tool)
  /\ At(tool)' = At(tool) + 1 /\ DOMAIN Answers(tool)' = 1..At(tool) + 1
  /\ \A i \in 1..At(tool) : Answers(tool)'[i] = Answers(tool)[i]
  /\ Answers(tool)'[At(tool) + 1] = x
  /\ IsList(Answers(tool)')

LEMMA GrownIs ==
  ASSUME LayersTyped, NEW tool \in AllTools, NEW x,
         Answers(tool)' = Append(Answers(tool), x)
  PROVE  Grown(tool, x)
<1>1. IsList(Answers(tool))
  BY DEF LayersTyped, Answers
<1>2. Len(Answers(tool)) \in Nat /\ DOMAIN Answers(tool) = 1..Len(Answers(tool))
  BY <1>1, ListShape
<1> DEFINE a == Answers(tool)
           b == Append(a, x)
<1>3. /\ IsList(b) /\ Len(b) = Len(a) + 1 /\ DOMAIN b = 1..Len(a) + 1
      /\ \A i \in 1..Len(a) : b[i] = a[i]
      /\ b[Len(a) + 1] = x
  BY <1>1, ListAppend
<1>4. Answers(tool)' = b /\ At(tool) = Len(a) /\ At(tool)' = Len(b)
  BY DEF At
<1> HIDE DEF b
<1> QED
  BY <1>2, <1>3, <1>4 DEF Grown

\* What one call does to its gateway g.
Called(tool, g, m, call, e, x) ==
  /\ At(tool) \in Nat /\ At(tool) + 1 \in DOMAIN Calls(tool)
  /\ call = Calls(tool)[At(tool) + 1] /\ call.do # "guardrails" /\ g = call.on
  /\ g \in GatewaysOf(tool)
  /\ m = running[tool].mems[g] /\ e = Effected(g, m, call)
  /\ ScoreOn(g) \in Nat /\ Score(e.events, Member) \in Nat
  /\ ScoreOn(g)' = ScoreOn(g) + Score(e.events, Member)
  /\ ScoredList(layerLogs'[g]) /\ DOMAIN layerLogs' = Gateways
  /\ \A h \in Gateways : h # g => layerLogs'[h] = layerLogs[h]
  /\ Grown(tool, x)
  /\ x.refused = e.refused /\ x.executed = e.executed /\ x.attack = e.attack
  /\ x.score = ScoreOn(g)'
  /\ ScoreOn(g)' >= 30 => x.banned = TRUE
  /\ ~ (ScoreOn(g)' >= 30) => x.banned = FALSE
  /\ running'[tool].mems = [running[tool].mems EXCEPT ![g] = e.mem]
  /\ DOMAIN running' = AllTools /\ DOMAIN running'[tool] = {"mems", "answers"}
  /\ \A u \in AllTools : u # tool => running'[u] = running[u]
  /\ running'[tool] # Away /\ Busy(tool)
  /\ past' = past /\ guardrails' = guardrails /\ evidence' = evidence
  /\ scenario' = scenario

LEMMA CallIs ==
  ASSUME LayersTyped, NEW tool \in AllTools, CallGateway(tool)
  PROVE  \E g, m, call, e, x : Called(tool, g, m, call, e, x)
<1>1. PICK call : call = NextCall(tool)
  OBVIOUS
<1>2. PICK g : g = call.on
  OBVIOUS
<1>3. PICK m : m = running[tool].mems[g]
  OBVIOUS
<1>4. PICK e : e = Effected(g, m, call)
  OBVIOUS
<1>5. PICK entries : entries = layerLogs[g] \o e.events
  OBVIOUS
<1>6. PICK x : x = Answer(entries, e)
  OBVIOUS
<1>7. IsList(Answers(tool))
  BY DEF LayersTyped, Answers
<1>8. At(tool) \in Nat /\ At(tool) < Len(Calls(tool))
  BY <1>7, ListShape DEF CallGateway, CallsLeft, At, Answers
<1>9. At(tool) + 1 \in DOMAIN Calls(tool)
  BY <1>8, CallsOwn
<1>10. call = Calls(tool)[At(tool) + 1] /\ call.do # "guardrails"
  BY <1>1 DEF CallGateway, NextCall, At, Answers
<1>11. g \in GatewaysOf(tool) /\ g \in Gateways
  BY <1>2, <1>9, <1>10, CallsOwn, OwnGateways
<1>12. SoundCall(call)
  BY <1>9, <1>10, CallsSound
<1>13. ScoredList(e.events)
  BY <1>4, <1>10, <1>12, EffectedWrites
<1>14. ScoredList(layerLogs[g])
  BY <1>11 DEF LayersTyped
<1>15. ScoreOn(g) \in Nat /\ Score(e.events, Member) \in Nat
  BY <1>13, <1>14, ScoreType DEF ScoreOn
<1>16. ScoredList(entries) /\ Score(entries, Member) = ScoreOn(g) + Score(e.events, Member)
  BY <1>5, <1>13, <1>14, ScoreConcat DEF ScoreOn
<1>17. /\ layerLogs' = [layerLogs EXCEPT ![g] = entries]
       /\ running' = [running EXCEPT ![tool].mems[g] = e.mem,
                                     ![tool].answers = Append(@, x)]
       /\ past' = past /\ guardrails' = guardrails /\ evidence' = evidence
       /\ scenario' = scenario /\ Busy(tool)
  BY <1>1, <1>2, <1>3, <1>4, <1>5, <1>6 DEF CallGateway
<1>18. /\ x.refused = e.refused /\ x.executed = e.executed /\ x.attack = e.attack
       /\ x.score = Score(entries, Member)
       /\ Score(entries, Member) >= 30 => x.banned = TRUE
       /\ ~ (Score(entries, Member) >= 30) => x.banned = FALSE
  <2> DEFINE n == Score(entries, Member)
           b == n >= 30
  <2>1. x = [refused |-> e.refused, executed |-> e.executed, attack |-> e.attack,
             score |-> n, banned |-> b]
    BY <1>6 DEF Answer, ban_threshold
  <2>2. (n >= 30 => b = TRUE) /\ (~ (n >= 30) => b = FALSE)
    OBVIOUS
  <2> HIDE DEF n, b
  <2>3. /\ x.refused = e.refused /\ x.executed = e.executed /\ x.attack = e.attack
        /\ x.score = n /\ x.banned = b
    BY <2>1
  <2> QED
    BY <2>2, <2>3 DEF n
<1>19. layerLogs'[g] = entries /\ DOMAIN layerLogs' = Gateways
       /\ \A h \in Gateways : h # g => layerLogs'[h] = layerLogs[h]
  BY <1>11, <1>17 DEF LayersTyped
<1>20. ScoreOn(g)' = Score(entries, Member)
  BY <1>19 DEF ScoreOn
<1>21. /\ DOMAIN running' = AllTools
       /\ \A u \in AllTools : u # tool => running'[u] = running[u]
       /\ DOMAIN running'[tool] = {"mems", "answers"}
       /\ running'[tool].mems = [running[tool].mems EXCEPT ![g] = e.mem]
       /\ running'[tool].answers = Append(running[tool].answers, x)
  BY <1>17 DEF LayersTyped
<1>22. Grown(tool, x)
  BY <1>21, GrownIs DEF Answers
<1>23. running'[tool] # Away
  <2>1. Len(running'[tool].answers) = At(tool) + 1 /\ Len(<<>>) = 0
    BY <1>22 DEF Grown, At, Answers
  <2>2. running'[tool].answers # <<>>
    BY <1>8, <2>1
  <2> QED
    BY <2>2 DEF Away
<1>24. Called(tool, g, m, call, e, x)
  <2>1. /\ ScoreOn(g)' >= 30 => x.banned = TRUE
        /\ ~ (ScoreOn(g)' >= 30) => x.banned = FALSE
    BY <1>18, <1>20
  <2>2. ScoreOn(g)' = ScoreOn(g) + Score(e.events, Member) /\ x.score = ScoreOn(g)'
    BY <1>16, <1>18, <1>20
  <2>3. ScoredList(layerLogs'[g])
    BY <1>16, <1>19
  <2> QED
    BY <1>2, <1>3, <1>4, <1>8, <1>9, <1>10, <1>11, <1>15, <1>17, <1>18, <1>19, <1>21,
       <1>22, <1>23, <2>1, <2>2, <2>3 DEF Called
<1> QED
  BY <1>24

\* The probe, or what is known of it.
Probed(tool, x) ==
  /\ Grown(tool, x) /\ x.executed = guardrails' /\ x.refused = FALSE
  /\ x.attack = FALSE /\ x.banned = FALSE
  /\ guardrails' \in BOOLEAN
  /\ guardrails = None \/ guardrails' = guardrails
  /\ At(tool) + 1 \in DOMAIN Calls(tool)
  /\ Calls(tool)[At(tool) + 1].do = "guardrails"
  /\ DOMAIN running' = AllTools /\ DOMAIN running'[tool] = {"mems", "answers"}
  /\ \A u \in AllTools : u # tool => running'[u] = running[u]
  /\ past' = past /\ layerLogs' = layerLogs /\ evidence' = evidence
  /\ scenario' = scenario

LEMMA ProbeIs ==
  ASSUME LayersTyped, NEW tool \in AllTools, read_or_run_real_guardrails(tool)
  PROVE  \E x : Probed(tool, x)
<1>1. PICK ok \in BOOLEAN :
        /\ guardrails' = IF guardrails = None THEN ok ELSE guardrails
        /\ running' = [running EXCEPT ![tool].answers = Append(@,
             [refused |-> FALSE, executed |-> guardrails', attack |-> FALSE,
              score |-> 0, banned |-> FALSE])]
  BY DEF read_or_run_real_guardrails
<1>2. PICK x : x = [refused |-> FALSE, executed |-> guardrails', attack |-> FALSE,
                    score |-> 0, banned |-> FALSE]
  OBVIOUS
<1>3. x.executed = guardrails' /\ x.refused = FALSE /\ x.attack = FALSE
        /\ x.banned = FALSE
  BY <1>2
<1>4. running' = [running EXCEPT ![tool].answers = Append(@, x)]
  BY <1>1, <1>2
<1>5. /\ DOMAIN running' = AllTools /\ DOMAIN running'[tool] = {"mems", "answers"}
      /\ \A u \in AllTools : u # tool => running'[u] = running[u]
      /\ running'[tool].answers = Append(running[tool].answers, x)
  BY <1>4 DEF LayersTyped
<1>6. Grown(tool, x)
  BY <1>5, GrownIs DEF Answers
<1>7. guardrails' \in BOOLEAN /\ (guardrails = None \/ guardrails' = guardrails)
  BY <1>1 DEF LayersTyped
<1>8. IsList(Answers(tool))
  BY DEF LayersTyped, Answers
<1>9. At(tool) \in Nat /\ At(tool) < Len(Calls(tool))
  BY <1>8, ListShape DEF read_or_run_real_guardrails, CallsLeft, At, Answers
<1>10. At(tool) + 1 \in DOMAIN Calls(tool)
       /\ Calls(tool)[At(tool) + 1].do = "guardrails"
  BY <1>9, CallsOwn DEF read_or_run_real_guardrails, NextCall, At, Answers
<1>11. past' = past /\ layerLogs' = layerLogs /\ evidence' = evidence
         /\ scenario' = scenario
  BY DEF read_or_run_real_guardrails
<1>12. Probed(tool, x)
  BY <1>3, <1>5, <1>6, <1>7, <1>10, <1>11 DEF Probed
<1> QED
  BY <1>12

\* A tool that begins, comes to its end or dies has no answers after it.
Emptied(tool) ==
  /\ DOMAIN running' = AllTools /\ DOMAIN running'[tool] = {"mems", "answers"}
  /\ \A u \in AllTools : u # tool => running'[u] = running[u]
  /\ Answers(tool)' = <<>> /\ At(tool)' = 0 /\ DOMAIN Answers(tool)' = {}
  /\ IsList(Answers(tool)')
  /\ \A u \in AllTools : u # tool => past'[u] = past[u]
  /\ past' \in [AllTools -> [began : Nat, ended : Nat, died : Nat]]
  /\ scenario' = scenario /\ guardrails' = guardrails

Began(tool) ==
  /\ Emptied(tool) /\ layerLogs' = layerLogs /\ evidence' = evidence
  /\ past'[tool].ended = past[tool].ended /\ past'[tool].died = past[tool].died
  /\ ~ Busy(tool)
  /\ running'[tool].mems =
       [g \in {Calls(tool)[i].on : i \in DOMAIN Calls(tool)} \ {None} |->
          reload_runtime_state(layerLogs[g])]

LEMMA AwayIs == DOMAIN Away = {"mems", "answers"} /\ Away.answers = <<>>
BY DEF Away

LEMMA NothingKept ==
  ASSUME NEW tool, Answers(tool)' = <<>>
  PROVE  At(tool)' = 0 /\ DOMAIN Answers(tool)' = {} /\ IsList(Answers(tool)')
<1>1. Len(<<>>) = 0
  OBVIOUS
<1> QED
  BY <1>1, ListNone DEF At

LEMMA BeginIs ==
  ASSUME LayersTyped, NEW tool \in AllTools, BeginTool(tool)
  PROVE  Began(tool)
<1> DEFINE held == [g \in {Calls(tool)[i].on : i \in DOMAIN Calls(tool)} \ {None} |->
                      reload_runtime_state(layerLogs[g])]
<1>1. /\ running[tool] = Away
      /\ past' = [past EXCEPT ![tool].began = @ + 1]
      /\ running' = [running EXCEPT ![tool].mems = held]
      /\ scenario' = scenario /\ layerLogs' = layerLogs /\ guardrails' = guardrails
      /\ evidence' = evidence
  BY DEF BeginTool
<1> HIDE DEF held
<1>2. /\ DOMAIN running' = AllTools /\ DOMAIN running'[tool] = {"mems", "answers"}
      /\ \A u \in AllTools : u # tool => running'[u] = running[u]
      /\ running'[tool].mems = held /\ running'[tool].answers = running[tool].answers
  BY <1>1 DEF LayersTyped
<1>3. Answers(tool)' = <<>>
  BY <1>1, <1>2, AwayIs DEF Answers
<1>4. /\ past' \in [AllTools -> [began : Nat, ended : Nat, died : Nat]]
      /\ \A u \in AllTools : u # tool => past'[u] = past[u]
      /\ past'[tool].ended = past[tool].ended /\ past'[tool].died = past[tool].died
  BY <1>1 DEF LayersTyped
<1>5. ~ Busy(tool)
  BY <1>1 DEF Busy
<1> QED
  BY <1>1, <1>2, <1>3, <1>4, <1>5, NothingKept DEF Began, Emptied, held

Died(tool) ==
  /\ Emptied(tool) /\ evidence' = evidence /\ past'[tool].died > 0
  /\ past'[tool].ended = past[tool].ended
  /\ DOMAIN layerLogs' = Gateways
  /\ \A g \in Gateways : ScoredList(layerLogs'[g]) /\ ScoreOn(g)' >= ScoreOn(g)
  /\ \A g \in Gateways : g \notin GatewaysOf(tool) => layerLogs'[g] = layerLogs[g]

LEMMA PrefixScored ==
  ASSUME NEW s, ScoredList(s), NEW n \in 0..Len(s)
  PROVE  ScoredList(SubSeq(s, 1, n))
<1>1. s \in Seq(Parts(s)) /\ Len(s) \in Nat /\ DOMAIN s = 1..Len(s)
  BY ListShape DEF ScoredList
<1> DEFINE t == SubSeq(s, 1, n)
<1>2. t \in Seq(Parts(s)) /\ Len(t) = n /\ \A i \in 1..n : t[i] = s[i]
  BY <1>1
<1> HIDE DEF t
<1>3. IsList(t) /\ DOMAIN t = 1..n
  BY <1>2, ListIn
<1>4. \A i \in 1..n : i \in DOMAIN s
  BY <1>1
<1>5. ScoredList(t)
  BY <1>2, <1>3, <1>4 DEF ScoredList
<1> QED
  BY <1>5 DEF t

LEMMA DieIs ==
  ASSUME LayersTyped, NEW tool \in AllTools, DieIn(tool)
  PROVE  Died(tool)
<1>1. /\ running' = [running EXCEPT ![tool] = Away]
      /\ past' = [past EXCEPT ![tool].died = @ + 1]
      /\ scenario' = scenario /\ guardrails' = guardrails /\ evidence' = evidence
  BY DEF DieIn
<1>2. /\ DOMAIN running' = AllTools /\ DOMAIN running'[tool] = {"mems", "answers"}
      /\ \A u \in AllTools : u # tool => running'[u] = running[u]
      /\ running'[tool].answers = <<>>
  BY <1>1, AwayIs DEF LayersTyped
<1>3. Answers(tool)' = <<>>
  BY <1>2 DEF Answers
<1>4. /\ past' \in [AllTools -> [began : Nat, ended : Nat, died : Nat]]
      /\ \A u \in AllTools : u # tool => past'[u] = past[u]
      /\ past'[tool].ended = past[tool].ended /\ past'[tool].died > 0
  BY <1>1 DEF LayersTyped
<1>5. /\ DOMAIN layerLogs' = Gateways
      /\ \A g \in Gateways : ScoredList(layerLogs'[g]) /\ ScoreOn(g)' >= ScoreOn(g)
      /\ \A g \in Gateways : g \notin GatewaysOf(tool) => layerLogs'[g] = layerLogs[g]
  <2>1. \A g \in Gateways : ScoredList(layerLogs[g]) /\ ScoreOn(g) \in Nat
    BY ScoreType DEF LayersTyped, ScoreOn
  <2>2. CASE CallsLeft(tool) /\ NextCall(tool).do # "guardrails"
    <3>1. PICK call : call = NextCall(tool)
      OBVIOUS
    <3>2. PICK g : g = call.on
      OBVIOUS
    <3>3. PICK events : events = Effected(g, running[tool].mems[g], call).events
      OBVIOUS
    <3>4. PICK n \in 0..Len(events) :
            layerLogs' = [layerLogs EXCEPT ![g] = @ \o SubSeq(events, 1, n)]
      BY <2>2, <3>1, <3>2, <3>3 DEF DieIn
    <3>5. IsList(Answers(tool))
      BY DEF LayersTyped, Answers
    <3>6. At(tool) \in Nat /\ At(tool) < Len(Calls(tool))
      BY <2>2, <3>5, ListShape DEF CallsLeft, At, Answers
    <3>7. At(tool) + 1 \in DOMAIN Calls(tool) /\ call = Calls(tool)[At(tool) + 1]
      BY <3>1, <3>6, CallsOwn DEF NextCall, At, Answers
    <3>8. g \in GatewaysOf(tool) /\ g \in Gateways /\ SoundCall(call)
      BY <2>2, <3>1, <3>2, <3>7, CallsOwn, OwnGateways, CallsSound
    <3>9. ScoredList(events)
      BY <2>2, <3>1, <3>3, <3>8, EffectedWrites
    <3>10. PICK t : t = SubSeq(events, 1, n)
      OBVIOUS
    <3>11. ScoredList(t)
      BY <3>9, <3>10, PrefixScored
    <3>12. PICK r : r = layerLogs[g] \o t
      OBVIOUS
    <3>13. ScoredList(r) /\ Score(r, Member) = ScoreOn(g) + Score(t, Member)
      BY <2>1, <3>8, <3>11, <3>12, ScoreConcat DEF ScoreOn
    <3>14. Score(t, Member) \in Nat
      BY <3>11, ScoreType
    <3>15. layerLogs'[g] = r /\ DOMAIN layerLogs' = Gateways
           /\ \A h \in Gateways : h # g => layerLogs'[h] = layerLogs[h]
      BY <3>4, <3>8, <3>10, <3>12 DEF LayersTyped
    <3>16. ASSUME NEW h \in Gateways
           PROVE  ScoredList(layerLogs'[h]) /\ ScoreOn(h)' >= ScoreOn(h)
      <4>1. CASE h = g
        BY <2>1, <3>8, <3>13, <3>14, <3>15, <4>1 DEF ScoreOn
      <4>2. CASE h # g
        BY <2>1, <3>15, <4>2 DEF ScoreOn
      <4> QED
        BY <4>1, <4>2
    <3> QED
      BY <3>8, <3>15, <3>16
  <2>3. CASE ~ (CallsLeft(tool) /\ NextCall(tool).do # "guardrails")
    <3>1. layerLogs' = layerLogs
      BY <2>3 DEF DieIn
    <3>2. \A g \in Gateways : ScoreOn(g)' = ScoreOn(g)
      BY <3>1 DEF ScoreOn
    <3> QED
      BY <2>1, <3>1, <3>2 DEF LayersTyped
  <2> QED
    BY <2>2, <2>3
<1> QED
  BY <1>1, <1>2, <1>3, <1>4, <1>5, NothingKept DEF Died, Emptied

---------------------------------------------------------------------------
\* The file after a tool came to its end.

InFile(file, tool) ==
  (IF tool = Episode THEN file.story ELSE file.layers[layer_of(tool)]) = TRUE

LEMMA LayerNames ==
  /\ layer_of(P) = "layer1" /\ layer_of(A) = "layer2" /\ layer_of(I) = "layer3"
  /\ LayerTools = {P, A, I} /\ Episode \notin LayerTools
BY DEF layer_of, P, A, I, Episode, LayerTools

LEMMA ReadIs ==
  ASSUME LayersTyped
  PROVE  /\ read_evidence \in EvidenceFiles
         /\ \A tool \in AllTools : DoneBy(tool) <=> InFile(read_evidence, tool)
<1>1. None # TRUE
  BY LayersAssumption
<1>2. CASE evidence = None
  <2>1. /\ read_evidence = [layers |-> [l \in Layers |-> None], story |-> None,
                             ok |-> FALSE, checklist |-> {}]
        /\ \A tool \in AllTools : ~ DoneBy(tool)
    BY <1>2 DEF read_evidence, DoneBy
  <2>2. ASSUME NEW tool \in AllTools
        PROVE  ~ InFile(read_evidence, tool)
    <3>1. tool # Episode => layer_of(tool) \in Layers
      BY LayerNames, ToolsDiffer DEF Layers
    <3> QED
      BY <1>1, <2>1, <3>1 DEF InFile
  <2>3. read_evidence \in EvidenceFiles
    BY <2>1 DEF EvidenceFiles
  <2> QED
    BY <2>1, <2>2, <2>3
<1>3. CASE evidence # None
  BY <1>3 DEF read_evidence, LayersTyped, DoneBy, InFile
<1> QED
  BY <1>2, <1>3

\* The file has the result of the tool, and what it had of the others.
Wrote(tool, result) ==
  /\ evidence' \in EvidenceFiles /\ evidence' # None
  /\ evidence'.checklist = checklist(evidence'.layers, evidence'.story)
  /\ tool # Episode => evidence'.ok = (Layers \subseteq evidence'.checklist)
  /\ tool = Episode => evidence'.ok = (evidence'.story = TRUE)
  /\ InFile(evidence', tool) <=> result = TRUE
  /\ \A u \in AllTools : u # tool => (InFile(evidence', u) <=> InFile(read_evidence, u))

LEMMA LayerWritten ==
  ASSUME LayersTyped, NEW tool \in LayerTools, NEW result \in BOOLEAN,
         update_layer(tool, result)
  PROVE  Wrote(tool, result)
<1>1. PICK file : file = read_evidence
  OBVIOUS
<1>2. file \in EvidenceFiles
  BY <1>1, ReadIs
<1>3. PICK layers : layers = [file.layers EXCEPT ![layer_of(tool)] = result]
  OBVIOUS
<1>4. PICK list : list = checklist(layers, file.story)
  OBVIOUS
<1>5. evidence' = [layers |-> layers, story |-> file.story,
                   ok |-> Layers \subseteq list, checklist |-> list]
  BY <1>1, <1>3, <1>4 DEF update_layer
<1>6. layer_of(tool) \in Layers /\ tool # Episode /\ tool \in AllTools
  BY LayerNames, ToolsDiffer DEF Layers
<1>7. /\ layers \in [Layers -> BOOLEAN \cup {None}]
      /\ layers[layer_of(tool)] = result
      /\ \A l \in Layers : l # layer_of(tool) => layers[l] = file.layers[l]
  BY <1>2, <1>3, <1>6 DEF EvidenceFiles
<1>8. list \in SUBSET (Layers \cup {"integrated"})
  BY <1>4 DEF checklist
<1>9. file.story \in BOOLEAN \cup {None}
  BY <1>2 DEF EvidenceFiles
<1> DEFINE ok == Layers \subseteq list
<1>10. ok \in BOOLEAN
  OBVIOUS
<1>11. evidence' = [layers |-> layers, story |-> file.story, ok |-> ok, checklist |-> list]
  BY <1>5
<1> HIDE DEF ok
<1>12. evidence' \in EvidenceFiles
  BY <1>7, <1>8, <1>9, <1>10, <1>11 DEF EvidenceFiles
<1>13. evidence' # None
  BY <1>12, LayersAssumption
<1>14. /\ evidence'.layers = layers /\ evidence'.story = file.story
       /\ evidence'.ok = ok /\ evidence'.checklist = list
  BY <1>11
<1>15. \A u \in AllTools : u # tool => (InFile(evidence', u) <=> InFile(file, u))
  <2> SUFFICES ASSUME NEW u \in AllTools, u # tool
               PROVE  InFile(evidence', u) <=> InFile(file, u)
    OBVIOUS
  <2>1. CASE u = Episode
    BY <1>14, <2>1 DEF InFile
  <2>2. CASE u # Episode
    <3>1. layer_of(u) \in Layers /\ layer_of(u) # layer_of(tool)
      BY <2>2, LayerNames, ToolsDiffer DEF Layers
    <3> QED
      BY <1>7, <1>14, <2>2, <3>1 DEF InFile
  <2> QED
    BY <2>1, <2>2
<1>16. InFile(evidence', tool) <=> result = TRUE
  BY <1>6, <1>7, <1>14 DEF InFile
<1>17. evidence'.ok = (Layers \subseteq evidence'.checklist)
  BY <1>14 DEF ok
<1> QED
  BY <1>1, <1>4, <1>6, <1>12, <1>13, <1>14, <1>15, <1>16, <1>17 DEF Wrote

LEMMA StoryWritten ==
  ASSUME LayersTyped, NEW result \in BOOLEAN, update_integrated_episode(result)
  PROVE  Wrote(Episode, result)
<1>1. PICK file : file = read_evidence
  OBVIOUS
<1>2. file \in EvidenceFiles
  BY <1>1, ReadIs
<1>3. PICK list : list = checklist(file.layers, result)
  OBVIOUS
<1>4. evidence' = [layers |-> file.layers, story |-> result, ok |-> result,
                   checklist |-> list]
  BY <1>1, <1>3 DEF update_integrated_episode
<1>5. list \in SUBSET (Layers \cup {"integrated"})
  BY <1>3 DEF checklist
<1>6. evidence' \in EvidenceFiles
  BY <1>2, <1>4, <1>5 DEF EvidenceFiles
<1>7. evidence' # None
  BY <1>6, LayersAssumption
<1>8. /\ evidence'.layers = file.layers /\ evidence'.story = result
      /\ evidence'.ok = result /\ evidence'.checklist = list
  BY <1>4
<1>9. result = (result = TRUE)
  OBVIOUS
<1>10. \A u \in AllTools : u # Episode => (InFile(evidence', u) <=> InFile(file, u))
  BY <1>8 DEF InFile
<1>11. InFile(evidence', Episode) <=> result = TRUE
  BY <1>8 DEF InFile
<1> QED
  BY <1>1, <1>3, <1>6, <1>7, <1>8, <1>9, <1>10, <1>11 DEF Wrote

LEMMA RepresentedType ==
  ASSUME NEW tool \in AllTools, NEW answers
  PROVE  represented(tool, answers) \in BOOLEAN
<1>1. tool \in {P, A, I, Episode}
  BY ToolsDiffer
<1> QED
  BY <1>1 DEF represented, P, A, I, Episode

\* A tool came to its end: it raised, or it put its result into the file.
Concluded(tool) ==
  /\ Emptied(tool) /\ layerLogs' = layerLogs
  /\ past[tool].ended \in Nat /\ past[tool].died \in Nat
  /\ past'[tool].ended > 0 /\ past'[tool].died = past[tool].died
  /\ At(tool) \in Nat /\ At(tool) >= Len(Calls(tool)) /\ DOMAIN Answers(tool) = 1..At(tool)
  /\ \/ Raises(tool, Answers(tool)) /\ evidence' = evidence
     \/ /\ ~ Raises(tool, Answers(tool))
        /\ \E result \in BOOLEAN :
             /\ result = represented(tool, Answers(tool))
             /\ Wrote(tool, result)

LEMMA ConcludeIs ==
  ASSUME LayersTyped, NEW tool \in AllTools, Conclude(tool)
  PROVE  Concluded(tool)
<1>1. /\ running' = [running EXCEPT ![tool] = Away]
      /\ past' = [past EXCEPT ![tool].ended = @ + 1]
      /\ scenario' = scenario /\ guardrails' = guardrails /\ layerLogs' = layerLogs
      /\ ~ CallsLeft(tool)
  BY DEF Conclude
<1>2. /\ DOMAIN running' = AllTools /\ DOMAIN running'[tool] = {"mems", "answers"}
      /\ \A u \in AllTools : u # tool => running'[u] = running[u]
      /\ running'[tool].answers = <<>>
  BY <1>1, AwayIs DEF LayersTyped
<1>3. Answers(tool)' = <<>>
  BY <1>2 DEF Answers
<1>4. /\ past' \in [AllTools -> [began : Nat, ended : Nat, died : Nat]]
      /\ \A u \in AllTools : u # tool => past'[u] = past[u]
      /\ past'[tool].ended > 0 /\ past'[tool].died = past[tool].died
      /\ past[tool].ended \in Nat /\ past[tool].died \in Nat
  BY <1>1 DEF LayersTyped
<1>5. IsList(Answers(tool))
  BY DEF LayersTyped, Answers
<1>6. At(tool) \in Nat /\ At(tool) >= Len(Calls(tool)) /\ DOMAIN Answers(tool) = 1..At(tool)
  BY <1>1, <1>5, CallsOwn, ListShape DEF CallsLeft, At, Answers
<1>7. PICK answers : answers = Answers(tool)
  OBVIOUS
<1>8. PICK result : result = represented(tool, answers)
  OBVIOUS
<1>9. result \in BOOLEAN
  BY <1>8, RepresentedType
<1>10. IF Raises(tool, answers) THEN evidence' = evidence
       ELSE IF tool = Episode THEN update_integrated_episode(result)
       ELSE update_layer(tool, result)
  BY <1>7, <1>8 DEF Conclude, Answers
<1>11. \/ Raises(tool, answers) /\ evidence' = evidence
       \/ ~ Raises(tool, answers) /\ Wrote(tool, result)
  <2>1. CASE Raises(tool, answers)
    BY <1>10, <2>1
  <2>2. CASE ~ Raises(tool, answers) /\ tool = Episode
    BY <1>9, <1>10, <2>2, StoryWritten
  <2>3. CASE ~ Raises(tool, answers) /\ tool # Episode
    <3>1. tool \in LayerTools
      BY <2>3, ToolsDiffer, LayerNames
    <3> QED
      BY <1>9, <1>10, <2>3, <3>1, LayerWritten
  <2> QED
    BY <2>1, <2>2, <2>3
<1>12. Emptied(tool)
  BY <1>1, <1>2, <1>3, <1>4, NothingKept DEF Emptied
<1> QED
  BY <1>1, <1>4, <1>6, <1>7, <1>8, <1>9, <1>11, <1>12 DEF Concluded

---------------------------------------------------------------------------
\* What every step keeps, and what it leaves alone of the other tools.

Elsewhere(tool) ==
  /\ \A u \in AllTools : u # tool =>
       running'[u] = running[u] /\ past'[u] = past[u] /\ (DoneBy(u)' <=> DoneBy(u))
  /\ \A g \in Gateways : g \notin GatewaysOf(tool) => layerLogs'[g] = layerLogs[g]
  /\ guardrails = None \/ guardrails' = guardrails
  /\ guardrails' \in BOOLEAN \cup {None}
  /\ scenario' = scenario

Framed(tool) == LayersTyped' /\ FileInv' /\ Elsewhere(tool)

LEMMA SameDone ==
  ASSUME evidence' = evidence
  PROVE  \A u : DoneBy(u)' <=> DoneBy(u)
BY DEF DoneBy

LEMMA SameFile ==
  ASSUME FileInv, evidence' = evidence, scenario' = scenario
  PROVE  FileInv'
BY DEF FileInv

LEMMA CalledFrames ==
  ASSUME LayersTyped, FileInv, NEW tool \in AllTools,
         NEW g, NEW m, NEW call, NEW e, NEW x, Called(tool, g, m, call, e, x)
  PROVE  Framed(tool)
<1>1. /\ scenario' = scenario /\ past' = past /\ guardrails' = guardrails
      /\ evidence' = evidence /\ DOMAIN layerLogs' = Gateways
      /\ DOMAIN running' = AllTools /\ DOMAIN running'[tool] = {"mems", "answers"}
      /\ \A u \in AllTools : u # tool => running'[u] = running[u]
      /\ g \in GatewaysOf(tool) /\ ScoredList(layerLogs'[g])
      /\ \A h \in Gateways : h # g => layerLogs'[h] = layerLogs[h]
      /\ IsList(running'[tool].answers)
  BY DEF Called, Grown, Answers
<1>2. \A h \in Gateways : ScoredList(layerLogs'[h])
  BY <1>1 DEF LayersTyped
<1>3. \A u \in AllTools :
        DOMAIN running'[u] = {"mems", "answers"} /\ IsList(running'[u].answers)
  BY <1>1 DEF LayersTyped
<1>4. LayersTyped'
  BY <1>1, <1>2, <1>3 DEF LayersTyped
<1>5. Elsewhere(tool)
  BY <1>1, SameDone DEF Elsewhere, LayersTyped
<1> QED
  BY <1>1, <1>4, <1>5, SameFile DEF Framed

LEMMA ProbedFrames ==
  ASSUME LayersTyped, FileInv, NEW tool \in AllTools, NEW x, Probed(tool, x)
  PROVE  Framed(tool)
<1>1. /\ scenario' = scenario /\ past' = past /\ layerLogs' = layerLogs
      /\ evidence' = evidence /\ guardrails' \in BOOLEAN
      /\ guardrails = None \/ guardrails' = guardrails
      /\ DOMAIN running' = AllTools /\ DOMAIN running'[tool] = {"mems", "answers"}
      /\ \A u \in AllTools : u # tool => running'[u] = running[u]
      /\ IsList(running'[tool].answers)
  BY DEF Probed, Grown, Answers
<1>2. \A u \in AllTools :
        DOMAIN running'[u] = {"mems", "answers"} /\ IsList(running'[u].answers)
  BY <1>1 DEF LayersTyped
<1>3. LayersTyped'
  BY <1>1, <1>2 DEF LayersTyped
<1>4. Elsewhere(tool)
  BY <1>1, SameDone DEF Elsewhere
<1> QED
  BY <1>1, <1>3, <1>4, SameFile DEF Framed

LEMMA EmptiedIs ==
  ASSUME LayersTyped, NEW tool \in AllTools, Emptied(tool)
  PROVE  /\ \A u \in AllTools :
              DOMAIN running'[u] = {"mems", "answers"} /\ IsList(running'[u].answers)
         /\ \A u \in AllTools : u # tool => running'[u] = running[u] /\ past'[u] = past[u]
         /\ DOMAIN running' = AllTools /\ scenario' = scenario /\ guardrails' = guardrails
         /\ past' \in [AllTools -> [began : Nat, ended : Nat, died : Nat]]
<1>1. IsList(running'[tool].answers)
  BY DEF Emptied, Answers
<1> QED
  BY <1>1 DEF Emptied, LayersTyped

LEMMA BeganFrames ==
  ASSUME LayersTyped, FileInv, NEW tool \in AllTools, Began(tool)
  PROVE  Framed(tool)
<1>1. Emptied(tool) /\ layerLogs' = layerLogs /\ evidence' = evidence
  BY DEF Began
<1>2. LayersTyped'
  BY <1>1, EmptiedIs DEF LayersTyped
<1>3. Elsewhere(tool)
  BY <1>1, EmptiedIs, SameDone DEF Elsewhere, LayersTyped
<1> QED
  BY <1>1, <1>2, <1>3, EmptiedIs, SameFile DEF Framed

LEMMA DiedFrames ==
  ASSUME LayersTyped, FileInv, NEW tool \in AllTools, Died(tool)
  PROVE  Framed(tool)
<1>1. /\ Emptied(tool) /\ evidence' = evidence
      /\ DOMAIN layerLogs' = Gateways
      /\ \A g \in Gateways : ScoredList(layerLogs'[g])
      /\ \A g \in Gateways : g \notin GatewaysOf(tool) => layerLogs'[g] = layerLogs[g]
  BY DEF Died
<1>2. LayersTyped'
  BY <1>1, EmptiedIs DEF LayersTyped
<1>3. Elsewhere(tool)
  BY <1>1, EmptiedIs, SameDone DEF Elsewhere, LayersTyped
<1> QED
  BY <1>1, <1>2, <1>3, EmptiedIs, SameFile DEF Framed

LEMMA ConcludedFrames ==
  ASSUME LayersTyped, FileInv, NEW tool \in AllTools, tool \in ToolsOf(scenario),
         Concluded(tool)
  PROVE  Framed(tool)
<1>1. Emptied(tool) /\ layerLogs' = layerLogs
  BY DEF Concluded
<1>2. scenario' = scenario /\ guardrails' = guardrails
  BY <1>1, EmptiedIs
<1>3. \/ evidence' = evidence
      \/ \E result \in BOOLEAN : Wrote(tool, result)
  BY DEF Concluded
<1>4. CASE evidence' = evidence
  <2>1. LayersTyped'
    BY <1>1, <1>4, EmptiedIs DEF LayersTyped
  <2>2. Elsewhere(tool)
    BY <1>1, <1>4, EmptiedIs, SameDone DEF Elsewhere, LayersTyped
  <2> QED
    BY <1>2, <1>4, <2>1, <2>2, SameFile DEF Framed
<1>5. ASSUME NEW result \in BOOLEAN, Wrote(tool, result)
      PROVE  Framed(tool)
  <2>1. evidence' \in EvidenceFiles /\ evidence' # None
    BY <1>5 DEF Wrote
  <2>2. LayersTyped'
    BY <1>1, <2>1, EmptiedIs DEF LayersTyped
  <2>3. \A u \in AllTools : u # tool => (DoneBy(u)' <=> DoneBy(u))
    <3> SUFFICES ASSUME NEW u \in AllTools, u # tool
                 PROVE  DoneBy(u)' <=> DoneBy(u)
      OBVIOUS
    <3>1. DoneBy(u)' <=> InFile(evidence', u)
      BY <2>1 DEF DoneBy, InFile
    <3>2. InFile(evidence', u) <=> InFile(read_evidence, u)
      BY <1>5 DEF Wrote
    <3> QED
      BY <3>1, <3>2, ReadIs
  <2>4. Elsewhere(tool)
    BY <1>1, <2>3, EmptiedIs DEF Elsewhere, LayersTyped
  <2>5. FileInv'
    <3>1. scenario = "security_layers" => tool # Episode
      BY LayerNames DEF ToolsOf
    <3>2. scenario = "secure_community_demo" => tool = Episode
      BY DEF ToolsOf
    <3> QED
      BY <1>2, <1>5, <3>1, <3>2 DEF FileInv, Wrote
  <2> QED
    BY <2>2, <2>4, <2>5 DEF Framed
<1> QED
  BY <1>3, <1>4, <1>5

\* So the other tools' invariants stay.
LEMMA OthersKept ==
  ASSUME LayersTyped, NEW tool \in AllTools, Framed(tool),
         NEW u \in AllTools, u # tool
  PROVE  /\ Answers(u)' = Answers(u) /\ At(u)' = At(u) /\ running'[u] = running[u]
         /\ (First(u)' <=> First(u)) /\ (DoneBy(u)' <=> DoneBy(u))
         /\ past'[u] = past[u]
         /\ \A g \in GatewaysOf(u) : layerLogs'[g] = layerLogs[g] /\ ScoreOn(g)' = ScoreOn(g)
         /\ guardrails # None => guardrails' = guardrails
         /\ (Busy(u)' <=> Busy(u))
<1>1. \A g \in GatewaysOf(u) : g \in Gateways /\ g \notin GatewaysOf(tool)
  BY OwnGateways
<1>2. running'[u] = running[u] /\ past'[u] = past[u] /\ (DoneBy(u)' <=> DoneBy(u))
      /\ (guardrails # None => guardrails' = guardrails)
  BY DEF Framed, Elsewhere
<1>3. \A g \in GatewaysOf(u) : layerLogs'[g] = layerLogs[g]
  BY <1>1 DEF Framed, Elsewhere
<1>4. Answers(u)' = Answers(u) /\ At(u)' = At(u) /\ (First(u)' <=> First(u))
      /\ (Busy(u)' <=> Busy(u))
  BY <1>2 DEF Answers, At, First, Busy
<1> QED
  BY <1>2, <1>3, <1>4 DEF ScoreOn

LEMMA PreventativeFrame ==
  ASSUME LayersTyped, NEW tool \in AllTools, Framed(tool), tool # P, PreventativeInv
  PROVE  PreventativeInv'
<1>1. P \in AllTools
  BY ToolsDiffer
<1>2. \A g \in {"layer1-baseline", "layer1-defended"} : g \in GatewaysOf(P)
  BY ToolsDiffer DEF GatewaysOf
<1>3. /\ Answers(P)' = Answers(P) /\ At(P)' = At(P)
      /\ (First(P)' <=> First(P)) /\ (DoneBy(P)' <=> DoneBy(P)) /\ past'[P] = past[P]
      /\ ScoreOn("layer1-baseline")' = ScoreOn("layer1-baseline")
      /\ ScoreOn("layer1-defended")' = ScoreOn("layer1-defended")
  BY <1>1, <1>2, OthersKept
<1> QED
  BY <1>3 DEF PreventativeInv

LEMMA AccountabilityFrame ==
  ASSUME LayersTyped, NEW tool \in AllTools, Framed(tool), tool # A, AccountabilityInv
  PROVE  AccountabilityInv'
<1>1. A \in AllTools
  BY ToolsDiffer
<1>2. "layer2-accountability" \in GatewaysOf(A)
  BY ToolsDiffer DEF GatewaysOf
<1>3. /\ Answers(A)' = Answers(A) /\ At(A)' = At(A) /\ running'[A] = running[A]
      /\ (First(A)' <=> First(A)) /\ (DoneBy(A)' <=> DoneBy(A)) /\ past'[A] = past[A]
      /\ (Busy(A)' <=> Busy(A))
      /\ layerLogs'["layer2-accountability"] = layerLogs["layer2-accountability"]
      /\ ScoreOn("layer2-accountability")' = ScoreOn("layer2-accountability")
  BY <1>1, <1>2, OthersKept
<1> QED
  BY <1>3 DEF AccountabilityInv, BannedInv

LEMMA ImpactFrame ==
  ASSUME LayersTyped, NEW tool \in AllTools, Framed(tool), tool # I, ImpactInv
  PROVE  ImpactInv'
<1>1. I \in AllTools
  BY ToolsDiffer
<1>2. /\ Answers(I)' = Answers(I) /\ At(I)' = At(I)
      /\ (DoneBy(I)' <=> DoneBy(I)) /\ past'[I] = past[I]
      /\ guardrails # None => guardrails' = guardrails
  BY <1>1, OthersKept
<1>3. None # TRUE
  BY LayersAssumption
<1> QED
  BY <1>2, <1>3 DEF ImpactInv

LEMMA EpisodeFrame ==
  ASSUME LayersTyped, NEW tool \in AllTools, Framed(tool), tool # Episode, EpisodeInv
  PROVE  EpisodeInv'
<1>1. Episode \in AllTools
  BY ToolsDiffer
<1>2. "integrated-defended-gateway" \in GatewaysOf(Episode)
  BY ToolsDiffer DEF GatewaysOf
<1>3. /\ Answers(Episode)' = Answers(Episode) /\ At(Episode)' = At(Episode)
      /\ (First(Episode)' <=> First(Episode)) /\ (DoneBy(Episode)' <=> DoneBy(Episode))
      /\ past'[Episode] = past[Episode]
      /\ guardrails # None => guardrails' = guardrails
      /\ ScoreOn("integrated-defended-gateway")' = ScoreOn("integrated-defended-gateway")
  BY <1>1, <1>2, OthersKept
<1> QED
  BY <1>3 DEF EpisodeInv, BannedInv

---------------------------------------------------------------------------
\* The steps of a tool keep its own invariant.

\* The call asks h for a tool by that name.
AsksFor(h, name, m, call, e, x) ==
  /\ e = Asked(h, Later(m), call)
  /\ call.request.tool = name /\ call.request.complete = TRUE
  /\ call.request.box = FakeBox
  /\ call.request.who = None /\ call.request.id = None
  /\ x.refused = e.refused /\ x.executed = e.executed /\ x.attack = e.attack

LEMMA CalledAsks ==
  ASSUME NEW tool, NEW g, NEW m, NEW call, NEW e, NEW x, Called(tool, g, m, call, e, x),
         NEW h, NEW name, IsAsk(call, h, name)
  PROVE  g = h /\ AsksFor(h, name, m, call, e, x)
BY EffectedAsks DEF Called, IsAsk, AsksFor

LEMMA NotAllowed ==
  "exfiltrate_private_key" \notin allowed_tools /\ "modify_iptables" \notin allowed_tools
BY DEF allowed_tools, Safe, Sensitive

LEMMA ModesAre ==
  /\ mode_of("layer1-baseline") = "baseline" /\ mode_of("layer1-defended") = "defended"
  /\ mode_of("layer2-accountability") = "defended"
  /\ mode_of("integrated-defended-gateway") = "defended"
BY DEF mode_of

LEMMA PreventativeCalled ==
  ASSUME LayersTyped, PreventativeInv, NEW g, NEW m, NEW call, NEW e, NEW x,
         Called(P, g, m, call, e, x)
  PROVE  PreventativeInv'
<1> DEFINE k == At(P)
           a == Answers(P)
<1>1. /\ k \in Nat /\ k + 1 \in 1..3 /\ call = Calls(P)[k + 1] /\ g = call.on
      /\ Grown(P, x) /\ past' = past /\ evidence' = evidence
      /\ g \in Gateways /\ ScoreOn(g) \in Nat
      /\ \A h \in Gateways : h # g => layerLogs'[h] = layerLogs[h]
      /\ ScoreOn(g)' = ScoreOn(g) + Score(e.events, Member)
  BY PreventativeCalls, OwnGateways, ToolsDiffer DEF Called
<1>2. /\ DOMAIN a = 1..k /\ DOMAIN a' = 1..k + 1 /\ k' = k + 1
      /\ \A i \in 1..k : a'[i] = a[i]
      /\ a'[k + 1] = x
  BY <1>1 DEF Grown
<1>3. (First(P)' <=> First(P)) /\ (DoneBy(P)' <=> DoneBy(P))
  BY <1>1 DEF First, DoneBy
<1>4. \A h \in Gateways : h # g => ScoreOn(h)' = ScoreOn(h)
  BY <1>1 DEF ScoreOn
<1>5. "layer1-baseline" \in Gateways /\ "layer1-defended" \in Gateways
  BY DEF Gateways
<1> HIDE DEF k, a
<1>6. /\ \A i \in DOMAIN a :
           /\ i = 1 => a[i].refused = TRUE \/ a[i].attack = TRUE
           /\ i = 2 => a[i].refused = TRUE \/ a[i].executed = TRUE
           /\ i = 3 => a[i].executed = FALSE /\ a[i].attack = FALSE
      /\ First(P) => /\ k = 0 => ScoreOn("layer1-baseline") = 0
                     /\ k <= 2 => ScoreOn("layer1-defended") = 0
                     /\ \A i \in DOMAIN a : i <= 3 => a[i].refused = FALSE
      /\ past[P].ended > 0 /\ past[P].died = 0 => DoneBy(P)
  BY DEF PreventativeInv, k, a
<1> SUFFICES /\ k + 1 = 1 => x.refused = TRUE \/ x.attack = TRUE
             /\ k + 1 = 2 => x.refused = TRUE \/ x.executed = TRUE
             /\ k + 1 = 3 => x.executed = FALSE /\ x.attack = FALSE
             /\ First(P) => x.refused = FALSE
             /\ First(P) => (k + 1 <= 2 => ScoreOn("layer1-defended")' = 0)
  <2>1. \A i \in DOMAIN a' :
          /\ i = 1 => a'[i].refused = TRUE \/ a'[i].attack = TRUE
          /\ i = 2 => a'[i].refused = TRUE \/ a'[i].executed = TRUE
          /\ i = 3 => a'[i].executed = FALSE /\ a'[i].attack = FALSE
          /\ First(P) /\ i <= 3 => a'[i].refused = FALSE
    <3> SUFFICES ASSUME NEW i \in 1..k + 1
                 PROVE  /\ i = 1 => a'[i].refused = TRUE \/ a'[i].attack = TRUE
                        /\ i = 2 => a'[i].refused = TRUE \/ a'[i].executed = TRUE
                        /\ i = 3 => a'[i].executed = FALSE /\ a'[i].attack = FALSE
                        /\ First(P) /\ i <= 3 => a'[i].refused = FALSE
      BY <1>2
    <3>1. CASE i = k + 1
      BY <1>2, <3>1
    <3>2. CASE i # k + 1
      <4>1. i \in 1..k
        BY <1>1, <3>2 DEF k
      <4> QED
        BY <1>2, <1>6, <4>1
    <3> QED
      BY <3>1, <3>2
  <2>2. k' # 0
    BY <1>1, <1>2 DEF k
  <2>3. past'[P] = past[P]
    BY <1>1
  <2> QED
    BY <1>2, <1>3, <1>6, <2>1, <2>2, <2>3 DEF PreventativeInv, k, a
<1>7. CASE k + 1 = 1
  <2>1. IsAsk(call, "layer1-baseline", "exfiltrate_private_key")
    BY <1>1, <1>7, PreventativeAsks DEF k
  <2>2. /\ g = "layer1-baseline" /\ e = Asked(g, Later(m), call)
        /\ call.request.tool = "exfiltrate_private_key"
        /\ x.refused = e.refused /\ x.attack = e.attack
    <3>1. g = "layer1-baseline" /\ AsksFor("layer1-baseline", "exfiltrate_private_key", m, call, e, x)
      BY <2>1, CalledAsks
    <3> QED
      BY <3>1 DEF AsksFor
  <2>3. ScoreOn(g) >= 30 => x.refused = TRUE
    BY <2>2, AskedBanned
  <2>4. ~ (ScoreOn(g) >= 30) => x.refused = FALSE /\ x.attack = TRUE
    BY <2>2, BaselineLeaks, ModesAre
  <2>5. k = 0
    BY <1>1, <1>7 DEF k
  <2>6. First(P) => ScoreOn("layer1-defended")' = 0
    BY <1>4, <1>5, <1>6, <2>2, <2>5
  <2>7. First(P) => ~ (ScoreOn(g) >= 30)
    BY <1>6, <2>2, <2>5
  <2> QED
    BY <1>7, <2>3, <2>4, <2>6, <2>7
<1>8. CASE k + 1 = 2
  <2>1. IsAsk(call, "layer1-defended", "send_message")
    BY <1>1, <1>8, PreventativeAsks DEF k
  <2>2. /\ g = "layer1-defended" /\ e = Asked(g, Later(m), call)
        /\ call.request.tool = "send_message" /\ call.request.complete = TRUE
        /\ x.refused = e.refused /\ x.executed = e.executed
    <3>1. g = "layer1-defended" /\ AsksFor("layer1-defended", "send_message", m, call, e, x)
      BY <2>1, CalledAsks
    <3> QED
      BY <3>1 DEF AsksFor
  <2>3. ScoreOn(g) >= 30 => x.refused = TRUE
    BY <2>2, AskedBanned
  <2>4. ~ (ScoreOn(g) >= 30) =>
          x.refused = FALSE /\ x.executed = TRUE /\ Score(e.events, Member) = 0
    BY <2>2, MessageSent, ModesAre
  <2>5. k = 1
    BY <1>1, <1>8 DEF k
  <2>6. First(P) => ScoreOn(g) = 0
    BY <1>6, <2>2, <2>5
  <2> QED
    BY <1>1, <1>8, <2>2, <2>3, <2>4, <2>6
<1>9. CASE k + 1 = 3
  <2>1. IsAsk(call, "layer1-defended", "exfiltrate_private_key")
    BY <1>1, <1>9, PreventativeAsks DEF k
  <2>2. /\ g = "layer1-defended" /\ e = Asked(g, Later(m), call)
        /\ call.request.tool = "exfiltrate_private_key" /\ call.request.complete = TRUE
        /\ x.refused = e.refused /\ x.executed = e.executed /\ x.attack = e.attack
    <3>1. g = "layer1-defended" /\ AsksFor("layer1-defended", "exfiltrate_private_key", m, call, e, x)
      BY <2>1, CalledAsks
    <3> QED
      BY <3>1 DEF AsksFor
  <2>3. ScoreOn(g) >= 30 => x.executed = FALSE /\ x.attack = FALSE
    BY <2>2, AskedBanned
  <2>4. ~ (ScoreOn(g) >= 30) => x.refused = FALSE /\ x.executed = FALSE /\ x.attack = FALSE
    BY <2>2, DefendedBlocks, ModesAre, NotAllowed
  <2>5. k = 2
    BY <1>1, <1>9 DEF k
  <2>6. First(P) => ScoreOn(g) = 0
    BY <1>6, <2>2, <2>5
  <2> QED
    BY <1>9, <2>3, <2>4, <2>6
<1>10. k + 1 = 1 \/ k + 1 = 2 \/ k + 1 = 3
  BY <1>1 DEF k
<1> QED
  BY <1>7, <1>8, <1>9, <1>10

\* A run that is not refused leaves no doubt.
LEMMA PreventativeConcluded ==
  ASSUME LayersTyped, PreventativeInv, Concluded(P)
  PROVE  PreventativeInv' /\ (DoneBy(P) => DoneBy(P)')
<1> DEFINE a == Answers(P)
<1>1. /\ Emptied(P) /\ layerLogs' = layerLogs
      /\ past[P].ended \in Nat /\ past'[P].ended > 0 /\ past'[P].died = past[P].died
      /\ At(P) \in Nat /\ At(P) >= 3 /\ DOMAIN a = 1..At(P)
  BY PreventativeCalls DEF Concluded
<1>2. 1 \in DOMAIN a /\ 2 \in DOMAIN a /\ 3 \in DOMAIN a
  BY <1>1
<1>3. Raises(P, a) <=> \E i \in 1..3 : a[i].refused
  BY DEF Raises, P
<1>4. ASSUME ~ Raises(P, a)
      PROVE  DoneBy(P)'
  <2>1. ~ a[1].refused /\ ~ a[2].refused
    BY <1>3, <1>4
  <2>2. a[1].attack = TRUE /\ a[2].executed = TRUE /\ a[3].executed = FALSE
          /\ a[3].attack = FALSE
    BY <1>2, <2>1 DEF PreventativeInv
  <2>3. represented(P, a) <=> a[1].attack /\ a[2].executed /\ ~ a[3].executed /\ ~ a[3].attack
    BY DEF represented, Blocked, P, Episode
  <2>4. PICK result \in BOOLEAN : result = represented(P, a) /\ Wrote(P, result)
    BY <1>4 DEF Concluded
  <2>5. result = TRUE
    BY <2>2, <2>3, <2>4
  <2> QED
    BY <2>4, <2>5 DEF Wrote, InFile, DoneBy
<1>5. First(P) => ~ Raises(P, a)
  BY <1>2, <1>3 DEF PreventativeInv
<1>6. DoneBy(P) => DoneBy(P)'
  BY <1>4, SameDone DEF Concluded
<1>7. past'[P].died = 0 => DoneBy(P)'
  <2>1. past'[P].died = 0 => First(P) \/ (past[P].ended > 0 /\ past[P].died = 0)
    BY <1>1 DEF First
  <2> QED
    BY <1>4, <1>5, <1>6, <2>1 DEF PreventativeInv
<1>8. ~ First(P)' /\ DOMAIN Answers(P)' = {}
  BY <1>1 DEF First, Emptied
<1> QED
  BY <1>6, <1>7, <1>8 DEF PreventativeInv

LEMMA IdleAt ==
  ASSUME NEW tool, ~ Busy(tool)
  PROVE  At(tool) = 0 /\ DOMAIN Answers(tool) = {}
<1>1. Answers(tool) = <<>>
  BY AwayIs DEF Busy, Answers
<1>2. Len(<<>>) = 0
  OBVIOUS
<1> QED
  BY <1>1, <1>2 DEF At

LEMMA PreventativeBegan ==
  ASSUME LayersTyped, PreventativeInv, Began(P)
  PROVE  PreventativeInv'
<1>1. /\ DOMAIN Answers(P)' = {} /\ At(P)' = 0 /\ layerLogs' = layerLogs
      /\ past'[P].ended = past[P].ended /\ past'[P].died = past[P].died
      /\ evidence' = evidence
  BY DEF Began, Emptied
<1>2. (First(P)' <=> First(P)) /\ (DoneBy(P)' <=> DoneBy(P))
      /\ ScoreOn("layer1-baseline")' = ScoreOn("layer1-baseline")
      /\ ScoreOn("layer1-defended")' = ScoreOn("layer1-defended")
  BY <1>1 DEF First, DoneBy, ScoreOn
<1>3. First(P)' => ScoreOn("layer1-baseline")' = 0 /\ ScoreOn("layer1-defended")' = 0
  <2>1. At(P) = 0
    BY IdleAt DEF Began
  <2> QED
    BY <1>2, <2>1 DEF PreventativeInv
<1> QED
  BY <1>1, <1>2, <1>3 DEF PreventativeInv

LEMMA PreventativeDied ==
  ASSUME LayersTyped, PreventativeInv, Died(P)
  PROVE  PreventativeInv'
<1>1. DOMAIN Answers(P)' = {} /\ past'[P].died > 0
  BY DEF Died, Emptied
<1>2. ~ First(P)' /\ past'[P].died # 0
  BY <1>1 DEF First
<1> QED
  BY <1>1, <1>2 DEF PreventativeInv

LEMMA PreventativeProbed ==
  ASSUME LayersTyped, NEW x, Probed(P, x)
  PROVE  FALSE
BY PreventativeCalls, PreventativeAsks DEF Probed, IsAsk

\* The attacks succeed where nothing is isolated, and only there.
LEMMA TamperingSeen ==
  /\ ~ passed(TRUE) /\ passed(FALSE)
  /\ \A attack \in {"read_private_key", "modify_iptables"} :
       succeeded(attack, TRUE) /\ ~ succeeded(attack, FALSE)
<1>1. \A attack \in TamperAttacks : TargetOf(attack) \in {"log", "key", "wallet", "iptables"}
  BY DEF TargetOf, TamperAttacks
<1>2. \A attack \in TamperAttacks : ~ succeeded(attack, FALSE)
  BY <1>1 DEF succeeded, AsMade
<1>3. succeeded("read_private_key", TRUE)
  BY DEF succeeded
<1>4. TargetOf("modify_iptables") = "iptables"
  BY DEF TargetOf
<1>5. Tampered(AsMade, "modify_iptables")["iptables"] = "altered"
  BY <1>4 DEF Tampered, AsMade
<1>6. succeeded("modify_iptables", TRUE)
  BY <1>4, <1>5 DEF succeeded
<1>7. "read_private_key" \in TamperAttacks /\ "modify_iptables" \in TamperAttacks
  BY DEF TamperAttacks
<1> QED
  BY <1>2, <1>3, <1>6, <1>7 DEF passed

LEMMA ImpactCalled ==
  ASSUME NEW g, NEW m, NEW call, NEW e, NEW x, Called(I, g, m, call, e, x)
  PROVE  FALSE
<1>1. At(I) + 1 = 1 /\ call.do # "guardrails" /\ call = Calls(I)[1]
  BY ImpactCalls DEF Called
<1> QED
  BY <1>1, ImpactCalls DEF Guardrails

LEMMA ImpactProbed ==
  ASSUME ImpactInv, NEW x, Probed(I, x)
  PROVE  ImpactInv'
<1>1. /\ At(I) + 1 \in 1..1 /\ Grown(I, x) /\ x.executed = guardrails'
      /\ guardrails' \in BOOLEAN /\ past' = past /\ evidence' = evidence
      /\ guardrails = None \/ guardrails' = guardrails
  BY ImpactCalls DEF Probed
<1>2. At(I) = 0 /\ At(I)' = 1 /\ Answers(I)'[1] = x
  BY <1>1 DEF Grown
<1>3. guardrails' # None /\ None # TRUE
  BY <1>1, LayersAssumption
<1>4. DoneBy(I)' <=> DoneBy(I)
  BY <1>1 DEF DoneBy
<1> QED
  BY <1>1, <1>2, <1>3, <1>4 DEF ImpactInv

LEMMA ImpactEmptied ==
  ASSUME ImpactInv, Began(I) \/ Died(I)
  PROVE  ImpactInv'
<1>1. /\ At(I)' = 0 /\ guardrails' = guardrails /\ evidence' = evidence
      /\ past'[I].ended = past[I].ended
  BY DEF Began, Died, Emptied
<1>2. DoneBy(I)' <=> DoneBy(I)
  BY <1>1 DEF DoneBy
<1> QED
  BY <1>1, <1>2 DEF ImpactInv

LEMMA ImpactConcluded ==
  ASSUME LayersTyped, ImpactInv, Concluded(I)
  PROVE  ImpactInv' /\ (DoneBy(I) => DoneBy(I)')
<1> DEFINE a == Answers(I)
<1>1. /\ At(I)' = 0 /\ guardrails' = guardrails
      /\ At(I) \in Nat /\ At(I) >= 1
  BY ImpactCalls DEF Concluded, Emptied
<1>2. a[1].executed = guardrails /\ guardrails # None
  BY <1>1 DEF ImpactInv
<1>3. guardrails \in BOOLEAN
  BY <1>2 DEF LayersTyped
<1>4. ~ Raises(I, a)
  BY DEF Raises, I, Episode
<1>5. PICK result \in BOOLEAN : result = represented(I, a) /\ Wrote(I, result)
  BY <1>4 DEF Concluded
<1>6. represented(I, a) <=> ~ passed(TRUE) /\ passed(FALSE) /\ a[1].executed
  BY DEF represented, I, Episode
<1>7. represented(I, a) <=> guardrails = TRUE
  BY <1>2, <1>3, <1>6, TamperingSeen
<1>8. result = TRUE <=> guardrails = TRUE
  BY <1>5, <1>7
<1>9. DoneBy(I)' <=> guardrails = TRUE
  BY <1>5, <1>8 DEF Wrote, InFile, DoneBy
<1> QED
  BY <1>1, <1>2, <1>9 DEF ImpactInv

\* A ban stays, and with it the refusal of what a run asks first.
LEMMA BannedCalled ==
  ASSUME LayersTyped, NEW tool \in AllTools, NEW g, GatewaysOf(tool) = {g},
         Calls(tool)[1].do = "tool", BannedInv(tool, g),
         NEW h, NEW m, NEW call, NEW e, NEW x, Called(tool, h, m, call, e, x)
  PROVE  BannedInv(tool, g)'
<1> DEFINE k == At(tool)
           a == Answers(tool)
<1>1. /\ k \in Nat /\ call = Calls(tool)[k + 1] /\ h = g
      /\ Grown(tool, x) /\ evidence' = evidence
      /\ ScoreOn(g) \in Nat /\ Score(e.events, Member) \in Nat
      /\ ScoreOn(g)' = ScoreOn(g) + Score(e.events, Member)
      /\ x.refused = e.refused /\ e = Effected(g, m, call)
      /\ ScoreOn(g)' >= 30 => x.banned = TRUE
      /\ ~ (ScoreOn(g)' >= 30) => x.banned = FALSE
  BY DEF Called
<1>2. /\ DOMAIN a = 1..k /\ DOMAIN a' = 1..k + 1 /\ k' = k + 1
      /\ \A i \in 1..k : a'[i] = a[i]
      /\ a'[k + 1] = x
  BY <1>1 DEF Grown
<1>3. DoneBy(tool)' <=> DoneBy(tool)
  BY <1>1 DEF DoneBy
<1>4. ScoreOn(g) >= 30 => ScoreOn(g)' >= 30
  BY <1>1
<1>5. ScoreOn(g) >= 30 /\ k = 0 => x.refused = TRUE
  <2> SUFFICES ASSUME ScoreOn(g) >= 30, k = 0
               PROVE  x.refused = TRUE
    OBVIOUS
  <2>1. PICK n : n = Later(m)
    OBVIOUS
  <2>2. e = Asked(g, n, call)
    BY <1>1, <2>1, EffectedAsks
  <2>3. e.refused = TRUE
    BY <2>2, AskedBanned
  <2> QED
    BY <1>1, <2>3
<1> HIDE DEF k, a
<1>6. ASSUME NEW i \in 1..k + 1
      PROVE  \/ a'[i].banned = FALSE
             \/ a'[i].banned = TRUE /\ ScoreOn(g)' >= 30
  <2>1. CASE i = k + 1
    BY <1>1, <1>2, <2>1
  <2>2. CASE i # k + 1
    <3>1. i \in 1..k
      BY <1>1, <2>2 DEF k
    <3>2. \/ a[i].banned = FALSE
          \/ a[i].banned = TRUE /\ ScoreOn(g) >= 30
      BY <1>2, <3>1 DEF BannedInv, a
    <3> QED
      BY <1>2, <1>4, <3>1, <3>2
  <2> QED
    BY <2>1, <2>2
<1>7. DoneBy(tool) => ScoreOn(g) >= 30 /\ (k >= 1 => a[1].refused = TRUE)
  BY DEF BannedInv, k, a
<1>8. DoneBy(tool) => a'[1].refused = TRUE
  <2>1. CASE k = 0
    <3>1. a'[1] = x
      BY <1>2, <2>1
    <3> QED
      BY <1>5, <1>7, <2>1, <3>1
  <2>2. CASE k # 0
    <3>1. k >= 1 /\ 1 \in 1..k
      BY <1>1, <2>2 DEF k
    <3> QED
      BY <1>2, <1>7, <3>1
  <2> QED
    BY <2>1, <2>2
<1> QED
  BY <1>2, <1>3, <1>4, <1>6, <1>7, <1>8 DEF BannedInv, k, a

LEMMA BannedEmptied ==
  ASSUME NEW tool, NEW g \in Gateways, Emptied(tool), ScoreOn(g) \in Nat, ScoreOn(g)' \in Nat,
         ScoreOn(g)' >= ScoreOn(g), DoneBy(tool)' => ScoreOn(g) >= 30
  PROVE  BannedInv(tool, g)'
<1>1. DOMAIN Answers(tool)' = {} /\ At(tool)' = 0
  BY DEF Emptied
<1>2. ScoreOn(g) >= 30 => ScoreOn(g)' >= 30
  OBVIOUS
<1> QED
  BY <1>1, <1>2 DEF BannedInv

---------------------------------------------------------------------------
\* Layer 2.

LEMMA FreshLoads ==
  /\ reload_runtime_state(<<>>) = Fresh
  /\ IsMemory(Later(Fresh)) /\ Later(Fresh).step \in Nat
  /\ DOMAIN Later(Fresh).boxes = Seedboxes
<1>1. reload_runtime_state(<<>>) = Reloading!Value(DOMAIN <<>>, <<>>)
  BY ReloadIs
<1>2. DOMAIN <<>> = {}
  OBVIOUS
<1>3. Reloading!Value({}, <<>>) = Fresh
  BY Reloading!Empty
<1> QED
  BY <1>1, <1>2, <1>3 DEF Later, Fresh, IsMemory, Fields

LEMMA OwnedLater ==
  ASSUME NEW m, FakeOwned(m)
  PROVE  FakeOwned(Later(m)) /\ Later(m).step \in Nat
BY DEF FakeOwned, Later, IsMemory, Fields

LEMMA AccountabilityGateway ==
  LET g == "layer2-accountability" IN
  /\ GatewaysOf(A) = {g} /\ g \in Gateways /\ A \in AllTools /\ Calls(A)[1].do = "tool"
  /\ {Calls(A)[i].on : i \in DOMAIN Calls(A)} \ {None} = {g}
<1> DEFINE g == "layer2-accountability"
<1>1. GatewaysOf(A) = {g} /\ A \in AllTools
  BY ToolsDiffer DEF GatewaysOf
<1>2. g \in Gateways /\ g # None
  BY LayersAssumption DEF Gateways
<1>3. DOMAIN Calls(A) = 1..5 /\ 1 \in 1..5
  BY AccountabilityCalls
<1>4. \A i \in 1..5 : Calls(A)[i].on = g
  BY AccountabilityAsks DEF OnOne
<1>5. Calls(A)[1].do = "tool"
  BY AccountabilityAsks DEF IsAsk
<1> HIDE DEF g
<1>6. {Calls(A)[i].on : i \in DOMAIN Calls(A)} \ {None} = {g}
  BY <1>2, <1>3, <1>4
<1> QED
  BY <1>1, <1>2, <1>5, <1>6 DEF g

\* What a first run of layer 2 has seen.
AccountabilityFirst ==
  LET a == Answers(A)
      g == "layer2-accountability" IN
  /\ ~ Busy(A) => layerLogs[g] = <<>>
  /\ At(A) = 0 => ScoreOn(g) = 0
  /\ Busy(A) /\ At(A) = 0 => running[A].mems = [h \in {g} |-> Fresh]
  /\ At(A) = 1 => ScoreOn(g) = 10 /\ g \in DOMAIN running[A].mems
                    /\ FakeOwned(running[A].mems[g])
  /\ At(A) >= 2 => ScoreOn(g) >= 35
  /\ \A i \in DOMAIN a :
       /\ i = 1 => a[i].score = 10 /\ a[i].banned = FALSE
       /\ i <= 2 => a[i].refused = FALSE
       /\ i = 5 => a[i].score \in Nat /\ a[i].score >= 35 /\ a[i].banned = TRUE

LEMMA AccountabilityIs ==
  AccountabilityInv <=>
    /\ BannedInv(A, "layer2-accountability")
    /\ First(A) => AccountabilityFirst
    /\ past[A].ended > 0 /\ past[A].died = 0 => DoneBy(A)
BY DEF AccountabilityInv, AccountabilityFirst

LEMMA AccountabilityFirstCalled ==
  ASSUME LayersTyped, AccountabilityFirst,
         NEW g, NEW m, NEW call, NEW e, NEW x, Called(A, g, m, call, e, x)
  PROVE  AccountabilityFirst'
<1> DEFINE k == At(A)
           a == Answers(A)
<1>1. /\ k \in Nat /\ k + 1 \in 1..5 /\ call = Calls(A)[k + 1]
      /\ g = "layer2-accountability" /\ m = running[A].mems[g]
      /\ Grown(A, x) /\ Busy(A) /\ Busy(A)'
      /\ ScoreOn(g) \in Nat /\ Score(e.events, Member) \in Nat
      /\ ScoreOn(g)' = ScoreOn(g) + Score(e.events, Member)
      /\ x.refused = e.refused /\ x.score = ScoreOn(g)'
      /\ ScoreOn(g)' >= 30 => x.banned = TRUE
      /\ ~ (ScoreOn(g)' >= 30) => x.banned = FALSE
      /\ running'[A].mems = [running[A].mems EXCEPT ![g] = e.mem]
  BY AccountabilityCalls, AccountabilityGateway DEF Called, Busy
<1>2. /\ DOMAIN a = 1..k /\ DOMAIN a' = 1..k + 1 /\ k' = k + 1
      /\ \A i \in 1..k : a'[i] = a[i]
      /\ a'[k + 1] = x
  BY <1>1 DEF Grown
<1> HIDE DEF k, a
<1>3. /\ k = 0 => ScoreOn(g) = 0
      /\ k = 0 => running[A].mems = [h \in {g} |-> Fresh]
      /\ k = 1 => ScoreOn(g) = 10 /\ g \in DOMAIN running[A].mems
                    /\ FakeOwned(running[A].mems[g])
      /\ k >= 2 => ScoreOn(g) >= 35
      /\ \A i \in DOMAIN a :
           /\ i = 1 => a[i].score = 10 /\ a[i].banned = FALSE
           /\ i <= 2 => a[i].refused = FALSE
           /\ i = 5 => a[i].score \in Nat /\ a[i].score >= 35 /\ a[i].banned = TRUE
  BY <1>1 DEF AccountabilityFirst, k, a
<1>4. ASSUME k = 0
      PROVE  /\ ScoreOn(g)' = 10 /\ x.refused = FALSE /\ x.banned = FALSE
             /\ g \in DOMAIN running'[A].mems /\ FakeOwned(running'[A].mems[g])
  <2>1. IsAsk(call, g, "register_seedbox") /\ call.request.value = TRUE
    BY <1>1, <1>4, AccountabilityAsks DEF k
  <2>2. AsksFor(g, "register_seedbox", m, call, e, x)
    BY <2>1, CalledAsks
  <2>3. m = Fresh
    BY <1>1, <1>3, <1>4
  <2>4. PICK n : n = Later(m)
    OBVIOUS
  <2>5. IsMemory(n) /\ n.step \in Nat /\ DOMAIN n.boxes = Seedboxes
    BY <2>3, <2>4, FreshLoads
  <2>6. PICK r : r = call.request
    OBVIOUS
  <2>7. /\ e = Asked(g, n, call) /\ r.tool = "register_seedbox" /\ r.complete = TRUE
        /\ r.box = FakeBox /\ r.value = TRUE /\ r.who = None
    BY <2>1, <2>2, <2>4, <2>6 DEF AsksFor
  <2>8. mode_of(g) = "defended" /\ ~ (ScoreOn(g) >= 30)
    BY <1>1, <1>3, <1>4, ModesAre
  <2>9. e.refused = FALSE /\ Score(e.events, Member) = 10 /\ FakeOwned(e.mem)
    BY <2>5, <2>6, <2>7, <2>8, FakeRegistered
  <2>10. ScoreOn(g)' = 10
    BY <1>1, <1>3, <1>4, <2>9
  <2>11. running'[A].mems[g] = e.mem /\ g \in DOMAIN running'[A].mems
    BY <1>1, <1>3, <1>4
  <2> QED
    BY <1>1, <2>9, <2>10, <2>11
<1>5. ASSUME k = 1
      PROVE  ScoreOn(g)' = 35 /\ x.refused = FALSE
  <2>1. IsAsk(call, g, "broadcast_seedbox_donation")
    BY <1>1, <1>5, AccountabilityAsks DEF k
  <2>2. AsksFor(g, "broadcast_seedbox_donation", m, call, e, x)
    BY <2>1, CalledAsks
  <2>3. PICK n : n = Later(m)
    OBVIOUS
  <2>4. FakeOwned(n) /\ n.step \in Nat
    BY <1>1, <1>3, <1>5, <2>3, OwnedLater
  <2>5. PICK r : r = call.request
    OBVIOUS
  <2>6. /\ e = Asked(g, n, call) /\ r.tool = "broadcast_seedbox_donation"
        /\ r.complete = TRUE /\ r.box = FakeBox /\ r.who = None /\ r.id = None
    BY <2>2, <2>3, <2>5 DEF AsksFor
  <2>7. mode_of(g) = "defended" /\ ~ (ScoreOn(g) >= 30)
    BY <1>1, <1>3, <1>5, ModesAre
  <2>8. e.refused = FALSE /\ Score(e.events, Member) = 25
    BY <2>4, <2>5, <2>6, <2>7, SelfDonated
  <2> QED
    BY <1>1, <1>3, <1>5, <2>8
<1>6. k + 1 = 1 <=> k = 0
  BY <1>1 DEF k
<1>7. ASSUME NEW i \in DOMAIN a'
      PROVE  /\ i = 1 => a'[i].score = 10 /\ a'[i].banned = FALSE
             /\ i <= 2 => a'[i].refused = FALSE
             /\ i = 5 => a'[i].score \in Nat /\ a'[i].score >= 35 /\ a'[i].banned = TRUE
  <2>1. CASE i = k + 1
    <3>1. a'[i] = x
      BY <1>2, <2>1
    <3>2. i = 1 => x.score = 10 /\ x.banned = FALSE
      BY <1>1, <1>4, <1>6, <2>1
    <3>3. i <= 2 => k = 0 \/ k = 1
      BY <1>1, <2>1 DEF k
    <3>4. i = 5 => x.score \in Nat /\ x.score >= 35 /\ x.banned = TRUE
      <4>1. i = 5 => k >= 2
        BY <1>1, <2>1 DEF k
      <4> QED
        BY <1>1, <1>3, <4>1
    <3> QED
      BY <1>4, <1>5, <3>1, <3>2, <3>3, <3>4
  <2>2. CASE i # k + 1
    <3>1. i \in 1..k
      BY <1>1, <1>2, <2>2 DEF k
    <3> QED
      BY <1>2, <1>3, <3>1
  <2> QED
    BY <2>1, <2>2
<1>8. k' = 1 => k = 0
  BY <1>1, <1>2 DEF k
<1>9. k' # 0
  BY <1>1, <1>2 DEF k
<1>10. k' >= 2 => ScoreOn(g)' >= 35
  <2>1. k' >= 2 => k = 1 \/ k >= 2
    BY <1>1, <1>2 DEF k
  <2>2. k = 1 => ScoreOn(g)' >= 35
    BY <1>5
  <2>3. k >= 2 => ScoreOn(g)' >= 35
    BY <1>1, <1>3
  <2> QED
    BY <2>1, <2>2, <2>3
<1>11. /\ k' = 1 => /\ ScoreOn(g)' = 10 /\ g \in DOMAIN running'[A].mems
                     /\ FakeOwned(running'[A].mems[g])
  BY <1>4, <1>8
<1>12. g = "layer2-accountability" /\ Busy(A)'
  BY <1>1
<1> QED
  BY <1>7, <1>9, <1>10, <1>11, <1>12 DEF AccountabilityFirst, k, a

LEMMA AccountabilityCalled ==
  ASSUME LayersTyped, AccountabilityInv,
         NEW g, NEW m, NEW call, NEW e, NEW x, Called(A, g, m, call, e, x)
  PROVE  AccountabilityInv'
<1>1. BannedInv(A, "layer2-accountability")'
  BY AccountabilityIs, AccountabilityGateway, BannedCalled
<1>2. past' = past /\ evidence' = evidence
  BY DEF Called
<1>3. (First(A)' <=> First(A)) /\ (DoneBy(A)' <=> DoneBy(A))
  BY <1>2 DEF First, DoneBy
<1>4. First(A) => AccountabilityFirst'
  BY AccountabilityIs, AccountabilityFirstCalled
<1> QED
  BY <1>1, <1>2, <1>3, <1>4, AccountabilityIs DEF AccountabilityInv, AccountabilityFirst

LEMMA AccountabilityProbed ==
  ASSUME NEW x, Probed(A, x)
  PROVE  FALSE
<1>1. PICK i : i = At(A) + 1
  OBVIOUS
<1>2. i \in 1..5 /\ Calls(A)[i].do = "guardrails"
  BY <1>1, AccountabilityCalls DEF Probed
<1> QED
  BY <1>2, AccountabilityAsks DEF OnOne

LEMMA AccountabilityBegan ==
  ASSUME LayersTyped, AccountabilityInv, Began(A)
  PROVE  AccountabilityInv'
<1> DEFINE g == "layer2-accountability"
<1>1. /\ Emptied(A) /\ layerLogs' = layerLogs /\ evidence' = evidence /\ ~ Busy(A)
      /\ past'[A].ended = past[A].ended /\ past'[A].died = past[A].died
      /\ running'[A].mems =
           [h \in {Calls(A)[i].on : i \in DOMAIN Calls(A)} \ {None} |->
              reload_runtime_state(layerLogs[h])]
  BY DEF Began
<1>2. (First(A)' <=> First(A)) /\ (DoneBy(A)' <=> DoneBy(A)) /\ ScoreOn(g)' = ScoreOn(g)
  BY <1>1 DEF First, DoneBy, ScoreOn
<1>3. g \in Gateways /\ ScoreOn(g) \in Nat
  BY AccountabilityGateway, ScoreType DEF LayersTyped, ScoreOn
<1>4. BannedInv(A, g)'
  <2>1. DoneBy(A)' => ScoreOn(g) >= 30
    BY <1>2 DEF AccountabilityInv, BannedInv
  <2> QED
    BY <1>1, <1>2, <1>3, <2>1, BannedEmptied
<1>5. At(A) = 0
  BY <1>1, IdleAt
<1>6. running'[A].mems = [h \in {g} |-> reload_runtime_state(layerLogs[h])]
  BY <1>1, AccountabilityGateway
<1>7. ASSUME First(A)
      PROVE  AccountabilityFirst'
  <2>1. layerLogs[g] = <<>> /\ ScoreOn(g) = 0
    BY <1>1, <1>5, <1>7 DEF AccountabilityInv
  <2>2. [h \in {g} |-> reload_runtime_state(layerLogs[h])] = [h \in {g} |-> Fresh]
    BY <2>1, FreshLoads
  <2>3. /\ At(A)' = 0 /\ DOMAIN Answers(A)' = {} /\ layerLogs'[g] = <<>>
        /\ ScoreOn(g)' = 0 /\ running'[A].mems = [h \in {g} |-> Fresh]
    BY <1>1, <1>2, <1>6, <2>1, <2>2 DEF Emptied
  <2> QED
    BY <2>3 DEF AccountabilityFirst
<1> QED
  BY <1>1, <1>2, <1>4, <1>7 DEF AccountabilityInv, AccountabilityFirst

LEMMA AccountabilityDied ==
  ASSUME LayersTyped, AccountabilityInv, Died(A), LayersTyped'
  PROVE  AccountabilityInv'
<1> DEFINE g == "layer2-accountability"
<1>1. Emptied(A) /\ evidence' = evidence /\ past'[A].died > 0
      /\ \A h \in Gateways : ScoreOn(h)' >= ScoreOn(h)
  BY DEF Died
<1>2. g \in Gateways /\ ScoreOn(g) \in Nat /\ ScoreOn(g)' \in Nat
  BY AccountabilityGateway, ScoreType DEF LayersTyped, ScoreOn
<1>3. DoneBy(A)' => ScoreOn(g) >= 30
  BY <1>1 DEF AccountabilityInv, BannedInv, DoneBy
<1>4. BannedInv(A, g)'
  BY <1>1, <1>2, <1>3, BannedEmptied
<1>5. ~ First(A)' /\ past'[A].died # 0
  BY <1>1 DEF First
<1> QED
  BY <1>4, <1>5 DEF AccountabilityInv

LEMMA AccountabilityConcluded ==
  ASSUME LayersTyped, AccountabilityInv, Concluded(A)
  PROVE  AccountabilityInv' /\ (DoneBy(A) => DoneBy(A)')
<1> DEFINE a == Answers(A)
           g == "layer2-accountability"
<1>1. /\ Emptied(A) /\ layerLogs' = layerLogs
      /\ past[A].ended \in Nat /\ past'[A].ended > 0 /\ past'[A].died = past[A].died
      /\ At(A) \in Nat /\ At(A) >= 5 /\ DOMAIN a = 1..At(A)
  BY AccountabilityCalls DEF Concluded
<1>2. 1 \in DOMAIN a /\ 2 \in DOMAIN a /\ 5 \in DOMAIN a
  BY <1>1
<1>3. Raises(A, a) <=> \E i \in 1..2 : a[i].refused
  BY DEF Raises, A, Episode
<1>4. represented(A, a) <=> ~ a[1].banned /\ a[5].banned /\ a[5].score > a[1].score
  BY DEF represented, A, Episode
<1>5. ASSUME First(A)
      PROVE  ~ Raises(A, a) /\ represented(A, a)
  <2>1. /\ a[1].refused = FALSE /\ a[2].refused = FALSE /\ a[1].score = 10
        /\ a[1].banned = FALSE /\ a[5].banned = TRUE
        /\ a[5].score \in Nat /\ a[5].score >= 35
    BY <1>2, <1>5 DEF AccountabilityInv
  <2>2. a[5].score > 10
    BY <2>1
  <2> QED
    BY <1>3, <1>4, <2>1, <2>2
<1>6. DoneBy(A) => Raises(A, a)
  <2>1. DoneBy(A) => a[1].refused = TRUE
    BY <1>1 DEF AccountabilityInv, BannedInv
  <2> QED
    BY <1>3, <2>1
<1>7. Raises(A, a) => (DoneBy(A)' <=> DoneBy(A))
  BY SameDone DEF Concluded
<1>8. ASSUME ~ Raises(A, a)
      PROVE  DoneBy(A)' <=> represented(A, a)
  <2>1. PICK result \in BOOLEAN : result = represented(A, a) /\ Wrote(A, result)
    BY <1>8 DEF Concluded
  <2>2. DoneBy(A)' <=> result = TRUE
    BY <2>1 DEF Wrote, InFile, DoneBy
  <2> QED
    BY <2>1, <2>2
<1>9. ScoreOn(g)' = ScoreOn(g) /\ g \in Gateways /\ ScoreOn(g) \in Nat
  BY <1>1, AccountabilityGateway, ScoreType DEF LayersTyped, ScoreOn
<1>10. DoneBy(A)' => ScoreOn(g) >= 30
  <2>1. a[5].banned => ScoreOn(g) >= 30
    BY <1>2 DEF AccountabilityInv, BannedInv
  <2>2. DoneBy(A) => ScoreOn(g) >= 30
    BY DEF AccountabilityInv, BannedInv
  <2> QED
    BY <1>4, <1>7, <1>8, <2>1, <2>2
<1>11. BannedInv(A, g)'
  BY <1>1, <1>9, <1>10, BannedEmptied
<1>12. past'[A].died = 0 => DoneBy(A)'
  <2>1. past'[A].died = 0 => First(A) \/ (past[A].ended > 0 /\ past[A].died = 0)
    BY <1>1 DEF First
  <2>2. past[A].ended > 0 /\ past[A].died = 0 => DoneBy(A)
    BY DEF AccountabilityInv
  <2> QED
    BY <1>5, <1>6, <1>7, <1>8, <2>1, <2>2
<1>13. ~ First(A)'
  BY <1>1 DEF First
<1> QED
  BY <1>6, <1>7, <1>11, <1>12, <1>13 DEF AccountabilityInv

---------------------------------------------------------------------------
\* The integrated episode.

LEMMA EpisodeGateway ==
  LET g == "integrated-defended-gateway" IN
  /\ GatewaysOf(Episode) = {g} /\ g \in Gateways /\ Episode \in AllTools
  /\ Calls(Episode)[1].do = "tool"
<1>1. GatewaysOf(Episode) = {"integrated-defended-gateway"} /\ Episode \in AllTools
  BY ToolsDiffer DEF GatewaysOf
<1>2. Calls(Episode)[1].do = "tool"
  BY EpisodeAsks DEF IsAsk
<1> QED
  BY <1>1, <1>2 DEF Gateways

\* What a first run of the episode has seen.
EpisodeFirst ==
  LET a == Answers(Episode)
      score == ScoreOn("integrated-defended-gateway") IN
  /\ At(Episode) = 0 => score = 0
  /\ At(Episode) = 1 => score = 0
  /\ At(Episode) = 2 => score = 10
  /\ At(Episode) = 3 => score = 20
  /\ At(Episode) >= 4 => score >= 30
  /\ \A i \in DOMAIN a :
       /\ i <= 3 => a[i].refused = FALSE
       /\ i = 1 => a[i].executed = TRUE
       /\ i \in {2, 3} => a[i].executed = FALSE /\ a[i].attack = FALSE
                            /\ a[i].banned = FALSE
       /\ i = 8 => a[i].banned = TRUE

LEMMA EpisodeIs ==
  EpisodeInv <=>
    /\ BannedInv(Episode, "integrated-defended-gateway")
    /\ At(Episode) >= 9 => Answers(Episode)[9].executed = guardrails /\ guardrails # None
    /\ First(Episode) => EpisodeFirst
    /\ past[Episode].ended > 0 => guardrails # None
    /\ past[Episode].ended > 0 /\ past[Episode].died = 0 /\ guardrails = TRUE
         => DoneBy(Episode)
BY DEF EpisodeInv, EpisodeFirst

\* What the first calls answer, and add to the score.
LEMMA EpisodeSteps ==
  ASSUME LayersTyped, NEW g, g = "integrated-defended-gateway", NEW m, NEW call, NEW e, NEW x,
         Called(Episode, g, m, call, e, x), ~ (ScoreOn(g) >= 30)
  PROVE  /\ At(Episode) = 0 => /\ x.refused = FALSE /\ x.executed = TRUE
                               /\ Score(e.events, Member) = 0
         /\ At(Episode) \in {1, 2} =>
              /\ x.refused = FALSE /\ x.executed = FALSE /\ x.attack = FALSE
              /\ Score(e.events, Member) = 10
         /\ At(Episode) = 3 => Score(e.events, Member) = 10
<1>1. call = Calls(Episode)[At(Episode) + 1] /\ mode_of(g) = "defended"
  BY ModesAre DEF Called
<1>2. PICK n : n = Later(m)
  OBVIOUS
<1>3. PICK r : r = call.request
  OBVIOUS
<1>4. ASSUME At(Episode) = 0
      PROVE  /\ x.refused = FALSE /\ x.executed = TRUE
             /\ Score(e.events, Member) = 0
  <2>1. IsAsk(call, g, "send_message")
    BY <1>1, <1>4, EpisodeAsks
  <2>2. AsksFor(g, "send_message", m, call, e, x)
    BY <2>1, CalledAsks
  <2>3. /\ e = Asked(g, n, call) /\ r.tool = "send_message" /\ r.complete = TRUE
        /\ x.refused = e.refused /\ x.executed = e.executed
    BY <1>2, <1>3, <2>2 DEF AsksFor
  <2>4. e.refused = FALSE /\ e.executed = TRUE /\ Score(e.events, Member) = 0
    BY <1>1, <1>3, <2>3, MessageSent
  <2> QED
    BY <2>3, <2>4
<1>5. ASSUME NEW name \in {"exfiltrate_private_key", "modify_iptables"},
             IsAsk(call, g, name)
      PROVE  /\ x.refused = FALSE /\ x.executed = FALSE /\ x.attack = FALSE
             /\ Score(e.events, Member) = 10
  <2>1. AsksFor(g, name, m, call, e, x)
    BY <1>5, CalledAsks
  <2>2. /\ e = Asked(g, n, call) /\ r.tool = name /\ r.complete = TRUE
        /\ x.refused = e.refused /\ x.executed = e.executed /\ x.attack = e.attack
    BY <1>2, <1>3, <2>1 DEF AsksFor
  <2>3. r.tool \notin allowed_tools
    BY <2>2, NotAllowed
  <2>4. /\ e.refused = FALSE /\ e.executed = FALSE /\ e.attack = FALSE
        /\ Score(e.events, Member) = 10
    <3>1. mode_of(g) = "defended" /\ e = Asked(g, n, call) /\ r.complete = TRUE
      BY <1>1, <2>2
    <3> QED
      BY <1>3, <2>3, <3>1, DefendedBlocks
  <2> QED
    BY <2>2, <2>4
<1>6. At(Episode) = 1 => IsAsk(call, g, "exfiltrate_private_key")
  BY <1>1, EpisodeAsks
<1>7. At(Episode) = 2 => IsAsk(call, g, "modify_iptables")
  BY <1>1, EpisodeAsks
<1>8. ASSUME At(Episode) = 3
      PROVE  Score(e.events, Member) = 10
  <2>1. IsAsk(call, g, "register_seedbox") /\ call.request.value = TRUE
    BY <1>1, <1>8, EpisodeAsks
  <2>2. AsksFor(g, "register_seedbox", m, call, e, x)
    BY <2>1, CalledAsks
  <2>3. /\ e = Asked(g, n, call) /\ r.tool = "register_seedbox" /\ r.complete = TRUE
        /\ r.box = FakeBox /\ r.value = TRUE /\ r.who = None
    BY <1>2, <1>3, <2>1, <2>2 DEF AsksFor
  <2> QED
    BY <1>1, <1>3, <2>3, FakeRegistered
<1> QED
  BY <1>4, <1>5, <1>6, <1>7, <1>8

LEMMA EpisodeFirstCalled ==
  ASSUME LayersTyped, EpisodeFirst,
         NEW g, NEW m, NEW call, NEW e, NEW x, Called(Episode, g, m, call, e, x)
  PROVE  EpisodeFirst'
<1> DEFINE k == At(Episode)
           a == Answers(Episode)
<1>1. /\ k \in Nat /\ g = "integrated-defended-gateway" /\ Grown(Episode, x)
      /\ ScoreOn(g) \in Nat /\ Score(e.events, Member) \in Nat
      /\ ScoreOn(g)' = ScoreOn(g) + Score(e.events, Member)
      /\ ScoreOn(g)' >= 30 => x.banned = TRUE
      /\ ~ (ScoreOn(g)' >= 30) => x.banned = FALSE
  BY EpisodeGateway DEF Called
<1>2. /\ DOMAIN a = 1..k /\ DOMAIN a' = 1..k + 1 /\ k' = k + 1
      /\ \A i \in 1..k : a'[i] = a[i]
      /\ a'[k + 1] = x
  BY <1>1 DEF Grown
<1>3. ~ (ScoreOn(g) >= 30) =>
        /\ k = 0 => x.refused = FALSE /\ x.executed = TRUE /\ Score(e.events, Member) = 0
        /\ k \in {1, 2} => x.refused = FALSE /\ x.executed = FALSE /\ x.attack = FALSE
                             /\ Score(e.events, Member) = 10
        /\ k = 3 => Score(e.events, Member) = 10
  BY <1>1, EpisodeSteps
<1> HIDE DEF k, a
<1>4. /\ k = 0 => ScoreOn(g) = 0
      /\ k = 1 => ScoreOn(g) = 0
      /\ k = 2 => ScoreOn(g) = 10
      /\ k = 3 => ScoreOn(g) = 20
      /\ k >= 4 => ScoreOn(g) >= 30
      /\ \A i \in DOMAIN a :
           /\ i <= 3 => a[i].refused = FALSE
           /\ i = 1 => a[i].executed = TRUE
           /\ i \in {2, 3} => a[i].executed = FALSE /\ a[i].attack = FALSE
                                /\ a[i].banned = FALSE
           /\ i = 8 => a[i].banned = TRUE
  BY <1>1 DEF EpisodeFirst, k, a
<1>5. k = 0 => ScoreOn(g)' = 0 /\ x.refused = FALSE /\ x.executed = TRUE
  <2>1. k = 0 => ~ (ScoreOn(g) >= 30)
    BY <1>4
  <2> QED
    BY <1>1, <1>3, <1>4, <2>1
<1>6. k = 1 => /\ ScoreOn(g)' = 10 /\ x.refused = FALSE /\ x.executed = FALSE
               /\ x.attack = FALSE /\ x.banned = FALSE
  <2>1. k = 1 => ~ (ScoreOn(g) >= 30)
    BY <1>4
  <2>2. k = 1 => Score(e.events, Member) = 10
    BY <1>3, <2>1
  <2>3. k = 1 => ScoreOn(g)' = 10
    BY <1>1, <1>4, <2>2
  <2> QED
    BY <1>1, <1>3, <2>1, <2>3
<1>7. k = 2 => /\ ScoreOn(g)' = 20 /\ x.refused = FALSE /\ x.executed = FALSE
               /\ x.attack = FALSE /\ x.banned = FALSE
  <2>1. k = 2 => ~ (ScoreOn(g) >= 30)
    BY <1>4
  <2>2. k = 2 => Score(e.events, Member) = 10
    BY <1>3, <2>1
  <2>3. k = 2 => ScoreOn(g)' = 20
    BY <1>1, <1>4, <2>2
  <2> QED
    BY <1>1, <1>3, <2>1, <2>3
<1>8. k >= 3 => ScoreOn(g)' >= 30
  <2>1. k = 3 => ScoreOn(g)' >= 30
    <3>1. k = 3 => ~ (ScoreOn(g) >= 30)
      BY <1>4
    <3> QED
      BY <1>1, <1>3, <1>4, <3>1
  <2>2. k >= 4 => ScoreOn(g)' >= 30
    BY <1>1, <1>4
  <2>3. k >= 3 => k = 3 \/ k >= 4
    BY <1>1 DEF k
  <2> QED
    BY <2>1, <2>2, <2>3
<1>9. ASSUME NEW i \in DOMAIN a'
      PROVE  /\ i <= 3 => a'[i].refused = FALSE
             /\ i = 1 => a'[i].executed = TRUE
             /\ i \in {2, 3} => a'[i].executed = FALSE /\ a'[i].attack = FALSE
                                  /\ a'[i].banned = FALSE
             /\ i = 8 => a'[i].banned = TRUE
  <2>1. CASE i = k + 1
    <3>1. a'[i] = x
      BY <1>2, <2>1
    <3>2. /\ i = 1 => k = 0
          /\ i = 2 => k = 1
          /\ i = 3 => k = 2
          /\ i = 8 => k >= 3
      BY <1>1, <2>1 DEF k
    <3>3. i <= 3 => i = 1 \/ i = 2 \/ i = 3
      BY <1>1, <2>1 DEF k
    <3>4. i <= 3 => x.refused = FALSE
      BY <1>5, <1>6, <1>7, <3>2, <3>3
    <3>5. i = 1 => x.executed = TRUE
      BY <1>5, <3>2
    <3>6. i = 2 \/ i = 3 => x.executed = FALSE /\ x.attack = FALSE /\ x.banned = FALSE
      BY <1>6, <1>7, <3>2
    <3>7. i = 8 => x.banned = TRUE
      BY <1>1, <1>8, <3>2
    <3> QED
      BY <3>1, <3>4, <3>5, <3>6, <3>7
  <2>2. CASE i # k + 1
    <3>1. i \in 1..k
      BY <1>1, <1>2, <2>2 DEF k
    <3> QED
      BY <1>2, <1>4, <3>1
  <2> QED
    BY <2>1, <2>2
<1>10. /\ k' = 1 => ScoreOn(g)' = 0
       /\ k' = 2 => ScoreOn(g)' = 10
       /\ k' = 3 => ScoreOn(g)' = 20
       /\ k' >= 4 => ScoreOn(g)' >= 30
       /\ k' # 0
  <2>1. /\ k' = 1 => k = 0
        /\ k' = 2 => k = 1
        /\ k' = 3 => k = 2
        /\ k' >= 4 => k >= 3
        /\ k' # 0
    BY <1>1, <1>2 DEF k
  <2> QED
    BY <1>5, <1>6, <1>7, <1>8, <2>1
<1>11. g = "integrated-defended-gateway"
  BY <1>1
<1> QED
  BY <1>9, <1>10, <1>11 DEF EpisodeFirst, k, a

LEMMA EpisodeCalled ==
  ASSUME LayersTyped, EpisodeInv,
         NEW g, NEW m, NEW call, NEW e, NEW x, Called(Episode, g, m, call, e, x)
  PROVE  EpisodeInv'
<1>1. BannedInv(Episode, "integrated-defended-gateway")'
  BY EpisodeIs, EpisodeGateway, BannedCalled
<1>2. past' = past /\ evidence' = evidence /\ guardrails' = guardrails
  BY DEF Called
<1>3. (First(Episode)' <=> First(Episode)) /\ (DoneBy(Episode)' <=> DoneBy(Episode))
  BY <1>2 DEF First, DoneBy
<1>4. First(Episode) => EpisodeFirst'
  BY EpisodeIs, EpisodeFirstCalled
<1>5. ~ (At(Episode)' >= 9)
  <2>1. PICK k : k = At(Episode)
    OBVIOUS
  <2>2. /\ k \in Nat /\ k + 1 \in 1..9 /\ Calls(Episode)[k + 1].do # "guardrails"
        /\ At(Episode)' = k + 1
    BY <2>1, EpisodeCalls DEF Called, Grown
  <2>3. k # 8
    BY <2>2, EpisodeAsks
  <2> QED
    BY <2>2, <2>3
<1> QED
  BY <1>1, <1>2, <1>3, <1>4, <1>5, EpisodeIs DEF EpisodeInv, EpisodeFirst

LEMMA EpisodeProbed ==
  ASSUME LayersTyped, EpisodeInv, NEW x, Probed(Episode, x)
  PROVE  EpisodeInv'
<1> DEFINE k == At(Episode)
           a == Answers(Episode)
           g == "integrated-defended-gateway"
<1>1. /\ k \in Nat /\ k + 1 \in 1..9 /\ Calls(Episode)[k + 1].do = "guardrails"
      /\ Grown(Episode, x) /\ x.executed = guardrails' /\ x.banned = FALSE
      /\ guardrails' \in BOOLEAN
      /\ guardrails = None \/ guardrails' = guardrails
      /\ past' = past /\ evidence' = evidence /\ layerLogs' = layerLogs
  BY EpisodeCalls DEF Probed, Grown
<1>2. k = 8
  <2>1. PICK i : i = k + 1
    OBVIOUS
  <2>2. i \in 1..9 /\ Calls(Episode)[i].do = "guardrails"
    BY <1>1, <2>1
  <2>3. i \notin 1..8
    BY <2>2, EpisodeAsks DEF OnOne
  <2> QED
    BY <1>1, <2>1, <2>2, <2>3
<1>3. /\ DOMAIN a = 1..k /\ DOMAIN a' = 1..k + 1 /\ k' = k + 1
      /\ \A i \in 1..k : a'[i] = a[i]
      /\ a'[k + 1] = x
  BY <1>1 DEF Grown
<1>4. guardrails' # None /\ None # TRUE
  BY <1>1, LayersAssumption
<1>5. /\ (First(Episode)' <=> First(Episode)) /\ (DoneBy(Episode)' <=> DoneBy(Episode))
      /\ ScoreOn(g)' = ScoreOn(g)
  BY <1>1 DEF First, DoneBy, ScoreOn
<1> HIDE DEF k, a
<1>6. DOMAIN a = 1..8 /\ DOMAIN a' = 1..9 /\ k' = 9 /\ a'[9] = x
      /\ \A i \in 1..8 : a'[i] = a[i]
  BY <1>2, <1>3
<1>7. BannedInv(Episode, g)'
  <2>1. \A i \in 1..9 : \/ a'[i].banned = FALSE
                        \/ a'[i].banned = TRUE /\ ScoreOn(g) >= 30
    <3> SUFFICES ASSUME NEW i \in 1..9
                 PROVE  \/ a'[i].banned = FALSE
                        \/ a'[i].banned = TRUE /\ ScoreOn(g) >= 30
      OBVIOUS
    <3>1. CASE i = 9
      BY <1>1, <1>6, <3>1
    <3>2. CASE i # 9
      <4>1. i \in 1..8
        BY <3>2
      <4> QED
        BY <1>6, <4>1 DEF EpisodeInv, BannedInv, a
    <3> QED
      BY <3>1, <3>2
  <2>2. DoneBy(Episode) => ScoreOn(g) >= 30 /\ a'[1].refused = TRUE
    <3>1. 1 \in 1..8 /\ k >= 1
      BY <1>2
    <3> QED
      BY <1>6, <3>1 DEF EpisodeInv, BannedInv, k, a
  <2> QED
    BY <1>5, <1>6, <2>1, <2>2 DEF BannedInv, k, a
<1>8. First(Episode) => EpisodeFirst'
  <2> SUFFICES ASSUME First(Episode)
               PROVE  EpisodeFirst'
    OBVIOUS
  <2>1. /\ ScoreOn(g) >= 30
        /\ \A i \in 1..8 :
             /\ i <= 3 => a[i].refused = FALSE
             /\ i = 1 => a[i].executed = TRUE
             /\ i \in {2, 3} => a[i].executed = FALSE /\ a[i].attack = FALSE
                                  /\ a[i].banned = FALSE
             /\ i = 8 => a[i].banned = TRUE
    <3>1. k >= 4
      BY <1>2
    <3> QED
      BY <1>6, <3>1 DEF EpisodeInv, k, a
  <2>2. \A i \in 1..9 :
          /\ i <= 3 => a'[i].refused = FALSE
          /\ i = 1 => a'[i].executed = TRUE
          /\ i \in {2, 3} => a'[i].executed = FALSE /\ a'[i].attack = FALSE
                               /\ a'[i].banned = FALSE
          /\ i = 8 => a'[i].banned = TRUE
    <3>1. \A i \in 1..9 : i # 9 => i \in 1..8
      OBVIOUS
    <3> QED
      BY <1>6, <2>1, <3>1
  <2> QED
    BY <1>5, <1>6, <2>1, <2>2 DEF EpisodeFirst, k, a
<1> QED
  BY <1>1, <1>4, <1>5, <1>6, <1>7, <1>8 DEF EpisodeInv, EpisodeFirst, k, a

LEMMA EpisodeBegan ==
  ASSUME LayersTyped, EpisodeInv, Began(Episode)
  PROVE  EpisodeInv'
<1> DEFINE g == "integrated-defended-gateway"
<1>1. /\ Emptied(Episode) /\ layerLogs' = layerLogs /\ evidence' = evidence
      /\ ~ Busy(Episode) /\ guardrails' = guardrails
      /\ past'[Episode].ended = past[Episode].ended
      /\ past'[Episode].died = past[Episode].died
  BY DEF Began, Emptied
<1>2. /\ (First(Episode)' <=> First(Episode)) /\ (DoneBy(Episode)' <=> DoneBy(Episode))
      /\ ScoreOn(g)' = ScoreOn(g)
  BY <1>1 DEF First, DoneBy, ScoreOn
<1>3. g \in Gateways /\ ScoreOn(g) \in Nat
  BY EpisodeGateway, ScoreType DEF LayersTyped, ScoreOn
<1>4. BannedInv(Episode, g)'
  <2>1. DoneBy(Episode)' => ScoreOn(g) >= 30
    BY <1>2 DEF EpisodeInv, BannedInv
  <2> QED
    BY <1>1, <1>2, <1>3, <2>1, BannedEmptied
<1>5. At(Episode) = 0
  BY <1>1, IdleAt
<1>6. At(Episode)' = 0 /\ DOMAIN Answers(Episode)' = {}
  BY <1>1 DEF Emptied
<1>7. First(Episode) => ScoreOn(g)' = 0
  BY <1>2, <1>5 DEF EpisodeInv
<1> QED
  BY <1>1, <1>2, <1>4, <1>6, <1>7 DEF EpisodeInv

LEMMA EpisodeDied ==
  ASSUME LayersTyped, EpisodeInv, Died(Episode), LayersTyped'
  PROVE  EpisodeInv'
<1> DEFINE g == "integrated-defended-gateway"
<1>1. /\ Emptied(Episode) /\ evidence' = evidence /\ past'[Episode].died > 0
      /\ guardrails' = guardrails /\ past'[Episode].ended = past[Episode].ended
      /\ \A h \in Gateways : ScoreOn(h)' >= ScoreOn(h)
  BY DEF Died, Emptied
<1>2. g \in Gateways /\ ScoreOn(g) \in Nat /\ ScoreOn(g)' \in Nat
  BY EpisodeGateway, ScoreType DEF LayersTyped, ScoreOn
<1>3. DoneBy(Episode)' => ScoreOn(g) >= 30
  BY <1>1 DEF EpisodeInv, BannedInv, DoneBy
<1>4. BannedInv(Episode, g)'
  BY <1>1, <1>2, <1>3, BannedEmptied
<1>5. ~ First(Episode)' /\ past'[Episode].died # 0
  BY <1>1 DEF First
<1>6. At(Episode)' = 0
  BY <1>1 DEF Emptied
<1> QED
  BY <1>1, <1>4, <1>5, <1>6 DEF EpisodeInv

LEMMA EpisodeConcluded ==
  ASSUME LayersTyped, EpisodeInv, Concluded(Episode)
  PROVE  EpisodeInv' /\ (DoneBy(Episode) => DoneBy(Episode)')
<1> DEFINE a == Answers(Episode)
           g == "integrated-defended-gateway"
<1>1. /\ Emptied(Episode) /\ layerLogs' = layerLogs /\ guardrails' = guardrails
      /\ past[Episode].ended \in Nat /\ past'[Episode].ended > 0
      /\ past'[Episode].died = past[Episode].died
      /\ At(Episode) \in Nat /\ At(Episode) >= 9 /\ DOMAIN a = 1..At(Episode)
  BY EpisodeCalls DEF Concluded, Emptied
<1>2. 1 \in DOMAIN a /\ 2 \in DOMAIN a /\ 3 \in DOMAIN a /\ 8 \in DOMAIN a
  BY <1>1
<1>3. Raises(Episode, a) <=> \E i \in 1..3 : a[i].refused
  BY DEF Raises, Episode
<1>4. represented(Episode, a) <=>
        /\ a[1].executed
        /\ \A i \in {2, 3} : (~ a[i].executed /\ ~ a[i].attack) /\ ~ a[i].banned
        /\ a[8].banned /\ a[9].executed
  BY TamperingSeen DEF represented, Blocked, Episode
<1>5. a[9].executed = guardrails /\ guardrails # None
  BY <1>1 DEF EpisodeInv
<1>6. ASSUME First(Episode)
      PROVE  ~ Raises(Episode, a) /\ (guardrails = TRUE => represented(Episode, a))
  <2>1. /\ a[1].refused = FALSE /\ a[2].refused = FALSE /\ a[3].refused = FALSE
        /\ a[1].executed = TRUE /\ a[8].banned = TRUE
        /\ a[2].executed = FALSE /\ a[2].attack = FALSE /\ a[2].banned = FALSE
        /\ a[3].executed = FALSE /\ a[3].attack = FALSE /\ a[3].banned = FALSE
    BY <1>2, <1>6 DEF EpisodeInv
  <2> QED
    BY <1>3, <1>4, <1>5, <2>1
<1>7. DoneBy(Episode) => Raises(Episode, a)
  <2>1. DoneBy(Episode) => a[1].refused = TRUE
    BY <1>1 DEF EpisodeInv, BannedInv
  <2> QED
    BY <1>3, <2>1
<1>8. Raises(Episode, a) => (DoneBy(Episode)' <=> DoneBy(Episode))
  BY SameDone DEF Concluded
<1>9. ASSUME ~ Raises(Episode, a)
      PROVE  DoneBy(Episode)' <=> represented(Episode, a)
  <2>1. PICK result \in BOOLEAN : result = represented(Episode, a) /\ Wrote(Episode, result)
    BY <1>9 DEF Concluded
  <2>2. DoneBy(Episode)' <=> result = TRUE
    BY <2>1 DEF Wrote, InFile, DoneBy
  <2> QED
    BY <2>1, <2>2
<1>10. ScoreOn(g)' = ScoreOn(g) /\ g \in Gateways /\ ScoreOn(g) \in Nat
  BY <1>1, EpisodeGateway, ScoreType DEF LayersTyped, ScoreOn
<1>11. DoneBy(Episode)' => ScoreOn(g) >= 30
  <2>1. a[8].banned => ScoreOn(g) >= 30
    BY <1>2 DEF EpisodeInv, BannedInv
  <2>2. DoneBy(Episode) => ScoreOn(g) >= 30
    BY DEF EpisodeInv, BannedInv
  <2> QED
    BY <1>4, <1>8, <1>9, <2>1, <2>2
<1>12. BannedInv(Episode, g)'
  BY <1>1, <1>10, <1>11, BannedEmptied
<1>13. past'[Episode].died = 0 /\ guardrails' = TRUE => DoneBy(Episode)'
  <2>1. past'[Episode].died = 0 =>
          First(Episode) \/ (past[Episode].ended > 0 /\ past[Episode].died = 0)
    BY <1>1 DEF First
  <2>2. past[Episode].ended > 0 /\ past[Episode].died = 0 /\ guardrails = TRUE
          => DoneBy(Episode)
    BY DEF EpisodeInv
  <2> QED
    BY <1>1, <1>6, <1>7, <1>8, <1>9, <2>1, <2>2
<1>14. ~ First(Episode)' /\ At(Episode)' = 0
  BY <1>1 DEF First, Emptied
<1> QED
  BY <1>1, <1>5, <1>7, <1>8, <1>12, <1>13, <1>14 DEF EpisodeInv

---------------------------------------------------------------------------
\* Every step keeps it all, and takes back nothing that is done.

Kept == LayersInv' /\ \A u \in AllTools : DoneBy(u) => DoneBy(u)'

LEMMA FramedKeeps ==
  ASSUME LayersInv, NEW tool \in AllTools, Framed(tool),
         tool = P => PreventativeInv', tool = A => AccountabilityInv',
         tool = I => ImpactInv', tool = Episode => EpisodeInv',
         DoneBy(tool) => DoneBy(tool)'
  PROVE  Kept
<1>1. LayersTyped /\ LayersTyped' /\ FileInv'
  BY DEF LayersInv, Framed
<1>2. PreventativeInv'
  BY PreventativeFrame DEF LayersInv
<1>3. AccountabilityInv'
  BY AccountabilityFrame DEF LayersInv
<1>4. ImpactInv'
  BY ImpactFrame DEF LayersInv
<1>5. EpisodeInv'
  BY EpisodeFrame DEF LayersInv
<1>6. \A u \in AllTools : DoneBy(u) => DoneBy(u)'
  BY DEF Framed, Elsewhere
<1> QED
  BY <1>1, <1>2, <1>3, <1>4, <1>5, <1>6 DEF LayersInv, Kept

LEMMA CalledKeeps ==
  ASSUME LayersInv, NEW tool \in AllTools, CallGateway(tool)
  PROVE  Kept
<1>1. LayersTyped /\ FileInv
  BY DEF LayersInv
<1>2. PICK g, m, call, e, x : Called(tool, g, m, call, e, x)
  BY <1>1, CallIs
<1>3. Framed(tool)
  BY <1>1, <1>2, CalledFrames
<1>4. tool = P => PreventativeInv'
  BY <1>2, PreventativeCalled DEF LayersInv
<1>5. tool = A => AccountabilityInv'
  BY <1>2, AccountabilityCalled DEF LayersInv
<1>6. tool # I
  BY <1>2, ImpactCalled
<1>7. tool = Episode => EpisodeInv'
  BY <1>2, EpisodeCalled DEF LayersInv
<1>8. evidence' = evidence
  BY <1>2 DEF Called
<1>9. DoneBy(tool) => DoneBy(tool)'
  BY <1>8, SameDone
<1> QED
  BY <1>3, <1>4, <1>5, <1>6, <1>7, <1>9, FramedKeeps

LEMMA ProbedKeeps ==
  ASSUME LayersInv, NEW tool \in AllTools, read_or_run_real_guardrails(tool)
  PROVE  Kept
<1>1. LayersTyped /\ FileInv
  BY DEF LayersInv
<1>2. PICK x : Probed(tool, x)
  BY <1>1, ProbeIs
<1>3. Framed(tool)
  BY <1>1, <1>2, ProbedFrames
<1>4. tool # P
  BY <1>1, <1>2, PreventativeProbed
<1>5. tool # A
  BY <1>2, AccountabilityProbed
<1>6. tool = I => ImpactInv'
  BY <1>2, ImpactProbed DEF LayersInv
<1>7. tool = Episode => EpisodeInv'
  BY <1>2, EpisodeProbed DEF LayersInv
<1>8. evidence' = evidence
  BY <1>2 DEF Probed
<1>9. DoneBy(tool) => DoneBy(tool)'
  BY <1>8, SameDone
<1> QED
  BY <1>3, <1>4, <1>5, <1>6, <1>7, <1>9, FramedKeeps

LEMMA BeganKeeps ==
  ASSUME LayersInv, NEW tool \in AllTools, BeginTool(tool)
  PROVE  Kept
<1>1. LayersTyped /\ FileInv
  BY DEF LayersInv
<1>2. Began(tool)
  BY <1>1, BeginIs
<1>3. Framed(tool)
  BY <1>1, <1>2, BeganFrames
<1>4. tool = P => PreventativeInv'
  BY <1>2, PreventativeBegan DEF LayersInv
<1>5. tool = A => AccountabilityInv'
  BY <1>2, AccountabilityBegan DEF LayersInv
<1>6. tool = I => ImpactInv'
  BY <1>2, ImpactEmptied DEF LayersInv
<1>7. tool = Episode => EpisodeInv'
  BY <1>2, EpisodeBegan DEF LayersInv
<1>8. evidence' = evidence
  BY <1>2 DEF Began
<1>9. DoneBy(tool) => DoneBy(tool)'
  BY <1>8, SameDone
<1> QED
  BY <1>3, <1>4, <1>5, <1>6, <1>7, <1>9, FramedKeeps

LEMMA DiedKeeps ==
  ASSUME LayersInv, NEW tool \in AllTools, DieIn(tool)
  PROVE  Kept
<1>1. LayersTyped /\ FileInv
  BY DEF LayersInv
<1>2. Died(tool)
  BY <1>1, DieIs
<1>3. Framed(tool)
  BY <1>1, <1>2, DiedFrames
<1>4. LayersTyped'
  BY <1>3 DEF Framed
<1>5. tool = P => PreventativeInv'
  BY <1>2, PreventativeDied DEF LayersInv
<1>6. tool = A => AccountabilityInv'
  BY <1>2, <1>4, AccountabilityDied DEF LayersInv
<1>7. tool = I => ImpactInv'
  BY <1>2, ImpactEmptied DEF LayersInv
<1>8. tool = Episode => EpisodeInv'
  BY <1>2, <1>4, EpisodeDied DEF LayersInv
<1>9. evidence' = evidence
  BY <1>2 DEF Died
<1>10. DoneBy(tool) => DoneBy(tool)'
  BY <1>9, SameDone
<1> QED
  BY <1>3, <1>5, <1>6, <1>7, <1>8, <1>10, FramedKeeps

LEMMA ConcludedKeeps ==
  ASSUME LayersInv, NEW tool \in AllTools, tool \in ToolsOf(scenario), Conclude(tool)
  PROVE  Kept
<1>1. LayersTyped /\ FileInv
  BY DEF LayersInv
<1>2. Concluded(tool)
  BY <1>1, ConcludeIs
<1>3. Framed(tool)
  BY <1>1, <1>2, ConcludedFrames
<1>4. tool = P => PreventativeInv' /\ (DoneBy(tool) => DoneBy(tool)')
  BY <1>2, PreventativeConcluded DEF LayersInv
<1>5. tool = A => AccountabilityInv' /\ (DoneBy(tool) => DoneBy(tool)')
  BY <1>2, AccountabilityConcluded DEF LayersInv
<1>6. tool = I => ImpactInv' /\ (DoneBy(tool) => DoneBy(tool)')
  BY <1>2, ImpactConcluded DEF LayersInv
<1>7. tool = Episode => EpisodeInv' /\ (DoneBy(tool) => DoneBy(tool)')
  BY <1>2, EpisodeConcluded DEF LayersInv
<1> QED
  BY <1>3, <1>4, <1>5, <1>6, <1>7, ToolsDiffer, FramedKeeps

LEMMA ToolsAreKnown ==
  ASSUME LayersTyped
  PROVE  ToolsOf(scenario) \subseteq AllTools /\ ToolsOf("service") = {}
BY DEF LayersTyped, ToolsOf, AllTools

LEMMA LayersKept ==
  ASSUME LayersInv, LayersNext
  PROVE  Kept /\ scenario # "service" /\ scenario' = scenario
<1>1. PICK tool \in ToolsOf(scenario) :
        \/ BeginTool(tool) \/ CallGateway(tool) \/ read_or_run_real_guardrails(tool)
        \/ Conclude(tool) \/ DieIn(tool)
  BY DEF LayersNext
<1>2. tool \in AllTools /\ scenario # "service"
  BY <1>1, ToolsAreKnown DEF LayersInv
<1>3. Kept
  BY <1>1, <1>2, BeganKeeps, CalledKeeps, ProbedKeeps, ConcludedKeeps, DiedKeeps
<1>4. scenario' = scenario
  BY <1>1 DEF BeginTool, CallGateway, read_or_run_real_guardrails, Conclude, DieIn
<1> QED
  BY <1>2, <1>3, <1>4

LEMMA LayersSame ==
  ASSUME LayersInv, UNCHANGED layerVars
  PROVE  Kept /\ scenario' = scenario
<1>1. /\ scenario' = scenario /\ layerLogs' = layerLogs /\ running' = running
      /\ past' = past /\ guardrails' = guardrails /\ evidence' = evidence
  BY DEF layerVars
<1>2. /\ \A u : /\ Answers(u)' = Answers(u) /\ At(u)' = At(u) /\ (First(u)' <=> First(u))
                /\ (DoneBy(u)' <=> DoneBy(u)) /\ (Busy(u)' <=> Busy(u))
      /\ \A g : ScoreOn(g)' = ScoreOn(g)
  BY <1>1 DEF Answers, At, First, DoneBy, Busy, ScoreOn
<1>3. LayersTyped' /\ FileInv'
  BY <1>1 DEF LayersInv, LayersTyped, FileInv
<1>4. PreventativeInv'
  BY <1>1, <1>2 DEF LayersInv, PreventativeInv
<1>5. AccountabilityInv'
  BY <1>1, <1>2 DEF LayersInv, AccountabilityInv, BannedInv
<1>6. ImpactInv'
  BY <1>1, <1>2 DEF LayersInv, ImpactInv
<1>7. EpisodeInv'
  BY <1>1, <1>2 DEF LayersInv, EpisodeInv, BannedInv
<1> QED
  BY <1>1, <1>2, <1>3, <1>4, <1>5, <1>6, <1>7 DEF LayersInv, Kept

LEMMA LayersBegin == HostInit => LayersInv
<1> SUFFICES ASSUME HostInit
             PROVE  LayersInv
  OBVIOUS
<1>1. /\ layerLogs = [g \in Gateways |-> <<>>]
      /\ running = [tool \in AllTools |-> Away]
      /\ past = [tool \in AllTools |-> [began |-> 0, ended |-> 0, died |-> 0]]
      /\ guardrails = None /\ evidence = None
      /\ scenario \in {"service", "security_layers", "secure_community_demo"}
  BY DEF HostInit, LayersIdle
<1>2. \A tool \in AllTools :
        /\ running[tool] = Away /\ At(tool) = 0 /\ DOMAIN Answers(tool) = {}
        /\ past[tool].ended = 0 /\ ~ Busy(tool) /\ ~ DoneBy(tool)
  BY <1>1, IdleAt DEF Busy, DoneBy
<1>3. \A g \in Gateways : layerLogs[g] = <<>> /\ ScoreOn(g) = 0
  BY <1>1, ScoreNone DEF ScoreOn
<1>4. LayersTyped
  <2>1. \A g \in Gateways : ScoredList(layerLogs[g])
    BY <1>3, ScoreNone
  <2>2. \A tool \in AllTools :
          DOMAIN running[tool] = {"mems", "answers"} /\ IsList(running[tool].answers)
    BY <1>2, AwayIs, ListNone
  <2> QED
    BY <1>1, <2>1, <2>2 DEF LayersTyped
<1>5. /\ P \in AllTools /\ A \in AllTools /\ I \in AllTools /\ Episode \in AllTools
      /\ "layer1-baseline" \in Gateways /\ "layer1-defended" \in Gateways
      /\ "layer2-accountability" \in Gateways /\ "integrated-defended-gateway" \in Gateways
  BY ToolsDiffer DEF Gateways
<1>6. FileInv
  BY <1>1 DEF FileInv
<1>7. PreventativeInv
  BY <1>2, <1>3, <1>5 DEF PreventativeInv
<1>8. AccountabilityInv
  BY <1>2, <1>3, <1>5 DEF AccountabilityInv, BannedInv
<1>9. ImpactInv
  BY <1>2, <1>5 DEF ImpactInv
<1>10. EpisodeInv
  BY <1>2, <1>3, <1>5 DEF EpisodeInv, BannedInv
<1> QED
  BY <1>4, <1>6, <1>7, <1>8, <1>9, <1>10 DEF LayersInv

LEMMA HostKeeps ==
  ASSUME LayersInv, [HostNext]_<<vars, layerVars>>
  PROVE  Kept /\ scenario' = scenario
         /\ (scenario = "service" => evidence' = evidence)
<1>1. CASE UNCHANGED layerVars
  BY <1>1, LayersSame DEF layerVars
<1>2. CASE LayersNext
  BY <1>2, LayersKept
<1>3. UNCHANGED layerVars \/ LayersNext
  BY DEF HostNext
<1> QED
  BY <1>1, <1>2, <1>3

\* What the tools of security_agent_tools.py have done and the evidence file
\* say of each other, in every state of a host: what a first run has seen,
\* that a ban stays, and that the file is what the tools put there.
THEOREM ToolsInvariant == HostSpec => []LayersInv
<1>1. LayersInv /\ [HostNext]_<<vars, layerVars>> => LayersInv'
  BY HostKeeps DEF Kept
<1> QED
  BY <1>1, LayersBegin, PTL DEF HostSpec

\* A tool of security_agent_tools.py that came to its end and was never cut
\* short has its layer done, where the host passes the guardrail probe,
\* whatever other tools run meanwhile.
THEOREM FirstRunsAreDone == HostSpec => []FirstRunDone
<1>1. LayersInv => FirstRunDone
  <2> SUFFICES ASSUME LayersInv, NEW tool \in AllTools,
                      past[tool].ended > 0, past[tool].died = 0,
                      tool \in {"run_impact_layer", Episode} => guardrails = TRUE
               PROVE  LayerDone(tool)
    BY DEF FirstRunDone
  <2>1. tool \in {P, A, I, Episode} /\ I = "run_impact_layer"
    BY ToolsDiffer DEF I
  <2>2. DoneBy(tool)
    BY <2>1 DEF LayersInv, PreventativeInv, AccountabilityInv, ImpactInv, EpisodeInv
  <2> QED
    BY <2>2, DoneIs DEF LayersInv
<1> QED
  BY <1>1, ToolsInvariant, PTL

\* The stop predicates of scenario_runner.py never take back that a layer, the
\* episode or all that a scenario asks for is done.
THEOREM DoneStaysDone == HostSpec => LayerStaysDone
<1> DEFINE StopsAre ==
      /\ \A tool \in AllTools : LayerDone(tool) <=> DoneBy(tool)
      /\ AllDone => evidence # None
      /\ scenario = "security_layers" /\ evidence # None =>
           (AllDone <=> DoneBy(P) /\ DoneBy(A) /\ DoneBy(I))
      /\ scenario = "secure_community_demo" /\ evidence # None =>
           (AllDone <=> DoneBy(Episode))
<1>1. LayersInv => StopsAre
  BY DoneIs, AllDoneIs DEF LayersInv
<1>2. LayersInv /\ StopsAre /\ StopsAre' /\ [HostNext]_<<vars, layerVars>> =>
        [/\ AllDone => AllDone'
         /\ \A tool \in AllTools : LayerDone(tool) => LayerDone(tool)']_layerVars
  <2> SUFFICES ASSUME LayersInv, StopsAre, StopsAre', [HostNext]_<<vars, layerVars>>
               PROVE  /\ AllDone => AllDone'
                      /\ \A tool \in AllTools : LayerDone(tool) => LayerDone(tool)'
    OBVIOUS
  <2>1. /\ \A u \in AllTools : DoneBy(u) => DoneBy(u)'
        /\ scenario' = scenario /\ (scenario = "service" => evidence' = evidence)
    BY HostKeeps DEF Kept
  <2>2. P \in AllTools /\ A \in AllTools /\ I \in AllTools /\ Episode \in AllTools
    BY ToolsDiffer
  <2>3. \A u : DoneBy(u)' => evidence' # None
    BY DEF DoneBy
  <2>4. AllDone => AllDone'
    <3> SUFFICES ASSUME AllDone
                 PROVE  AllDone'
      OBVIOUS
    <3>1. CASE scenario = "security_layers"
      BY <2>1, <2>2, <2>3, <3>1
    <3>2. CASE scenario = "secure_community_demo"
      BY <2>1, <2>2, <2>3, <3>2
    <3>3. CASE scenario = "service"
      BY <2>1, <3>3 DEF AllDone, Satisfied, SecuritySection
    <3> QED
      BY <3>1, <3>2, <3>3 DEF LayersInv, LayersTyped
  <2> QED
    BY <2>1, <2>4
<1> QED
  BY <1>1, <1>2, ToolsInvariant, PTL DEF HostSpec, LayerStaysDone

\* A host is a gateway as the theorems above have it: what the layers do
\* leaves the gateway that is a service alone.
THEOREM HostIsGateway == HostSpec => Spec
<1>1. HostInit => Init
  BY DEF HostInit
<1>2. [HostNext]_<<vars, layerVars>> => [Next]_vars
  BY DEF HostNext, vars
<1> QED
  BY <1>1, <1>2, PTL DEF HostSpec, Spec
=============================================================================

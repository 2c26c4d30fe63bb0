------------------------------ MODULE Recursion ------------------------------
(***************************************************************************)
(* Functions defined by recursion over the subsets of a finite set, as the *)
(* folds of the models and the replay of a log are: there is one, any two  *)
(* agree, and its value takes one more step for the element picked.        *)
(*                                                                         *)
(* The step is a parameter of the module, so an INSTANCE of it says this   *)
(* of a given step; w stands for whatever else the step depends on.        *)
(***************************************************************************)
EXTENDS Integers, FiniteSets, FiniteSetTheorems, WellFoundedInduction, TLAPS

CONSTANTS
  Base,           \* value of the empty set
  Pick(_, _),     \* element a set is reduced by
  Step(_, _, _)   \* value with that element, from the value without it

Recursive(f, S, w) ==
  f = [E \in SUBSET S |->
         IF E = {} THEN Base ELSE Step(f[E \ {Pick(E, w)}], Pick(E, w), w)]

\* From every set that is not empty an element of it is picked.
Picks(S, w) == \A E \in SUBSET S : E # {} => Pick(E, w) \in E

\* What the recursion gives, for those who need not know how.
Value(S, w) == (CHOOSE f : Recursive(f, S, w))[S]

\* Among sets of subsets of a finite set there is always a smallest.
THEOREM Smallest ==
  ASSUME NEW S, IsFiniteSet(S), NEW T, T \subseteq SUBSET S, T # {}
  PROVE  \E E \in T : \A D \in T : D \subseteq E => D = E
<1>1. IsWellFoundedOn(StrictSubsetOrdering(S), SUBSET S)
  BY FS_StrictSubsetOrderingWellFounded, FS_FiniteSubsetsOfFinite
<1>2. PICK E \in T : \A D \in T : ~ (<<D, E>> \in StrictSubsetOrdering(S))
  BY <1>1, WFMin
<1>3. \A D \in T : D \subseteq E => D = E
  BY <1>2 DEF StrictSubsetOrdering
<1> QED
  BY <1>3

LEMMA Unfold ==
  ASSUME NEW S, NEW w, NEW f, Recursive(f, S, w)
  PROVE  /\ f[{}] = Base
         /\ \A E \in SUBSET S : E # {} =>
              f[E] = Step(f[E \ {Pick(E, w)}], Pick(E, w), w)
<1> DEFINE F(E) == IF E = {} THEN Base ELSE Step(f[E \ {Pick(E, w)}], Pick(E, w), w)
<1>1. f = [E \in SUBSET S |-> F(E)]
  BY DEF Recursive
<1>2. \A E \in SUBSET S : f[E] = F(E)
  <2> HIDE DEF F
  <2> QED
    BY <1>1
<1> QED
  BY <1>2

\* Two recursions whose steps are the same below a set agree there.
THEOREM Agree ==
  ASSUME NEW S, NEW w, NEW f, Recursive(f, S, w),
         NEW T, NEW v, NEW g, Recursive(g, T, v),
         NEW D, IsFiniteSet(D), D \subseteq S, D \subseteq T, Picks(D, w),
         \A E \in SUBSET D : E # {} =>
           /\ Pick(E, w) = Pick(E, v)
           /\ \A x : Step(x, Pick(E, w), w) = Step(x, Pick(E, w), v)
  PROVE  f[D] = g[D]
<1> DEFINE Bad == {E \in SUBSET D : f[E] # g[E]}
<1>1. ASSUME Bad # {}
      PROVE  FALSE
  <2>1. PICK E \in Bad : \A C \in Bad : C \subseteq E => C = E
    <3>1. Bad \subseteq SUBSET D
      OBVIOUS
    <3> HIDE DEF Bad
    <3> QED
      BY <1>1, <3>1, Smallest
  <2>2. E # {}
    BY <2>1, Unfold
  <2> DEFINE e == Pick(E, w)
             C == E \ {e}
  <2>3. e \in E /\ C \subseteq E /\ C # E /\ C \in SUBSET D
    BY <2>1, <2>2 DEF Picks
  <2>4. f[C] = g[C]
    BY <2>1, <2>3
  <2>5. f[E] = Step(f[C], e, w) /\ g[E] = Step(g[C], e, v)
    BY <2>1, <2>2, Unfold
  <2> QED
    BY <2>1, <2>2, <2>4, <2>5
<1> QED
  BY <1>1

\* There is such a function, whatever the values are.
THEOREM Exists ==
  ASSUME NEW S, IsFiniteSet(S), NEW w, Picks(S, w)
  PROVE  \E f : Recursive(f, S, w)
<1> DEFINE Bad == {E \in SUBSET S : ~ \E f : Recursive(f, E, w)}
<1>1. ASSUME NEW T \in SUBSET S, \A E \in SUBSET T : E # T => \E f : Recursive(f, E, w)
      PROVE  \E f : Recursive(f, T, w)
  <2> DEFINE G == [E \in SUBSET T |-> CHOOSE f : Recursive(f, E, w)]
             C(E) == E \ {Pick(E, w)}
             h == [E \in SUBSET T |->
                     IF E = {} THEN Base ELSE Step(G[C(E)][C(E)], Pick(E, w), w)]
  <2>1. \A E \in SUBSET T : E # T => Recursive(G[E], E, w)
    BY <1>1
  <2>2. \A E \in SUBSET T : E # {} => Pick(E, w) \in E /\ C(E) \in SUBSET T /\ C(E) # T
    BY DEF Picks
  <2>3. \A E \in SUBSET T :
          h[E] = IF E = {} THEN Base ELSE Step(G[C(E)][C(E)], Pick(E, w), w)
    OBVIOUS
  <2> HIDE DEF G, h
  <2>4. ASSUME NEW E \in SUBSET T, E # T
        PROVE  h[E] = G[E][E]
    <3>1. Recursive(G[E], E, w)
      BY <2>1, <2>4
    <3>2. CASE E = {}
      <4>1. G[E][{}] = Base
        BY <3>1, Unfold
      <4> QED
        BY <2>3, <3>2, <4>1
    <3>3. CASE E # {}
      <4>1. C(E) \in SUBSET T /\ C(E) # T /\ C(E) \subseteq E /\ IsFiniteSet(C(E))
        BY <2>2, <3>3, FS_Subset
      <4>2. Recursive(G[C(E)], C(E), w)
        BY <2>1, <4>1
      <4>3. Picks(C(E), w)
        BY <4>1 DEF Picks
      <4>4. G[E][C(E)] = G[C(E)][C(E)]
        <5> HIDE DEF C
        <5> QED
          BY <3>1, <4>1, <4>2, <4>3, Agree
      <4>5. G[E][E] = Step(G[E][C(E)], Pick(E, w), w)
        BY <3>1, <3>3, Unfold
      <4> QED
        BY <2>3, <3>3, <4>4, <4>5
    <3> QED
      BY <3>2, <3>3
  <2>5. ASSUME NEW E \in SUBSET T, E # {}
        PROVE  G[C(E)][C(E)] = h[C(E)]
    BY <2>2, <2>4, <2>5
  <2>6. h = [E \in SUBSET T |->
               IF E = {} THEN Base ELSE Step(h[C(E)], Pick(E, w), w)]
    <3>1. \A E \in SUBSET T :
            (IF E = {} THEN Base ELSE Step(G[C(E)][C(E)], Pick(E, w), w))
              = IF E = {} THEN Base ELSE Step(h[C(E)], Pick(E, w), w)
      BY <2>5
    <3> HIDE DEF C
    <3> QED
      BY <3>1 DEF h
  <2>7. Recursive(h, T, w)
    BY <2>6 DEF Recursive
  <2> QED
    BY <2>7
<1>2. ASSUME Bad # {}
      PROVE  FALSE
  <2>1. PICK T \in Bad : \A E \in Bad : E \subseteq T => E = T
    <3>1. Bad \subseteq SUBSET S
      OBVIOUS
    <3> HIDE DEF Bad
    <3> QED
      BY <1>2, <3>1, Smallest
  <2>2. \A E \in SUBSET T : E # T => \E f : Recursive(f, E, w)
    BY <2>1
  <2> QED
    BY <1>1, <2>1, <2>2
<1>3. S \in SUBSET S
  OBVIOUS
<1> QED
  BY <1>2, <1>3

\* The value of the empty set, and of a set from that of all but one element.
THEOREM Empty ==
  ASSUME NEW w
  PROVE  Value({}, w) = Base
<1>1. IsFiniteSet({}) /\ Picks({}, w)
  BY FS_EmptySet DEF Picks
<1>2. Recursive(CHOOSE f : Recursive(f, {}, w), {}, w)
  BY <1>1, Exists
<1> QED
  BY <1>2, Unfold DEF Value

THEOREM OneMore ==
  ASSUME NEW S, IsFiniteSet(S), S # {}, NEW w, Picks(S, w),
         NEW v, NEW C, C = S \ {Pick(S, w)},
         \A E \in SUBSET C : E # {} =>
           /\ Pick(E, w) = Pick(E, v)
           /\ \A x : Step(x, Pick(E, w), w) = Step(x, Pick(E, w), v)
  PROVE  Value(S, w) = Step(Value(C, v), Pick(S, w), w)
<1> DEFINE f == CHOOSE f : Recursive(f, S, w)
           g == CHOOSE g : Recursive(g, C, v)
<1>1. C \subseteq S /\ IsFiniteSet(C) /\ Picks(C, w) /\ Picks(C, v)
  <2>1. C \subseteq S /\ IsFiniteSet(C)
    BY FS_Subset
  <2>2. Picks(C, w)
    BY <2>1 DEF Picks
  <2> QED
    BY <2>1, <2>2 DEF Picks
<1>2. Recursive(f, S, w) /\ Recursive(g, C, v)
  BY <1>1, Exists
<1> HIDE DEF f, g
<1>3. f[S] = Step(f[C], Pick(S, w), w)
  BY <1>2, Unfold
<1>4. f[C] = g[C]
  BY <1>1, <1>2, Agree
<1> QED
  BY <1>3, <1>4 DEF Value, f, g
---------------------------------------------------------------------------
\* Over the indices of a list, from the first to the last.

\* What holds of 0 and with every number of the next holds up to any number.
THEOREM UpTo ==
  ASSUME NEW n \in Nat, NEW T, 0 \in T, \A k \in 0..n - 1 : k \in T => k + 1 \in T
  PROVE  \A k \in 0..n : k \in T
<1> DEFINE Bad == {k \in 0..n : k \notin T}
<1>1. ASSUME Bad # {}
      PROVE  FALSE
  <2>1. PICK k \in Bad : \A l \in Bad : ~ (<<l, k>> \in OpToRel(<, Nat))
    <3>1. Bad \subseteq Nat
      OBVIOUS
    <3> HIDE DEF Bad
    <3> QED
      BY <1>1, <3>1, NatLessThanWellFounded, WFMin
  <2>2. k \in 1..n /\ k - 1 \in 0..n - 1 /\ k - 1 + 1 = k
    OBVIOUS
  <2>3. <<k - 1, k>> \in OpToRel(<, Nat)
    BY <2>2 DEF OpToRel
  <2>4. k - 1 \in T
    <3>1. k - 1 \notin Bad
      <4> HIDE DEF Bad
      <4> QED
        BY <2>1, <2>3
    <3> QED
      BY <2>2, <3>1
  <2> QED
    BY <2>2, <2>4
<1> QED
  BY <1>1

THEOREM Greatest ==
  ASSUME NEW n \in Nat, NEW E, E \subseteq 1..n, E # {}
  PROVE  \E i \in E : \A j \in E : j <= i
<1> DEFINE T == {n - i : i \in E}
<1>1. T \subseteq Nat /\ T # {}
  <2>1. \A i \in E : n - i \in Nat
    OBVIOUS
  <2> QED
    BY <2>1
<1>2. PICK k \in T : \A l \in T : ~ (<<l, k>> \in OpToRel(<, Nat))
  <2> HIDE DEF T
  <2> QED
    BY <1>1, NatLessThanWellFounded, WFMin
<1>3. \A l \in T : k <= l
  <2> HIDE DEF T
  <2>1. k \in Nat /\ \A l \in T : l \in Nat
    BY <1>1, <1>2
  <2>2. \A l \in Nat : l < k => <<l, k>> \in OpToRel(<, Nat)
    BY <2>1 DEF OpToRel
  <2>3. \A l \in T : ~ (l < k)
    BY <1>2, <2>1, <2>2
  <2> QED
    BY <2>1, <2>3
<1>4. PICK i \in E : k = n - i
  BY <1>2
<1>5. \A j \in E : n - i <= n - j
  BY <1>3, <1>4
<1>6. \A j \in E : j \in Int
  OBVIOUS
<1> QED
  BY <1>4, <1>5, <1>6

PicksLast(n, w) ==
  \A E \in SUBSET (1..n) : E # {} =>
    Pick(E, w) \in E /\ \A i \in E : i <= Pick(E, w)

THEOREM NextIndex ==
  ASSUME NEW n \in Nat, NEW w, PicksLast(n + 1, w), NEW v, PicksLast(n, v),
         \A i \in 1..n : \A x : Step(x, i, w) = Step(x, i, v)
  PROVE  Value(1..n + 1, w) = Step(Value(1..n, v), n + 1, w)
<1> DEFINE S == 1..n + 1
<1>1. IsFiniteSet(S) /\ S # {} /\ n + 1 \in S /\ Picks(S, w)
  <2>1. 1 \in Int /\ n + 1 \in Int /\ n + 1 \in S
    OBVIOUS
  <2>2. IsFiniteSet(S)
    BY <2>1, FS_Interval
  <2>3. Picks(S, w)
    BY DEF PicksLast, Picks
  <2> QED
    BY <2>1, <2>2, <2>3
<1>2. Pick(S, w) = n + 1
  BY DEF PicksLast
<1>3. 1..n = S \ {Pick(S, w)}
  BY <1>2
<1>4. ASSUME NEW E \in SUBSET (1..n), E # {}
      PROVE  Pick(E, w) = Pick(E, v) /\ \A x : Step(x, Pick(E, w), w) = Step(x, Pick(E, w), v)
  <2>1. Pick(E, w) \in E /\ \A i \in E : i <= Pick(E, w)
    BY <1>4 DEF PicksLast
  <2>2. Pick(E, v) \in E /\ \A i \in E : i <= Pick(E, v)
    BY <1>4 DEF PicksLast
  <2>3. Pick(E, w) \in 1..n /\ Pick(E, v) \in 1..n
    BY <2>1, <2>2
  <2>4. Pick(E, w) <= Pick(E, v) /\ Pick(E, v) <= Pick(E, w)
    BY <2>1, <2>2
  <2>5. Pick(E, w) = Pick(E, v)
    BY <2>3, <2>4
  <2> QED
    BY <2>3, <2>5
<1>5. Value(S, w) = Step(Value(1..n, v), Pick(S, w), w)
  <2> DEFINE C == 1..n
  <2>1. C = S \ {Pick(S, w)}
    BY <1>3
  <2>2. \A E \in SUBSET C : E # {} =>
          /\ Pick(E, w) = Pick(E, v)
          /\ \A x : Step(x, Pick(E, w), w) = Step(x, Pick(E, w), v)
    BY <1>4
  <2> HIDE DEF C, S
  <2>3. Value(S, w) = Step(Value(C, v), Pick(S, w), w)
    BY <1>1, <2>1, <2>2, OneMore
  <2> QED
    BY <2>3 DEF C
<1> QED
  BY <1>2, <1>5
=============================================================================

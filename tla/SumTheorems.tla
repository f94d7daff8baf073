------------------------------ MODULE SumTheorems ------------------------------
(***************************************************************************)
(* Sums over finite sets.  The totals of the models are folds of the       *)
(* community modules, defined by recursion over an element that CHOOSE     *)
(* picks; what a proof needs of them is that the order does not matter:    *)
(* how a sum changes when one element, one value or all values change.     *)
(*                                                                         *)
(* Induction is taken from the well-foundedness of strict inclusion: of    *)
(* the sets that are counterexamples, look at a smallest one.              *)
(***************************************************************************)
EXTENDS Integers, FiniteSets, Functions, FiniteSetTheorems,
        WellFoundedInduction, TLAPS

LEMMA SmallestSet ==
  ASSUME NEW S, IsFiniteSet(S), NEW F \in SUBSET (SUBSET S), F # {}
  PROVE  \E s \in F : \A t \in F : t \subseteq s => t = s
<1>1. IsWellFoundedOn(StrictSubsetOrdering(S), SUBSET S)
  BY FS_StrictSubsetOrderingWellFounded, FS_FiniteSubsetsOfFinite
<1>2. PICK s \in F : \A t \in F : ~(<<t, s>> \in StrictSubsetOrdering(S))
  BY <1>1, WFMin
<1>3. ASSUME NEW t \in F, t \subseteq s, t # s PROVE FALSE
  BY <1>2, <1>3 DEF StrictSubsetOrdering
<1> QED BY <1>3

LEMMA SmallestNumber ==
  ASSUME NEW T \in SUBSET Nat, T # {}
  PROVE  \E n \in T : \A m \in T : n <= m
<1>1. PICK k \in T : TRUE
  OBVIOUS
<1> DEFINE F == {0..m : m \in {m \in T : m <= k}}
<1>2. IsFiniteSet(0..k)
  BY FS_Interval
<1>3. F \in SUBSET (SUBSET (0..k)) /\ F # {}
  <2>1. 0..k \in F
    OBVIOUS
  <2> QED BY <2>1
<1>4. PICK s \in F : \A t \in F : t \subseteq s => t = s
  <2> DEFINE U == 0..k
  <2>1. IsFiniteSet(U) /\ F \in SUBSET (SUBSET U) /\ F # {}
    BY <1>2, <1>3
  <2> HIDE DEF F, U
  <2> QED BY <2>1, SmallestSet
<1>5. PICK n \in T : n <= k /\ s = 0..n
  OBVIOUS
<1>6. ASSUME NEW m \in T, m < n PROVE FALSE
  <2>1. 0..m \in F /\ 0..m \subseteq 0..n
    BY <1>5, <1>6
  <2>2. 0..m = 0..n
    BY <1>4, <1>5, <2>1
  <2>3. n \in 0..n /\ n \notin 0..m
    BY <1>6
  <2> QED BY <2>2, <2>3
<1> QED BY <1>6


--------------------------------------------------------------------------------
(* Sums                                                                    *)

\* Integer values on a set.
Values(v, S) == \A x \in S : v[x] \in Int

\* G gives the sum of v over every subset of S, counted from b.
IsSum(G, b, v, S) ==
  /\ G \in [SUBSET S -> Int]
  /\ G[{}] = b
  /\ \A s \in SUBSET S : \A y \in s : G[s] = v[y] + G[s \ {y}]

SumOn(v, S) == CHOOSE n : \E G : IsSum(G, 0, v, S) /\ n = G[S]

\* pick takes an element of each part of S: any, the greatest, ...
Picks(pick, S) == \A s \in SUBSET S : s # {} => pick[s] \in s

AnyOf(s) == CHOOSE x \in s : TRUE
AnyPick(S) == [s \in SUBSET S |-> AnyOf(s)]

LEMMA AnyPicks ==
  ASSUME NEW S
  PROVE  Picks(AnyPick(S), S) /\ \A s \in SUBSET S : AnyPick(S)[s] = AnyOf(s)
BY DEF Picks, AnyPick, AnyOf

\* One step of a recursive sum: the element that is picked is added to the sum
\* of the others.
Step(G, b, v, pick, s) == G[s] = IF s = {} THEN b ELSE v[pick[s]] + G[s \ {pick[s]}]

HasSteps(b, v, pick, S) ==
  \E G \in [SUBSET S -> Int] : \A s \in SUBSET S : Step(G, b, v, pick, s)

\* One step of a fold: the element that is picked acts on the fold of the
\* others.
FoldStep(G, b, act, pick, s) ==
  G[s] = IF s = {} THEN b ELSE act[pick[s]][G[s \ {pick[s]}]]

HasFold(V, b, act, pick, S) ==
  \E G \in [SUBSET S -> V] : \A s \in SUBSET S : FoldStep(G, b, act, pick, s)

\* There is a function that satisfies the recursion on the subsets of S: it
\* is built for one cardinality after the other.
LEMMA FoldExists ==
  ASSUME NEW S, IsFiniteSet(S), NEW V, NEW act \in [S -> [V -> V]], NEW b \in V,
         NEW pick, Picks(pick, S)
  PROVE  HasFold(V, b, act, pick, S)
<1> DEFINE Upto(n) == {s \in SUBSET S : Cardinality(s) <= n}
           Good(n) == \E G \in [SUBSET S -> V] :
                        \A s \in Upto(n) : FoldStep(G, b, act, pick, s)
           Bad == {n \in Nat : ~Good(n)}
<1>0. Cardinality({}) = 0
  BY FS_EmptySet
<1>1. \A s \in SUBSET S : IsFiniteSet(s) /\ Cardinality(s) \in Nat
  BY FS_Subset, FS_CardinalityType
<1>2. \A s \in SUBSET S :
        s # {} => /\ pick[s] \in s
                  /\ s \ {pick[s]} \in SUBSET S
                  /\ Cardinality(s \ {pick[s]}) = Cardinality(s) - 1
  BY <1>1, FS_RemoveElement DEF Picks
<1>3. Good(0)
  <2> DEFINE Z == [s \in SUBSET S |-> b]
  <2>1. \A s \in Upto(0) : s = {}
    BY <1>1, FS_EmptySet
  <2>2. \A s \in Upto(0) : FoldStep(Z, b, act, pick, s)
    BY <2>1 DEF FoldStep
  <2>3. Z \in [SUBSET S -> V]
    OBVIOUS
  <2> HIDE DEF Z, Upto
  <2> QED BY <2>2, <2>3
<1>4. ASSUME NEW n \in Nat, Good(n) PROVE Good(n + 1)
  <2>1. PICK G \in [SUBSET S -> V] : \A s \in Upto(n) : FoldStep(G, b, act, pick, s)
    BY <1>4
  <2> DEFINE H == [s \in SUBSET S |-> IF Cardinality(s) = n + 1
                                      THEN act[pick[s]][G[s \ {pick[s]}]]
                                      ELSE G[s]]
  <2>2. H \in [SUBSET S -> V]
    <3>1. ASSUME NEW s \in SUBSET S, Cardinality(s) = n + 1
          PROVE  act[pick[s]][G[s \ {pick[s]}]] \in V
      <4>0. Cardinality(s) # 0
        BY <3>1
      <4>1. s # {}
        BY <4>0, <1>0, Zenon
      <4>2. pick[s] \in S /\ s \ {pick[s]} \in SUBSET S
        BY <4>1, <1>2
      <4> QED BY <4>2
    <3> QED BY <3>1
  <2>3. ASSUME NEW s \in Upto(n + 1) PROVE FoldStep(H, b, act, pick, s)
    <3>1. CASE Cardinality(s) = n + 1
      <4>0. Cardinality(s) # 0
        BY <3>1
      <4>1. s # {}
        BY <4>0, <1>0, Zenon
      <4>2. H[s \ {pick[s]}] = G[s \ {pick[s]}]
        BY <3>1, <4>1, <1>2
      <4> QED BY <3>1, <4>1, <4>2 DEF FoldStep
    <3>2. CASE Cardinality(s) # n + 1
      <4>1. s \in Upto(n) /\ H[s] = G[s]
        BY <3>2, <1>1
      <4>2. FoldStep(G, b, act, pick, s)
        BY <4>1, <2>1
      <4>3. s # {} => H[s \ {pick[s]}] = G[s \ {pick[s]}]
        BY <4>1, <1>1, <1>2
      <4> QED BY <4>1, <4>2, <4>3 DEF FoldStep
    <3> QED BY <3>1, <3>2
  <2> QED BY <2>2, <2>3
<1>5. Bad = {}
  <2> SUFFICES ASSUME Bad # {} PROVE FALSE
    OBVIOUS
  <2>1. PICK n \in Bad : \A m \in Bad : n <= m
    <3>1. Bad \in SUBSET Nat
      OBVIOUS
    <3> HIDE DEF Bad
    <3> QED BY <3>1, SmallestNumber
  <2> HIDE DEF Good
  <2>2. n \in Nat /\ ~Good(n)
    OBVIOUS
  <2>3. n # 0
    BY <2>2, <1>3
  <2>4. n - 1 \in Nat /\ Good(n - 1)
    BY <2>1, <2>2, <2>3
  <2> QED BY <2>2, <2>4, <1>4
<1>6. Good(Cardinality(S))
  <2> HIDE DEF Good
  <2> QED BY <1>5, <1>1
<1>7. \A s \in SUBSET S : Cardinality(s) <= Cardinality(S)
  BY FS_Subset
<1> QED BY <1>6, <1>7 DEF HasFold

\* A sum is a fold: an element acts by adding its value.
LEMMA RecursionExists ==
  ASSUME NEW S, IsFiniteSet(S), NEW v, Values(v, S), NEW b \in Int,
         NEW pick, Picks(pick, S)
  PROVE  HasSteps(b, v, pick, S)
<1> DEFINE act == [x \in S |-> [n \in Int |-> v[x] + n]]
<1>1. act \in [S -> [Int -> Int]]
  BY DEF Values
<1>2. \A x \in S : \A n \in Int : act[x][n] = v[x] + n
  OBVIOUS
<1> HIDE DEF act
<1>3. PICK G \in [SUBSET S -> Int] : \A s \in SUBSET S : FoldStep(G, b, act, pick, s)
  <2>1. HasFold(Int, b, act, pick, S)
    BY <1>1, FoldExists
  <2> QED BY <2>1 DEF HasFold
<1>4. ASSUME NEW s \in SUBSET S PROVE Step(G, b, v, pick, s)
  <2>1. CASE s = {}
    BY <1>3, <2>1 DEF FoldStep, Step
  <2>2. CASE s # {}
    <3>1. pick[s] \in S /\ G[s \ {pick[s]}] \in Int
      BY <2>2 DEF Picks
    <3>2. G[s] = act[pick[s]][G[s \ {pick[s]}]]
      BY <1>3, <2>2 DEF FoldStep
    <3>3. act[pick[s]][G[s \ {pick[s]}]] = v[pick[s]] + G[s \ {pick[s]}]
      BY <1>2, <3>1
    <3> QED BY <2>2, <3>2, <3>3 DEF Step
  <2> QED BY <2>1, <2>2
<1> QED BY <1>4 DEF HasSteps

\* Such a function does not depend on the element the recursion takes: any
\* element may be taken out of the sum.
LEMMA SumExists ==
  ASSUME NEW S, IsFiniteSet(S), NEW v, Values(v, S), NEW b \in Int
  PROVE  \E G : IsSum(G, b, v, S)
<1> DEFINE pick == AnyPick(S)
<1>0. Picks(pick, S)
  BY AnyPicks
<1> HIDE DEF pick
<1>1. PICK G \in [SUBSET S -> Int] : \A s \in SUBSET S : Step(G, b, v, pick, s)
  <2>1. HasSteps(b, v, pick, S)
    BY <1>0, RecursionExists
  <2> QED BY <2>1 DEF HasSteps
<1> DEFINE Bad == {s \in SUBSET S : \E y \in s : G[s] # v[y] + G[s \ {y}]}
<1>2. Bad = {}
  <2> SUFFICES ASSUME Bad # {} PROVE FALSE
    OBVIOUS
  <2>1. PICK s \in Bad : \A t \in Bad : t \subseteq s => t = s
    <3>1. Bad \in SUBSET (SUBSET S)
      OBVIOUS
    <3> HIDE DEF Bad
    <3> QED BY <3>1, SmallestSet
  <2>2. PICK y \in s : G[s] # v[y] + G[s \ {y}]
    OBVIOUS
  <2> DEFINE x == pick[s]
             r == (s \ {x}) \ {y}
  <2>3. x \in s /\ G[s] = v[x] + G[s \ {x}]
    BY <1>0, <1>1, <2>2 DEF Step, Picks
  <2>4. x # y
    BY <2>2, <2>3
  <2>5. /\ G[s \ {x}] = v[y] + G[r]
        /\ G[s \ {y}] = v[x] + G[r]
    <3>1. s \ {x} \notin Bad /\ s \ {y} \notin Bad
      BY <2>1, <2>2, <2>3
    <3>2. (s \ {y}) \ {x} = r /\ y \in s \ {x} /\ x \in s \ {y}
      BY <2>3, <2>4
    <3>3. s \ {x} \in SUBSET S /\ s \ {y} \in SUBSET S
      OBVIOUS
    <3> QED BY <3>1, <3>2, <3>3
  <2>6. v[x] \in Int /\ v[y] \in Int /\ G[r] \in Int
    BY <2>3 DEF Values
  <2> HIDE DEF x, r
  <2> QED BY <2>2, <2>3, <2>5, <2>6
<1>3. G[{}] = b
  BY <1>1 DEF Step
<1>4. \A s \in SUBSET S : \A y \in s : G[s] = v[y] + G[s \ {y}]
  BY <1>2
<1> HIDE DEF Bad
<1> QED BY <1>3, <1>4 DEF IsSum

\* Two sums of the same values are equal, wherever they are counted.
LEMMA SumsEqual ==
  ASSUME NEW S, NEW T, IsFiniteSet(S), NEW v, NEW w, NEW b, NEW G, NEW H,
         IsSum(G, b, v, S), IsSum(H, b, w, T), S \subseteq T,
         \A x \in S : v[x] = w[x]
  PROVE  \A s \in SUBSET S : G[s] = H[s]
<1> DEFINE Bad == {s \in SUBSET S : G[s] # H[s]}
<1>1. SUFFICES ASSUME Bad # {} PROVE FALSE
  OBVIOUS
<1>2. PICK s \in Bad : \A t \in Bad : t \subseteq s => t = s
  <2>1. Bad \in SUBSET (SUBSET S)
    OBVIOUS
  <2> HIDE DEF Bad
  <2> QED BY <1>1, <2>1, SmallestSet
<1>3. s # {}
  BY DEF IsSum
<1>4. PICK x \in s : TRUE
  BY <1>3
<1>5. G[s \ {x}] = H[s \ {x}]
  BY <1>2
<1>6. G[s] = v[x] + G[s \ {x}] /\ H[s] = w[x] + H[s \ {x}]
  BY DEF IsSum
<1> QED BY <1>5, <1>6

\* What SumOn stands for.
LEMMA SumOnIs ==
  ASSUME NEW S, IsFiniteSet(S), NEW v, NEW G, IsSum(G, 0, v, S)
  PROVE  SumOn(v, S) = G[S]
<1>1. PICK H : IsSum(H, 0, v, S) /\ SumOn(v, S) = H[S]
  BY DEF SumOn
<1> QED BY <1>1, SumsEqual

LEMMA SumOnPart ==
  ASSUME NEW S, IsFiniteSet(S), NEW v, NEW G, IsSum(G, 0, v, S),
         NEW T \in SUBSET S
  PROVE  SumOn(v, T) = G[T]
<1>1. IsFiniteSet(T)
  BY FS_Subset
<1> DEFINE H == [t \in SUBSET T |-> G[t]]
<1>2. IsSum(H, 0, v, T)
  <2>1. \A t \in SUBSET T : t \in SUBSET S /\ H[t] = G[t]
    OBVIOUS
  <2>2. H \in [SUBSET T -> Int]
    BY <2>1 DEF IsSum
  <2>3. H[{}] = 0
    BY DEF IsSum
  <2>4. ASSUME NEW t \in SUBSET T, NEW y \in t
        PROVE  H[t] = v[y] + H[t \ {y}]
    <3>1. t \ {y} \in SUBSET T
      OBVIOUS
    <3> QED BY <2>1, <3>1 DEF IsSum
  <2> HIDE DEF H
  <2> QED BY <2>2, <2>3, <2>4 DEF IsSum
<1>3. SumOn(v, T) = H[T]
  BY <1>1, <1>2, SumOnIs
<1> QED BY <1>3

--------------------------------------------------------------------------------
(* What the proofs cite                                                    *)

LEMMA SumType ==
  ASSUME NEW S, IsFiniteSet(S), NEW v, Values(v, S)
  PROVE  SumOn(v, S) \in Int
<1>1. PICK G : IsSum(G, 0, v, S)
  BY SumExists
<1>2. SumOn(v, S) = G[S]
  BY <1>1, SumOnIs
<1> QED BY <1>1, <1>2 DEF IsSum

LEMMA SumEmpty ==
  ASSUME NEW v
  PROVE  SumOn(v, {}) = 0
<1>1. IsFiniteSet({}) /\ Values(v, {})
  BY FS_EmptySet DEF Values
<1>2. PICK G : IsSum(G, 0, v, {})
  BY <1>1, SumExists
<1>3. SumOn(v, {}) = G[{}]
  BY <1>1, <1>2, SumOnIs
<1> QED BY <1>2, <1>3 DEF IsSum

\* Any element may be taken out of a sum.
LEMMA SumRemove ==
  ASSUME NEW S, IsFiniteSet(S), NEW v, Values(v, S), NEW y \in S
  PROVE  SumOn(v, S) = v[y] + SumOn(v, S \ {y})
<1>1. PICK G : IsSum(G, 0, v, S)
  BY SumExists
<1>2. SumOn(v, S) = G[S] /\ SumOn(v, S \ {y}) = G[S \ {y}]
  BY <1>1, SumOnIs, SumOnPart
<1> QED BY <1>1, <1>2 DEF IsSum

\* A sum depends on the values of the elements alone.
LEMMA SumSame ==
  ASSUME NEW S, IsFiniteSet(S), NEW v, Values(v, S), NEW w,
         \A x \in S : w[x] = v[x]
  PROVE  SumOn(w, S) = SumOn(v, S)
<1>1. Values(w, S)
  BY DEF Values
<1>2. PICK G : IsSum(G, 0, v, S)
  BY SumExists
<1>3. PICK H : IsSum(H, 0, w, S)
  BY <1>1, SumExists
<1>4. \A s \in SUBSET S : G[s] = H[s]
  <2>1. S \subseteq S /\ \A x \in S : v[x] = w[x]
    OBVIOUS
  <2> QED BY ONLY IsFiniteSet(S), <1>2, <1>3, <2>1, SumsEqual
<1>5. G[S] = H[S]
  BY <1>4
<1> QED BY <1>2, <1>3, <1>5, SumOnIs

\* One value changes.
LEMMA SumPoint ==
  ASSUME NEW S, IsFiniteSet(S), NEW v, Values(v, S), NEW w, NEW y \in S,
         w[y] \in Int, \A x \in S \ {y} : w[x] = v[x]
  PROVE  SumOn(w, S) = SumOn(v, S) + w[y] - v[y]
<1>1. IsFiniteSet(S \ {y}) /\ Values(v, S \ {y}) /\ Values(w, S)
  BY FS_Subset DEF Values
<1>2. SumOn(w, S \ {y}) = SumOn(v, S \ {y})
  BY <1>1, SumSame
<1>3. /\ SumOn(v, S) = v[y] + SumOn(v, S \ {y})
      /\ SumOn(w, S) = w[y] + SumOn(w, S \ {y})
  BY <1>1, SumRemove
<1>4. SumOn(v, S \ {y}) \in Int
  BY <1>1, SumType
<1>5. v[y] \in Int
  BY DEF Values
<1> QED BY <1>2, <1>3, <1>4, <1>5

\* All values change at once.
LEMMA SumAdd ==
  ASSUME NEW S, IsFiniteSet(S), NEW v, Values(v, S), NEW w, Values(w, S),
         NEW u, \A x \in S : u[x] = v[x] + w[x]
  PROVE  SumOn(u, S) = SumOn(v, S) + SumOn(w, S)
<1>1. PICK G : IsSum(G, 0, v, S)
  BY SumExists
<1>2. PICK H : IsSum(H, 0, w, S)
  BY SumExists
<1> DEFINE K == [s \in SUBSET S |-> G[s] + H[s]]
<1>3. IsSum(K, 0, u, S)
  <2>1. K \in [SUBSET S -> Int] /\ K[{}] = 0
    BY <1>1, <1>2 DEF IsSum
  <2>2. ASSUME NEW s \in SUBSET S, NEW y \in s
        PROVE  K[s] = u[y] + K[s \ {y}]
    <3>1. K[s] = G[s] + H[s] /\ K[s \ {y}] = G[s \ {y}] + H[s \ {y}]
      OBVIOUS
    <3>2. G[s] = v[y] + G[s \ {y}] /\ H[s] = w[y] + H[s \ {y}]
      BY <1>1, <1>2 DEF IsSum
    <3>3. /\ v[y] \in Int /\ w[y] \in Int /\ u[y] = v[y] + w[y]
          /\ G[s \ {y}] \in Int /\ H[s \ {y}] \in Int
      BY <1>1, <1>2 DEF IsSum, Values
    <3> HIDE DEF K
    <3> QED BY <3>1, <3>2, <3>3
  <2> HIDE DEF K
  <2> QED BY <2>1, <2>2 DEF IsSum
<1>4. SumOn(u, S) = K[S]
  BY <1>3, SumOnIs
<1> QED BY <1>1, <1>2, <1>4, SumOnIs

\* Values that are no smaller give a sum that is no smaller.
LEMMA SumMonotone ==
  ASSUME NEW S, IsFiniteSet(S), NEW v, Values(v, S), NEW w, Values(w, S),
         \A x \in S : v[x] <= w[x]
  PROVE  SumOn(v, S) <= SumOn(w, S)
<1>1. PICK G : IsSum(G, 0, v, S)
  BY SumExists
<1>2. PICK H : IsSum(H, 0, w, S)
  BY SumExists
<1> DEFINE Bad == {s \in SUBSET S : ~(G[s] <= H[s])}
<1>3. Bad = {}
  <2> SUFFICES ASSUME Bad # {} PROVE FALSE
    OBVIOUS
  <2>1. PICK s \in Bad : \A t \in Bad : t \subseteq s => t = s
    <3>1. Bad \in SUBSET (SUBSET S)
      OBVIOUS
    <3> HIDE DEF Bad
    <3> QED BY <3>1, SmallestSet
  <2>2. s # {}
    <3>1. G[{}] = 0 /\ H[{}] = 0
      BY <1>1, <1>2 DEF IsSum
    <3> QED BY <3>1
  <2>3. PICK x \in s : TRUE
    BY <2>2
  <2>4. G[s \ {x}] <= H[s \ {x}]
    BY <2>1
  <2>5. G[s] = v[x] + G[s \ {x}] /\ H[s] = w[x] + H[s \ {x}]
    BY <1>1, <1>2 DEF IsSum
  <2>6. /\ v[x] \in Int /\ w[x] \in Int /\ v[x] <= w[x]
        /\ G[s \ {x}] \in Int /\ H[s \ {x}] \in Int
    BY <1>1, <1>2 DEF IsSum, Values
  <2>7. G[s] <= H[s]
    BY <2>4, <2>5, <2>6
  <2> QED BY <2>7
<1>4. SumOn(v, S) = G[S] /\ SumOn(w, S) = H[S]
  BY <1>1, <1>2, SumOnIs
<1> QED BY <1>3, <1>4

\* The sums of zeros.
LEMMA SumZero ==
  ASSUME NEW S, IsFiniteSet(S), NEW v, \A x \in S : v[x] = 0
  PROVE  SumOn(v, S) = 0
<1> DEFINE G == [s \in SUBSET S |-> 0]
<1>1. IsSum(G, 0, v, S)
  BY DEF IsSum
<1> QED BY <1>1, SumOnIs

\* Elements whose value is zero may be left out.
LEMMA SumWithin ==
  ASSUME NEW S, IsFiniteSet(S), NEW T \in SUBSET S, NEW v, Values(v, T), NEW w,
         \A x \in S : w[x] = IF x \in T THEN v[x] ELSE 0
  PROVE  SumOn(w, S) = SumOn(v, T)
<1> SUFFICES ASSUME SumOn(w, S) # SumOn(v, T) PROVE FALSE
  OBVIOUS
<1>0. Values(w, S)
  BY DEF Values
<1> DEFINE Bad == {s \in SUBSET S : T \subseteq s /\ SumOn(w, s) # SumOn(v, T)}
<1>1. PICK s \in Bad : \A r \in Bad : r \subseteq s => r = s
  <2>1. Bad \in SUBSET (SUBSET S) /\ Bad # {}
    OBVIOUS
  <2> HIDE DEF Bad
  <2> QED BY <2>1, SmallestSet
<1>2. /\ IsFiniteSet(s) /\ IsFiniteSet(T) /\ T \subseteq s /\ s \subseteq S
      /\ Values(w, s)
  BY <1>0, FS_Subset DEF Values
<1>3. CASE s = T
  <2>1. SumOn(w, T) = SumOn(v, T)
    BY <1>2, SumSame
  <2> QED BY <1>1, <1>3, <2>1
<1>4. CASE s # T
  <2>1. PICK y \in s : y \notin T
    BY <1>2, <1>4
  <2>2. SumOn(w, s) = w[y] + SumOn(w, s \ {y}) /\ w[y] = 0
    BY <1>2, <2>1, SumRemove
  <2>3. SumOn(w, s \ {y}) = SumOn(v, T)
    BY <1>1, <1>2, <2>1
  <2>4. SumOn(v, T) \in Int
    BY <1>2, SumType
  <2> QED BY <1>1, <2>2, <2>3, <2>4
<1> QED BY <1>3, <1>4

\* No value is greater than the sum when none is negative.
LEMMA SumBounds ==
  ASSUME NEW S, IsFiniteSet(S), NEW v, \A x \in S : v[x] \in Nat, NEW y \in S
  PROVE  v[y] <= SumOn(v, S)
<1> DEFINE zero == [x \in S \ {y} |-> 0]
<1>1. /\ IsFiniteSet(S \ {y}) /\ Values(v, S) /\ Values(v, S \ {y})
      /\ Values(zero, S \ {y}) /\ \A x \in S \ {y} : zero[x] <= v[x]
  BY FS_Subset DEF Values
<1>2. \A x \in S \ {y} : zero[x] = 0
  OBVIOUS
<1> HIDE DEF zero
<1>3. SumOn(zero, S \ {y}) <= SumOn(v, S \ {y}) /\ SumOn(zero, S \ {y}) = 0
  BY <1>1, <1>2, SumMonotone, SumZero
<1>4. SumOn(v, S) = v[y] + SumOn(v, S \ {y}) /\ SumOn(v, S \ {y}) \in Int
  BY <1>1, SumRemove, SumType
<1> QED BY <1>3, <1>4

--------------------------------------------------------------------------------
(* The folds of the models are sums                                        *)

\* A function that adds the element the fold picks is a sum.
LEMMA RecursionIsSum ==
  ASSUME NEW S, IsFiniteSet(S), NEW v, Values(v, S), NEW b \in Int, NEW H,
         NEW pick, Picks(pick, S),
         \A s \in SUBSET S : Step(H, b, v, pick, s)
  PROVE  H[S] = b + SumOn(v, S)
<1>1. PICK G : IsSum(G, b, v, S)
  BY SumExists
<1> DEFINE Bad == {s \in SUBSET S : G[s] # H[s]}
<1>2. Bad = {}
  <2> SUFFICES ASSUME Bad # {} PROVE FALSE
    OBVIOUS
  <2>1. PICK s \in Bad : \A t \in Bad : t \subseteq s => t = s
    <3>1. Bad \in SUBSET (SUBSET S)
      OBVIOUS
    <3> HIDE DEF Bad
    <3> QED BY <3>1, SmallestSet
  <2>2. s # {}
    BY <1>1 DEF IsSum, Step
  <2>3. pick[s] \in s
    BY <2>2 DEF Picks
  <2>4. G[s \ {pick[s]}] = H[s \ {pick[s]}]
    BY <2>1, <2>3
  <2>5. G[s] = v[pick[s]] + G[s \ {pick[s]}]
    BY <1>1, <2>3 DEF IsSum
  <2> QED BY <2>2, <2>4, <2>5 DEF Step
<1> DEFINE K == [s \in SUBSET S |-> G[s] - b]
<1>3. IsSum(K, 0, v, S)
  <2>1. K \in [SUBSET S -> Int] /\ K[{}] = 0
    BY <1>1 DEF IsSum
  <2>2. ASSUME NEW s \in SUBSET S, NEW y \in s
        PROVE  K[s] = v[y] + K[s \ {y}]
    <3>1. K[s] = G[s] - b /\ K[s \ {y}] = G[s \ {y}] - b
      OBVIOUS
    <3>2. G[s] = v[y] + G[s \ {y}]
      BY <1>1 DEF IsSum
    <3>3. v[y] \in Int /\ G[s \ {y}] \in Int
      BY <1>1 DEF IsSum, Values
    <3> HIDE DEF K
    <3> QED BY <3>1, <3>2, <3>3
  <2> HIDE DEF K
  <2> QED BY <2>1, <2>2 DEF IsSum
<1>4. SumOn(v, S) = G[S] - b
  BY <1>3, SumOnIs
<1>5. G[S] \in Int
  BY <1>1 DEF IsSum
<1>6. H[S] = G[S]
  BY <1>2
<1> QED BY <1>4, <1>5, <1>6

\* The community modules' fold of a sum, for some values of a function.
FoldSum(b, v, S) == FoldFunctionOnSet(LAMBDA x, y : x + y, b, v, S)

LEMMA FoldIsSum ==
  ASSUME NEW S, IsFiniteSet(S), NEW v, Values(v, S), NEW b \in Int
  PROVE  FoldSum(b, v, S) = b + SumOn(v, S)
<1> DEFINE Eq(H) == H = [s \in SUBSET S |->
                           IF s = {} THEN b
                           ELSE v[AnyOf(s)] + H[s \ {AnyOf(s)}]]
           pick == AnyPick(S)
<1>0. Picks(pick, S) /\ \A s \in SUBSET S : pick[s] = AnyOf(s)
  BY AnyPicks
<1> HIDE DEF pick
<1>1. PICK G \in [SUBSET S -> Int] : \A s \in SUBSET S : Step(G, b, v, pick, s)
  <2>1. HasSteps(b, v, pick, S)
    BY <1>0, RecursionExists
  <2> QED BY <2>1 DEF HasSteps
<1>2. Eq(G)
  BY <1>0, <1>1 DEF Step
<1>3. PICK H : Eq(H) /\ FoldSum(b, v, S) = H[S]
  BY <1>2 DEF FoldSum, FoldFunctionOnSet, MapThenFoldSet, AnyOf
<1>4. \A s \in SUBSET S : Step(H, b, v, pick, s)
  BY <1>0, <1>3 DEF Step
<1> QED BY <1>0, <1>3, <1>4, RecursionIsSum
================================================================================

--------------------------- MODULE Autopilot_proofs ---------------------------
(***************************************************************************)
(* Proofs about Autopilot, for any number of processes, markets, bets and  *)
(* crashes, and any budget and tier.                                       *)
(*                                                                         *)
(* The parts of the invariant, in the order of the proofs: the types; what *)
(* each step does to a row and to its transactions; OneTick, and TickShape *)
(* and VenueShape, which say where a tick is and that what it read still   *)
(* holds; BudgetInv, by sums over the rows; MergeInv, by pairs of bets     *)
(* that may be alive at the venue.                                         *)
(***************************************************************************)
EXTENDS Autopilot, FiniteSetTheorems, WellFoundedInduction, TLAPS

-----------------------------------------------------------------------------
(***************************************************************************)
(* Sums over finite sets.  MapThenSumSet is defined by a recursion over    *)
(* subsets.  What holds for every finite set is shown by its smallest      *)
(* counterexample: proper inclusion among the subsets of a finite set is   *)
(* well founded, so of the subsets that violate a claim one is smallest,   *)
(* and with one element less the claim holds.                              *)
(***************************************************************************)
\* The element the recursion takes out first, the sum itself, the recursion.
Pick(s) == CHOOSE x \in s : TRUE
SumOver(f, S) == MapThenSumSet(LAMBDA x : f[x], S)
Body(f, g, s) == IF s = {} THEN 0 ELSE f[Pick(s)] + g[s \ {Pick(s)}]
IsSum(f, g, S) == g = [s \in SUBSET S |-> Body(f, g, s)]

\* The sum is the value, at S, of the function the recursion defines.
LEMMA SumDef ==
  ASSUME NEW f, NEW S
  PROVE SumOver(f, S) = (CHOOSE g : IsSum(f, g, S))[S]
  BY DEF SumOver, MapThenSumSet, MapThenFoldSet, IsSum, Body, Pick

\* Of the subsets of a finite set that are bad, one has no smaller bad one.
LEMMA SmallestSubset ==
  ASSUME NEW S, IsFiniteSet(S), NEW bad \in SUBSET SUBSET S, bad # {}
  PROVE  \E T \in bad : \A U \in SUBSET T : U # T => U \notin bad
  <1>1. IsWellFoundedOn(StrictSubsetOrdering(S), SUBSET S)
    BY FS_StrictSubsetOrderingWellFounded, FS_FiniteSubsetsOfFinite
  <1>2. PICK T \in bad : \A U \in bad : <<U, T>> \notin StrictSubsetOrdering(S)
    BY <1>1, WFMin
  <1>3. ASSUME NEW U \in SUBSET T, U # T, U \in bad PROVE FALSE
    <2>1. <<U, T>> \in StrictSubsetOrdering(S)
      BY <1>3 DEF StrictSubsetOrdering
    <2> QED BY <1>2, <1>3, <2>1
  <1> QED BY <1>2, <1>3

\* The element taken out is one of the set; without it the set is smaller.
LEMMA PickIn ==
  ASSUME NEW s, s # {}
  PROVE  Pick(s) \in s /\ s \ {Pick(s)} \in SUBSET s /\ s \ {Pick(s)} # s
  BY DEF Pick

\* Two functions that obey the recursion agree where both are defined.
LEMMA SumUnique ==
  ASSUME NEW f, NEW S, IsFiniteSet(S), NEW T \in SUBSET S, NEW g, NEW h,
         IsSum(f, g, S), IsSum(f, h, T)
  PROVE  \A s \in SUBSET T : g[s] = h[s]
  <1> DEFINE bad == {s \in SUBSET T : g[s] # h[s]}
  <1> SUFFICES ASSUME bad # {} PROVE FALSE
    OBVIOUS
  <1>1. IsFiniteSet(T)  BY FS_Subset
  <1>2. PICK s \in bad : \A u \in SUBSET s : u # s => u \notin bad
    <2>1. bad \in SUBSET SUBSET T  OBVIOUS
    <2> HIDE DEF bad
    <2> QED BY <1>1, <2>1, SmallestSubset
  <1>3. g[s] = Body(f, g, s) /\ h[s] = Body(f, h, s)
    <2>1. s \in SUBSET T /\ s \in SUBSET S  BY <1>2
    <2> QED BY <2>1 DEF IsSum
  <1>4. CASE s = {}  BY <1>2, <1>3, <1>4 DEF Body
  <1>5. CASE s # {}
    <2>1. s \ {Pick(s)} \in SUBSET s /\ s \ {Pick(s)} # s  BY <1>5, PickIn
    <2>2. g[s \ {Pick(s)}] = h[s \ {Pick(s)}]  BY <1>2, <2>1
    <2> QED BY <1>2, <1>3, <1>5, <2>2 DEF Body
  <1> QED BY <1>4, <1>5

\* There is a function that obeys it.
LEMMA SumExists ==
  ASSUME NEW f, NEW S, IsFiniteSet(S)
  PROVE  \E g : IsSum(f, g, S)
  <1> DEFINE bad == {T \in SUBSET S : ~\E g : IsSum(f, g, T)}
  <1> SUFFICES ASSUME bad # {} PROVE FALSE
    OBVIOUS
  <1>1. PICK T \in bad : \A U \in SUBSET T : U # T => U \notin bad
    <2>1. bad \in SUBSET SUBSET S  OBVIOUS
    <2> HIDE DEF bad
    <2> QED BY <2>1, SmallestSubset
  <1>2. T \in SUBSET S /\ IsFiniteSet(T)  BY <1>1, FS_Subset
  <1>3. \A U \in SUBSET T : U # T => \E g : IsSum(f, g, U)  BY <1>1, <1>2
  <1> DEFINE below(U) == CHOOSE g : IsSum(f, g, U)
             sum(U) == below(U)[U]
             whole == [U \in SUBSET T |-> IF U # T THEN sum(U) ELSE
                          IF T = {} THEN 0 ELSE f[Pick(T)] + sum(T \ {Pick(T)})]
  <1>4. \A U \in SUBSET T : U # T => IsSum(f, below(U), U)  BY <1>3
  <1>5. ASSUME NEW U \in SUBSET T, U # T PROVE whole[U] = Body(f, whole, U)
    <2>1. whole[U] = Body(f, below(U), U)
      <3>1. IsSum(f, below(U), U)  BY <1>4, <1>5
      <3>2. whole[U] = below(U)[U]  BY <1>5
      <3> HIDE DEF below, whole
      <3> QED BY <3>1, <3>2 DEF IsSum
    <2>2. CASE U = {}  BY <2>1, <2>2 DEF Body
    <2>3. CASE U # {}
      <3> DEFINE V == U \ {Pick(U)}
      <3>1. V \in SUBSET U /\ V # U  BY <2>3, PickIn
      <3>2. V \in SUBSET T /\ V # T  BY <3>1, <1>5
      <3>3. IsSum(f, below(U), U) /\ IsSum(f, below(V), V)  BY <1>4, <1>5, <3>2
      <3>4. IsFiniteSet(U)  BY <1>2, FS_Subset
      <3> HIDE DEF below
      <3>5. below(U)[V] = below(V)[V]  BY <3>1, <3>3, <3>4, SumUnique
      <3>6. whole[V] = below(V)[V]  BY <3>2
      <3> QED BY <2>1, <2>3, <3>5, <3>6 DEF Body
    <2> QED BY <2>2, <2>3
  <1>6. whole[T] = Body(f, whole, T)
    <2>1. CASE T = {}  BY <2>1 DEF Body
    <2>2. CASE T # {}
      <3>1. T \ {Pick(T)} \in SUBSET T /\ T \ {Pick(T)} # T  BY <2>2, PickIn
      <3> HIDE DEF below
      <3>2. whole[T \ {Pick(T)}] = sum(T \ {Pick(T)})  BY <3>1
      <3> QED BY <2>2, <3>2 DEF Body
    <2> QED BY <2>1, <2>2
  <1>7. IsSum(f, whole, T)
    <2> HIDE DEF below
    <2>1. \A U \in SUBSET T : whole[U] = Body(f, whole, U)  BY <1>5, <1>6
    <2>2. whole = [U \in SUBSET T |-> whole[U]]  OBVIOUS
    <2> HIDE DEF whole
    <2>3. [U \in SUBSET T |-> whole[U]] = [U \in SUBSET T |-> Body(f, whole, U)]  BY <2>1
    <2> QED BY <2>2, <2>3 DEF IsSum
  <1> QED BY <1>1, <1>7

\* So the sum obeys it, too.
LEMMA SumEquation ==
  ASSUME NEW f, NEW S, IsFiniteSet(S), S # {}
  PROVE  SumOver(f, S) = f[Pick(S)] + SumOver(f, S \ {Pick(S)})
  <1> DEFINE R == S \ {Pick(S)}
             g == CHOOSE g : IsSum(f, g, S)
             h == CHOOSE h : IsSum(f, h, R)
  <1>1. R \in SUBSET S /\ IsFiniteSet(R)  BY FS_Subset
  <1>2. IsSum(f, g, S) /\ IsSum(f, h, R)  BY <1>1, SumExists
  <1>3. SumOver(f, S) = g[S] /\ SumOver(f, R) = h[R]  BY SumDef
  <1> HIDE DEF g, h
  <1>4. g[R] = h[R]  BY <1>1, <1>2, SumUnique
  <1>5. g[S] = f[Pick(S)] + g[R]  BY <1>2 DEF IsSum, Body
  <1> QED BY <1>3, <1>4, <1>5

LEMMA SumEmpty == ASSUME NEW f PROVE SumOver(f, {}) = 0
  <1> DEFINE g == CHOOSE g : IsSum(f, g, {})
  <1>1. IsFiniteSet({})  BY FS_EmptySet
  <1>2. IsSum(f, g, {})  BY <1>1, SumExists
  <1>3. SumOver(f, {}) = g[{}]  BY SumDef
  <1> HIDE DEF g
  <1> QED BY <1>2, <1>3 DEF IsSum, Body

\* A sum of integers is an integer.
LEMMA SumType ==
  ASSUME NEW f, NEW S, IsFiniteSet(S), \A x \in S : f[x] \in Int
  PROVE  SumOver(f, S) \in Int
  <1> DEFINE bad == {T \in SUBSET S : SumOver(f, T) \notin Int}
  <1> SUFFICES ASSUME bad # {} PROVE FALSE
    OBVIOUS
  <1>1. PICK T \in bad : \A U \in SUBSET T : U # T => U \notin bad
    <2>1. bad \in SUBSET SUBSET S  OBVIOUS
    <2> HIDE DEF bad
    <2> QED BY <2>1, SmallestSubset
  <1>2. T \in SUBSET S /\ IsFiniteSet(T) /\ SumOver(f, T) \notin Int  BY <1>1, FS_Subset
  <1>3. CASE T = {}  BY <1>2, <1>3, SumEmpty
  <1>4. CASE T # {}
    <2>1. Pick(T) \in T /\ T \ {Pick(T)} \in SUBSET T /\ T \ {Pick(T)} # T  BY <1>4, PickIn
    <2>2. SumOver(f, T \ {Pick(T)}) \in Int  BY <1>1, <1>2, <2>1
    <2>3. f[Pick(T)] \in Int  BY <1>2, <2>1
    <2> QED BY <1>2, <1>4, <2>2, <2>3, SumEquation
  <1> QED BY <1>3, <1>4

\* Any element may be taken out first, not only the picked one.
LEMMA SumRemove ==
  ASSUME NEW f, NEW S, IsFiniteSet(S), \A x \in S : f[x] \in Int, NEW x \in S
  PROVE  SumOver(f, S) = f[x] + SumOver(f, S \ {x})
  <1> DEFINE bad == {T \in SUBSET S : \E y \in T :
                        SumOver(f, T) # f[y] + SumOver(f, T \ {y})}
  <1> SUFFICES ASSUME bad # {} PROVE FALSE
    OBVIOUS
  <1>1. PICK T \in bad : \A U \in SUBSET T : U # T => U \notin bad
    <2>1. bad \in SUBSET SUBSET S  OBVIOUS
    <2> HIDE DEF bad
    <2> QED BY <2>1, SmallestSubset
  <1>2. PICK y \in T : SumOver(f, T) # f[y] + SumOver(f, T \ {y})  BY <1>1
  <1> DEFINE p == Pick(T)
             R == T \ {p, y}
  <1>3. T \in SUBSET S /\ IsFiniteSet(T)  BY <1>1, FS_Subset
  <1>4. p \in T  BY <1>2, PickIn
  <1>5. SumOver(f, T) = f[p] + SumOver(f, T \ {p})  BY <1>2, <1>3, SumEquation
  <1>6. p # y  BY <1>2, <1>5
  <1> HIDE DEF p
  <1>7. SumOver(f, T \ {p}) = f[y] + SumOver(f, R)
    <2>1. T \ {p} \in SUBSET T /\ T \ {p} # T /\ y \in T \ {p}  BY <1>2, <1>4, <1>6
    <2>2. T \ {p} \in SUBSET S  BY <2>1, <1>3
    <2>3. T \ {p} \notin bad  BY <1>1, <2>1
    <2>4. (T \ {p}) \ {y} = R  OBVIOUS
    <2> QED BY <2>1, <2>2, <2>3, <2>4
  <1>8. SumOver(f, T \ {y}) = f[p] + SumOver(f, R)
    <2>1. T \ {y} \in SUBSET T /\ T \ {y} # T /\ p \in T \ {y}  BY <1>2, <1>4, <1>6
    <2>2. T \ {y} \in SUBSET S  BY <2>1, <1>3
    <2>3. T \ {y} \notin bad  BY <1>1, <2>1
    <2>4. (T \ {y}) \ {p} = R  OBVIOUS
    <2> QED BY <2>1, <2>2, <2>3, <2>4
  <1>9. f[p] \in Int /\ f[y] \in Int  BY <1>2, <1>3, <1>4
  <1>10. SumOver(f, R) \in Int
    <2>1. R \in SUBSET T  OBVIOUS
    <2>2. IsFiniteSet(R) /\ \A z \in R : f[z] \in Int  BY <1>3, <2>1, FS_Subset
    <2> QED BY <2>2, SumType
  <1> QED BY <1>2, <1>5, <1>7, <1>8, <1>9, <1>10
LEMMA SumOfOne ==
  ASSUME NEW f, NEW x, f[x] \in Int
  PROVE  SumOver(f, {x}) = f[x]
  <1>1. {x} \ {x} = {} /\ IsFiniteSet({x})  BY FS_Singleton
  <1>2. SumOver(f, {x}) = f[x] + SumOver(f, {x} \ {x})  BY <1>1, SumRemove
  <1> QED BY <1>1, <1>2, SumEmpty

LEMMA SumAdd ==
  ASSUME NEW f, NEW S, IsFiniteSet(S), NEW x, x \notin S, \A y \in S \cup {x} : f[y] \in Int
  PROVE  SumOver(f, S \cup {x}) = f[x] + SumOver(f, S)
  <1>1. IsFiniteSet(S \cup {x})  BY FS_AddElement
  <1>2. (S \cup {x}) \ {x} = S  OBVIOUS
  <1>3. x \in S \cup {x}  OBVIOUS
  <1> QED BY <1>1, <1>2, <1>3, SumRemove

\* Functions that agree on a set have the same sum over it.
LEMMA SumSame ==
  ASSUME NEW f, NEW g, NEW S, IsFiniteSet(S), \A x \in S : f[x] = g[x]
  PROVE  SumOver(f, S) = SumOver(g, S)
  <1> DEFINE bad == {T \in SUBSET S : SumOver(f, T) # SumOver(g, T)}
  <1> SUFFICES ASSUME bad # {} PROVE FALSE
    OBVIOUS
  <1>1. PICK T \in bad : \A U \in SUBSET T : U # T => U \notin bad
    <2>1. bad \in SUBSET SUBSET S  OBVIOUS
    <2> HIDE DEF bad
    <2> QED BY <2>1, SmallestSubset
  <1>2. T \in SUBSET S /\ IsFiniteSet(T) /\ SumOver(f, T) # SumOver(g, T)  BY <1>1, FS_Subset
  <1>3. CASE T = {}  BY <1>2, <1>3, SumEmpty
  <1>4. CASE T # {}
    <2>1. Pick(T) \in T /\ T \ {Pick(T)} \in SUBSET T /\ T \ {Pick(T)} # T  BY <1>4, PickIn
    <2>2. SumOver(f, T \ {Pick(T)}) = SumOver(g, T \ {Pick(T)})  BY <1>1, <1>2, <2>1
    <2>3. f[Pick(T)] = g[Pick(T)]  BY <1>2, <2>1
    <2>4. SumOver(f, T) = f[Pick(T)] + SumOver(f, T \ {Pick(T)})  BY <1>2, <1>4, SumEquation
    <2>5. SumOver(g, T) = g[Pick(T)] + SumOver(g, T \ {Pick(T)})  BY <1>2, <1>4, SumEquation
    <2> QED BY <1>2, <2>2, <2>3, <2>4, <2>5
  <1> QED BY <1>3, <1>4

\* A sum of numbers from an interval.
LEMMA SumBounds ==
  ASSUME NEW f, NEW S, IsFiniteSet(S), NEW lo \in Int, NEW hi \in Int,
         \A x \in S : f[x] \in lo..hi
  PROVE  SumOver(f, S) \in (Cardinality(S) * lo)..(Cardinality(S) * hi)
  <1> DEFINE Good(T) == SumOver(f, T) \in (Cardinality(T) * lo)..(Cardinality(T) * hi)
             bad == {T \in SUBSET S : ~Good(T)}
  <1> SUFFICES ASSUME bad # {} PROVE FALSE
    OBVIOUS
  <1>1. PICK T \in bad : \A U \in SUBSET T : U # T => U \notin bad
    <2>1. bad \in SUBSET SUBSET S  OBVIOUS
    <2> HIDE DEF bad
    <2> QED BY <2>1, SmallestSubset
  <1>2. T \in SUBSET S /\ IsFiniteSet(T) /\ ~Good(T)  BY <1>1, FS_Subset
  <1>3. CASE T = {}
    <2>1. SumOver(f, T) = 0 /\ Cardinality(T) = 0  BY <1>3, SumEmpty, FS_EmptySet
    <2> QED BY <1>2, <2>1
  <1>4. CASE T # {}
    <2> DEFINE p == Pick(T)
               R == T \ {p}
    <2>1. p \in T /\ R \in SUBSET T /\ R # T  BY <1>4, PickIn
    <2>2. Good(R)  BY <1>1, <1>2, <2>1
    <2>3. f[p] \in lo..hi  BY <1>2, <2>1
    <2>4. SumOver(f, T) = f[p] + SumOver(f, R)  BY <1>2, <1>4, SumEquation
    <2>5. Cardinality(R) = Cardinality(T) - 1 /\ IsFiniteSet(R)
      BY <1>2, <2>1, FS_RemoveElement
    <2>6. Cardinality(T) \in Nat /\ Cardinality(R) \in Nat  BY <1>2, <2>5, FS_CardinalityType
    <2> DEFINE n == Cardinality(R)
    <2>7. Cardinality(T) = n + 1  BY <2>5, <2>6
    <2>8. (n + 1) * lo = n * lo + lo /\ (n + 1) * hi = n * hi + hi  BY <2>6
    <2>9. n * lo \in Int /\ n * hi \in Int  BY <2>6
    <2>10. SumOver(f, R) \in (n * lo)..(n * hi)  BY <2>2
    <2> HIDE DEF p, R, n
    <2>11. SumOver(f, T) \in (n * lo + lo)..(n * hi + hi)
      BY <2>3, <2>4, <2>9, <2>10
    <2> QED BY <1>2, <2>7, <2>8, <2>11
  <1> QED BY <1>3, <1>4

\* Fewer numbers that are not negative sum up to less.
LEMMA SumSubset ==
  ASSUME NEW f, NEW S, IsFiniteSet(S), NEW T \in SUBSET S, \A x \in S : f[x] \in Nat
  PROVE  SumOver(f, T) <= SumOver(f, S) /\ SumOver(f, T) \in Nat
  <1> DEFINE bad == {U \in SUBSET S : ~(\A V \in SUBSET U : SumOver(f, V) <= SumOver(f, U))}
  <1>0. \A U \in SUBSET S : IsFiniteSet(U) /\ SumOver(f, U) \in Int
    BY FS_Subset, SumType
  <1>1. bad = {}
    <2> SUFFICES ASSUME bad # {} PROVE FALSE
      OBVIOUS
    <2>1. PICK U \in bad : \A V \in SUBSET U : V # U => V \notin bad
      <3>1. bad \in SUBSET SUBSET S  OBVIOUS
      <3> HIDE DEF bad
      <3> QED BY <3>1, SmallestSubset
    <2>2. U \in SUBSET S  BY <2>1
    <2>3. PICK V \in SUBSET U : ~(SumOver(f, V) <= SumOver(f, U))  BY <2>1
    <2>4. V # U  BY <1>0, <2>2, <2>3
    <2>5. PICK x \in U : x \notin V  BY <2>4
    <2>6. U \ {x} \in SUBSET U /\ U \ {x} # U /\ V \in SUBSET (U \ {x})  BY <2>5
    <2>7. SumOver(f, V) <= SumOver(f, U \ {x})  BY <2>1, <2>2, <2>6
    <2>8. SumOver(f, U) = f[x] + SumOver(f, U \ {x})  BY <1>0, <2>2, SumRemove
    <2>9. f[x] \in Nat  BY <2>2
    <2>10. SumOver(f, U \ {x}) \in Int /\ SumOver(f, V) \in Int  BY <1>0, <2>2, <2>6
    <2> QED BY <2>3, <2>7, <2>8, <2>9, <2>10
  <1>2. \A U \in SUBSET S : \A V \in SUBSET U : SumOver(f, V) <= SumOver(f, U)  BY <1>1
  <1>3. {} \in SUBSET T /\ SumOver(f, {}) = 0  BY SumEmpty
  <1>4. 0 <= SumOver(f, T)  BY <1>2, <1>3
  <1> QED BY <1>0, <1>2, <1>4

\* The sum over two disjoint sets.
LEMMA SumUnion ==
  ASSUME NEW f, NEW S, IsFiniteSet(S), NEW T, IsFiniteSet(T), S \cap T = {},
         \A x \in S \cup T : f[x] \in Int
  PROVE  SumOver(f, S \cup T) = SumOver(f, S) + SumOver(f, T)
  <1> DEFINE bad == {U \in SUBSET T : SumOver(f, S \cup U) # SumOver(f, S) + SumOver(f, U)}
  <1> SUFFICES ASSUME bad # {} PROVE FALSE
    OBVIOUS
  <1>1. PICK U \in bad : \A V \in SUBSET U : V # U => V \notin bad
    <2>1. bad \in SUBSET SUBSET T  OBVIOUS
    <2> HIDE DEF bad
    <2> QED BY <2>1, SmallestSubset
  <1>2. U \in SUBSET T /\ SumOver(f, S \cup U) # SumOver(f, S) + SumOver(f, U)  BY <1>1
  <1>3. IsFiniteSet(U) /\ IsFiniteSet(S \cup U)  BY <1>2, FS_Subset, FS_Union
  <1>4. SumOver(f, S) \in Int  BY SumType
  <1>5. CASE U = {}
    <2>1. S \cup U = S  BY <1>5
    <2>2. SumOver(f, U) = 0  BY <1>5, SumEmpty
    <2>3. SumOver(f, S \cup U) = SumOver(f, S)  BY <2>1
    <2> HIDE DEF bad
    <2> QED BY <1>2, <1>4, <2>2, <2>3
  <1>6. CASE U # {}
    <2>1. PICK x \in U : TRUE  BY <1>6
    <2> DEFINE V == U \ {x}
    <2>2. V \in SUBSET U /\ V # U /\ x \notin S /\ (S \cup U) \ {x} = S \cup V  BY <1>2, <2>1
    <2>3. SumOver(f, S \cup V) = SumOver(f, S) + SumOver(f, V)  BY <1>1, <1>2, <2>2
    <2>4. SumOver(f, U) = f[x] + SumOver(f, V)
      <3>1. \A y \in U : f[y] \in Int  BY <1>2
      <3> QED BY <1>3, <2>1, <3>1, SumRemove
    <2>5. SumOver(f, S \cup U) = f[x] + SumOver(f, S \cup V)
      <3>1. (\A y \in S \cup U : f[y] \in Int) /\ x \in S \cup U  BY <1>2, <2>1
      <3>2. SumOver(f, S \cup U) = f[x] + SumOver(f, (S \cup U) \ {x})  BY <1>3, <3>1, SumRemove
      <3> QED BY <2>2, <3>2
    <2>6. f[x] \in Int /\ SumOver(f, V) \in Int
      <3>1. IsFiniteSet(V) /\ \A y \in V : f[y] \in Int  BY <1>2, <1>3, <2>2, FS_Subset
      <3> QED BY <1>2, <2>1, <3>1, SumType
    <2> HIDE DEF V
    <2> QED BY <1>2, <1>4, <2>3, <2>4, <2>5, <2>6
  <1> QED BY <1>5, <1>6

\* Min of a finite set of integers is one of them, and the least.
LEMMA LeastElement ==
  ASSUME NEW S \in SUBSET Int, IsFiniteSet(S), S # {}
  PROVE  Min(S) \in S /\ \A y \in S : Min(S) <= y
  <1> DEFINE Upto(x) == {y \in S : y <= x}
             bad == {T \in SUBSET S : \E x \in S : T = Upto(x)}
  <1>1. bad \in SUBSET SUBSET S /\ bad # {}
    <2>1. PICK x \in S : TRUE  OBVIOUS
    <2>2. Upto(x) \in bad  BY <2>1
    <2> QED BY <2>2
  <1>2. PICK T \in bad : \A U \in SUBSET T : U # T => U \notin bad
    <2> HIDE DEF bad
    <2> QED BY <1>1, SmallestSubset
  <1>3. PICK x \in S : T = Upto(x)  BY <1>2
  <1>4. ASSUME NEW y \in S PROVE x <= y
    <2> SUFFICES ASSUME y < x PROVE FALSE
      OBVIOUS
    <2>0. ASSUME NEW z \in Upto(y) PROVE z \in T
      <3>1. z \in S /\ z <= y /\ z \in Int /\ y \in Int /\ x \in Int  BY <1>3, <2>0
      <3>2. z <= x  BY <3>1
      <3> QED BY <1>3, <3>1, <3>2
    <2>1. Upto(y) \in SUBSET T  BY <2>0
    <2>2. x \in T /\ x \notin Upto(y)  BY <1>3
    <2>3. Upto(y) \in bad  OBVIOUS
    <2> QED BY <1>2, <2>1, <2>2, <2>3
  <1> QED BY <1>3, <1>4 DEF Min

-----------------------------------------------------------------------------
(* The states of a tick.                                                   *)

Pcs == {"idle", "exit", "closing", "phase", "entry", "send", "confirm", "stop", "rescue"}
Ticks == [pc : Pcs, seen : SUBSET Bets, todo : SUBSET Bets, pnl : Amounts,
          wallet : SUBSET Markets, tried : SUBSET Markets, cur : 0..NumBets]

LEMMA TickType == TypeOK => tick \in [Workers -> Ticks]
  BY DEF TypeOK, Ticks, Pcs

LEMMA BetsFinite == IsFiniteSet(Bets) /\ Cardinality(Bets) = NumBets /\ NumBets \in Nat
  <1>1. NumBets \in Nat  BY AutopilotAssumption
  <1>2. 1 \in Int /\ NumBets \in Int  BY <1>1
  <1>3. IsFiniteSet(1..NumBets) /\ Cardinality(1..NumBets) = IF 1 > NumBets THEN 0 ELSE NumBets - 1 + 1
    BY <1>2, FS_Interval
  <1> QED BY <1>1, <1>3 DEF Bets

LEMMA RowsFinite ==
  ASSUME NEW S \in SUBSET Bets
  PROVE  IsFiniteSet(S) /\ Cardinality(S) \in 0..NumBets
  <1>1. IsFiniteSet(S) /\ Cardinality(S) <= Cardinality(Bets)
    BY BetsFinite, FS_Subset
  <1>2. Cardinality(S) \in Nat  BY <1>1, FS_CardinalityType
  <1> QED BY <1>1, <1>2, BetsFinite

LEMMA RealizedAmount == TypeOK => Realized \in Amounts
  <1> SUFFICES ASSUME TypeOK PROVE Realized \in Amounts
    OBVIOUS
  <1>1. Closed \in SUBSET Bets  BY DEF Closed, RowsIn
  <1>2. IsFiniteSet(Closed) /\ Cardinality(Closed) \in 0..NumBets  BY <1>1, RowsFinite
  <1>3. Budget \in Nat /\ Gain \in Nat /\ -Budget \in Int  BY AutopilotAssumption
  <1>4. \A b \in Closed : result[b] \in -Budget..Gain  BY <1>1 DEF TypeOK
  <1> DEFINE n == Cardinality(Closed)
  <1>5. SumOver(result, Closed) \in (n * (-Budget))..(n * Gain)
    BY <1>2, <1>3, <1>4, SumBounds
  <1>6. Realized = SumOver(result, Closed)  BY DEF Realized, SumOver
  <1>7. n \in Nat /\ n <= NumBets /\ NumBets \in Nat  BY <1>2, BetsFinite
  <1> HIDE DEF n
  <1>8. n * (-Budget) = -(n * Budget) /\ n * Budget <= NumBets * Budget /\ n * Gain <= NumBets * Gain
        /\ n * Budget \in Nat /\ n * Gain \in Nat /\ NumBets * Budget \in Nat /\ NumBets * Gain \in Nat
    <2>1. PICK k \in Nat : NumBets = n + k
      <3>1. NumBets - n \in Nat  BY <1>7
      <3> QED BY <1>7, <3>1
    <2>2. k * Budget \in Nat /\ k * Gain \in Nat /\ n * Budget \in Nat /\ n * Gain \in Nat
      BY <1>3, <1>7, <2>1
    <2>3. (n + k) * Budget = n * Budget + k * Budget /\ (n + k) * Gain = n * Gain + k * Gain
      BY <1>3, <1>7, <2>1
    <2>4. n * (-Budget) = -(n * Budget)  BY <1>3, <1>7
    <2> QED BY <2>1, <2>2, <2>3, <2>4
  <1> QED BY <1>5, <1>6, <1>8 DEF Amounts

LEMMA StakeBounds ==
  ASSUME NEW r \in Int, r >= StakeMin
  PROVE  ComputeStake(r) \in StakeMin..r
  <1>1. StakeMin \in Nat /\ StakePct \in Nat  BY AutopilotAssumption
  <1> DEFINE share == (r * StakePct) \div 100
             wanted == Max({share, StakeMin})
  <1>2. share \in Int
    <2>1. r * StakePct \in Int  BY <1>1
    <2> QED BY <2>1
  <1> HIDE DEF share
  <1>3. wanted \in Int /\ wanted >= StakeMin
    <2>1. \E x \in {share, StakeMin} : \A y \in {share, StakeMin} : x >= y  BY <1>1, <1>2
    <2>2. wanted \in {share, StakeMin} /\ \A y \in {share, StakeMin} : wanted >= y
      BY <2>1 DEF Max
    <2> HIDE DEF wanted
    <2> QED BY <1>1, <1>2, <2>2
  <1> HIDE DEF wanted
  <1>4. Min({wanted, r}) \in {wanted, r} /\ \A y \in {wanted, r} : Min({wanted, r}) <= y
    <2>1. \E x \in {wanted, r} : \A y \in {wanted, r} : x <= y  BY <1>3
    <2> QED BY <2>1 DEF Min
  <1>5. ComputeStake(r) = Min({wanted, r})  BY DEF ComputeStake, wanted, share
  <1> QED BY <1>1, <1>3, <1>4, <1>5

LEMMA LosingType ==
  ASSUME TypeOK, NEW S \in SUBSET Bets
  PROVE  Losing(S) \in Nat /\ Losing(S) = SumOver(stake, S)
  <1>1. IsFiniteSet(S)  BY RowsFinite
  <1>2. \A b \in S : stake[b] \in Nat  BY AutopilotAssumption DEF TypeOK
  <1>3. SumOver(stake, S) \in Nat  BY <1>1, <1>2, SumSubset
  <1>4. Losing(S) = SumOver(stake, S)  BY DEF Losing, SumOver
  <1> QED BY <1>3, <1>4

LEMMA FreshRow ==
  ASSUME Unused # {}
  PROVE  Min(Unused) \in Bets /\ status[Min(Unused)] = "none"
  <1>1. Unused \in SUBSET Bets  BY DEF Unused, RowsIn
  <1>2. IsFiniteSet(Unused) /\ Unused \in SUBSET Int  BY <1>1, RowsFinite DEF Bets
  <1>3. Min(Unused) \in Unused  BY <1>2, LeastElement
  <1> QED BY <1>3 DEF Unused, RowsIn

\* What can be staked is at most the loss budget, and that at most the budget.
LEMMA RemainingType ==
  ASSUME TypeOK, NEW w \in Workers
  PROVE  Remaining(w) \in Int /\ Remaining(w) <= Budget /\ Amounts \in SUBSET Int
  <1>1. tick[w].pnl \in Amounts /\ tick[w].seen \in SUBSET Bets  BY TickType DEF Ticks
  <1>2. Losing(tick[w].seen) \in Nat  BY <1>1, LosingType
  <1>3. Budget \in Nat  BY AutopilotAssumption
  <1>4. Amounts \in SUBSET Int
    <2>1. NumBets \in Nat /\ Gain \in Nat  BY AutopilotAssumption
    <2> QED BY <1>3, <2>1 DEF Amounts
  <1>5. LossBudget(tick[w].pnl) \in Int /\ LossBudget(tick[w].pnl) <= Budget
    <2>1. tick[w].pnl \in Int  BY <1>1, <1>4
    <2> QED BY <1>3, <2>1 DEF LossBudget
  <1> QED BY <1>2, <1>3, <1>4, <1>5 DEF Remaining

-----------------------------------------------------------------------------
(* Types.                                                                  *)

SessionTypes ==
    /\ session \in {"active", "stopped", "exhausted", "target"}
    /\ claimFree \in BOOLEAN
    /\ orderly \in BOOLEAN
    /\ crashes \in 0..MaxCrashes

RowTypes ==
    /\ status \in [Bets -> {"none", "pending", "confirmed", "closed",
                            "closed-external", "failed", "abandoned"}]
    /\ market \in [Bets -> Markets \cup {"none"}]
    /\ stake \in [Bets -> 0..Budget]
    /\ \A b \in Bets : status[b] # "none" => stake[b] >= StakeMin /\ market[b] \in Markets
    /\ result \in [Bets -> -Budget..Gain]

VenueTypes ==
    /\ held \subseteq Bets
    /\ openTx \in [Bets -> {"none", "flight", "landed", "failed"}]
    /\ closeTx \in [Bets -> {"none", "flight", "landed", "failed", "priced"}]

TickTypes == tick \in [Workers -> Ticks]

LEMMA TypeParts == TypeOK <=> SessionTypes /\ RowTypes /\ VenueTypes /\ TickTypes
  BY DEF TypeOK, SessionTypes, RowTypes, VenueTypes, TickTypes, Ticks, Pcs

LEMMA TypeParts1 == SessionTypes' /\ RowTypes' /\ VenueTypes' /\ TickTypes' => TypeOK'
  BY DEF TypeOK, SessionTypes, RowTypes, VenueTypes, TickTypes, Ticks, Pcs, Amounts, Bets


\* Which steps touch what.
LEMMA RowSteps ==
  ASSUME NEW w \in Workers, TickStep(w)
  PROVE  \/ UNCHANGED rowVars
         \/ ConfirmExit(w) \/ (\E m \in Markets : RecordOpen(w, m))
         \/ ConfirmOpen(w) \/ ConfirmRescue(w)
  BY DEF TickStep, ExitPass, Entry, Claim, ClaimInVain, SendExit, StayIn, ExitThrows,
      ConfirmExitThrows, Recompute, UseCached, EndSession, EndThrows, ReadWallet, SkipEntries,
      EndEntries, SendOpen, SendThrows, StopOrGiveUp, SendRescue

LEMMA VenueSteps ==
  ASSUME NEW w \in Workers, TickStep(w)
  PROVE  \/ UNCHANGED venueVars
         \/ (\E b \in Bets : SendExit(w, b)) \/ SendOpen(w) \/ SendThrows(w) \/ SendRescue(w)
  BY DEF TickStep, ExitPass, Entry, Claim, ClaimInVain, StayIn, ExitThrows, ConfirmExit,
      ConfirmExitThrows, Recompute, UseCached, EndSession, EndThrows, ReadWallet, SkipEntries,
      RecordOpen, EndEntries, ConfirmOpen, StopOrGiveUp, ConfirmRescue

LEMMA SessionSteps ==
  ASSUME NEW w \in Workers, TickStep(w)
  PROVE  /\ crashes' = crashes
         /\ session' = session \/ EndSession(w)
         /\ orderly' = orderly \/ UseCached(w)
  <1>1. crashes' = crashes
    BY DEF TickStep, ExitPass, Entry, Claim, ClaimInVain, SendExit, StayIn, ExitThrows,
      ConfirmExit, ConfirmExitThrows, Recompute, UseCached, EndSession, EndThrows, ReadWallet,
      SkipEntries, RecordOpen, EndEntries, SendOpen, SendThrows, ConfirmOpen, StopOrGiveUp,
      SendRescue, ConfirmRescue
  <1>2. session' = session \/ EndSession(w)
    BY DEF TickStep, ExitPass, Entry, Claim, ClaimInVain, SendExit, StayIn, ExitThrows,
      ConfirmExit, ConfirmExitThrows, Recompute, UseCached, EndThrows, ReadWallet,
      SkipEntries, RecordOpen, EndEntries, SendOpen, SendThrows, ConfirmOpen, StopOrGiveUp,
      SendRescue, ConfirmRescue, sessionVars
  <1>3. orderly' = orderly \/ UseCached(w)
    BY DEF TickStep, ExitPass, Entry, Claim, ClaimInVain, SendExit, StayIn, ExitThrows,
      ConfirmExit, ConfirmExitThrows, Recompute, EndSession, EndThrows, ReadWallet,
      SkipEntries, RecordOpen, EndEntries, SendOpen, SendThrows, ConfirmOpen, StopOrGiveUp,
      SendRescue, ConfirmRescue
  <1> QED BY <1>1, <1>2, <1>3

LEMMA ClaimSteps ==
  ASSUME NEW w \in Workers, TickStep(w)
  PROVE  claimFree' = claimFree \/ claimFree' = FALSE
  BY DEF TickStep, ExitPass, Entry, Claim, ClaimInVain, SendExit, StayIn, ExitThrows,
      ConfirmExit, ConfirmExitThrows, Recompute, UseCached, EndSession, EndThrows, ReadWallet,
      SkipEntries, RecordOpen, EndEntries, SendOpen, SendThrows, ConfirmOpen, StopOrGiveUp,
      SendRescue, ConfirmRescue, Finish, sessionVars

\* What happens around the ticks.
Outside ==
    \/ ClaimExpires \/ StopSession \/ VenueStep
    \/ \E b \in Bets : SweepStep(b)

LEMMA NextCases ==
  ASSUME [Next]_vars
  PROVE  \/ \E w \in Workers : TickStep(w)
         \/ \E w \in Workers : Crash(w)
         \/ Outside
         \/ UNCHANGED vars
  BY DEF Next, Outside

LEMMA OutsideLeavesTicks == Outside => UNCHANGED <<tick, crashes>>
  BY DEF Outside, VenueStep, SweepStep, ClaimExpires, StopSession, OpenResolves, CloseResolves,
      DiesOutside, Reap, SweepFailsOpen, SweepExpires, SweepPrices, SweepReopens

LEMMA SessionTypesKept == ASSUME SessionTypes, [Next]_vars PROVE SessionTypes'
  <1>1. ASSUME NEW w \in Workers, TickStep(w) PROVE SessionTypes'
    <2>1. session' \in {"active", "stopped", "exhausted", "target"}
      BY <1>1, SessionSteps DEF SessionTypes, EndSession, Phase
    <2>2. claimFree' \in BOOLEAN  BY <1>1, ClaimSteps DEF SessionTypes
    <2>3. orderly' \in BOOLEAN  BY <1>1, SessionSteps DEF SessionTypes, UseCached
    <2>4. crashes' \in 0..MaxCrashes  BY <1>1, SessionSteps DEF SessionTypes
    <2> QED BY <2>1, <2>2, <2>3, <2>4 DEF SessionTypes
  <1>2. ASSUME NEW w \in Workers, Crash(w) PROVE SessionTypes'
    <2>1. crashes' \in 0..MaxCrashes  BY <1>2, AutopilotAssumption DEF SessionTypes, Crash
    <2> QED BY <1>2, <2>1 DEF SessionTypes, Crash, sessionVars
  <1>3. CASE Outside
    <2>1. crashes' \in 0..MaxCrashes  BY <1>3, OutsideLeavesTicks DEF SessionTypes
    <2>2. orderly' \in BOOLEAN /\ claimFree' \in BOOLEAN
          /\ session' \in {"active", "stopped", "exhausted", "target"}
      BY <1>3 DEF SessionTypes, Outside, VenueStep, SweepStep, ClaimExpires, StopSession,
        OpenResolves, CloseResolves, DiesOutside, Reap, SweepFailsOpen, SweepExpires,
        SweepPrices, SweepReopens, sessionVars
    <2> QED BY <2>1, <2>2 DEF SessionTypes
  <1>4. CASE UNCHANGED vars  BY <1>4 DEF SessionTypes, vars, sessionVars
  <1> QED BY <1>1, <1>2, <1>3, <1>4, NextCases

LEMMA CasTypes ==
  ASSUME RowTypes, NEW b, CasClose(b), UNCHANGED <<market, stake>>
  PROVE  RowTypes'
  <1>1. CASE status[b] = "confirmed" /\ b \in Bets
    <2>1. PICK x \in Results(b) : result' = [result EXCEPT ![b] = x]  BY <1>1 DEF CasClose
    <2>2. x \in -Budget..Gain
      BY <1>1, AutopilotAssumption DEF Results, RowTypes
    <2> QED BY <1>1, <2>1, <2>2 DEF RowTypes, CasClose
  <1>2. CASE b \notin Bets
    <2>1. status' = status \/ status' = [status EXCEPT ![b] = "closed"]  BY DEF CasClose
    <2>2. result' = result \/ \E x : result' = [result EXCEPT ![b] = x]  BY DEF CasClose
    <2>3. status' = status  BY <1>2, <2>1 DEF RowTypes
    <2>4. result' = result  BY <1>2, <2>2 DEF RowTypes
    <2> QED BY <2>3, <2>4 DEF RowTypes
  <1>3. CASE status[b] # "confirmed"  BY <1>3 DEF CasClose, RowTypes
  <1> QED BY <1>1, <1>2, <1>3

LEMMA RowTypesKept == ASSUME TypeOK, [Next]_vars PROVE RowTypes'
  <1>0. RowTypes  BY TypeParts
  <1>1. ASSUME NEW w \in Workers, TickStep(w) PROVE RowTypes'
    <2>1. CASE ConfirmExit(w)  BY <1>0, <2>1, CasTypes DEF ConfirmExit
    <2>2. ASSUME NEW m \in Markets, RecordOpen(w, m) PROVE RowTypes'
      <3> DEFINE b == Min(Unused)
                 s == ComputeStake(Remaining(w))
      <3>1. b \in Bets /\ status[b] = "none"  BY <2>2, FreshRow DEF RecordOpen
      <3>2. s \in StakeMin..Budget
        <4>1. Remaining(w) \in Int /\ Remaining(w) <= Budget  BY RemainingType
        <4>2. Remaining(w) >= StakeMin  BY <2>2 DEF RecordOpen
        <4>3. s \in StakeMin..Remaining(w)  BY <4>1, <4>2, StakeBounds
        <4> QED BY <4>1, <4>3, AutopilotAssumption
      <3>3. /\ status' = [status EXCEPT ![b] = "pending"]
            /\ market' = [market EXCEPT ![b] = m]
            /\ stake' = [stake EXCEPT ![b] = s]
            /\ result' = result
        BY <2>2 DEF RecordOpen
      <3> HIDE DEF b, s
      <3> QED BY <1>0, <3>1, <3>2, <3>3, AutopilotAssumption DEF RowTypes
    <2>3. CASE ConfirmOpen(w)
      <3>1. UNCHANGED <<market, stake, result>>  BY <2>3 DEF ConfirmOpen
      <3>2. status' = status \/ (status' = [status EXCEPT ![tick[w].cur] = "confirmed"]
                                  /\ status[tick[w].cur] = "pending")
        BY <2>3 DEF ConfirmOpen
      <3> QED BY <1>0, <3>1, <3>2 DEF RowTypes
    <2>4. CASE ConfirmRescue(w)  BY <1>0, <2>4, CasTypes DEF ConfirmRescue
    <2>5. CASE UNCHANGED rowVars  BY <1>0, <2>5 DEF RowTypes, rowVars
    <2> QED BY <1>1, <2>1, <2>2, <2>3, <2>4, <2>5, RowSteps
  <1>2. ASSUME NEW w \in Workers, Crash(w) PROVE RowTypes'
    BY <1>0, <1>2 DEF RowTypes, Crash, rowVars
  <1>3. CASE Outside
    <2>1. CASE UNCHANGED rowVars  BY <1>0, <2>1 DEF RowTypes, rowVars
    <2>2. ASSUME NEW b \in Bets, Reap(b) PROVE RowTypes'  BY <1>0, <2>2 DEF RowTypes, Reap
    <2>3. ASSUME NEW b \in Bets, SweepFailsOpen(b) PROVE RowTypes'
      BY <1>0, <2>3 DEF RowTypes, SweepFailsOpen
    <2>4. ASSUME NEW b \in Bets, SweepExpires(b) PROVE RowTypes'
      <3>1. -stake[b] \in -Budget..Gain  BY <1>0, AutopilotAssumption DEF RowTypes
      <3> QED BY <1>0, <2>4, <3>1 DEF RowTypes, SweepExpires
    <2>5. ASSUME NEW b \in Bets, SweepPrices(b) PROVE RowTypes'
      <3>1. PICK x \in Results(b) : result' = [result EXCEPT ![b] = x]  BY <2>5 DEF SweepPrices
      <3>2. x \in -Budget..Gain  BY <1>0, <3>1, AutopilotAssumption DEF Results, RowTypes
      <3>3. UNCHANGED <<status, market, stake>>  BY <2>5 DEF SweepPrices
      <3> QED BY <1>0, <3>1, <3>2, <3>3 DEF RowTypes
    <2>6. ASSUME NEW b \in Bets, SweepReopens(b) PROVE RowTypes'
      <3>1. 0 \in -Budget..Gain  BY AutopilotAssumption
      <3> QED BY <1>0, <2>6, <3>1 DEF RowTypes, SweepReopens
    <2>7. CASE ClaimExpires \/ StopSession \/ VenueStep
      BY <2>1, <2>7 DEF ClaimExpires, StopSession, VenueStep, OpenResolves, CloseResolves, DiesOutside
    <2> QED BY <1>3, <2>2, <2>3, <2>4, <2>5, <2>6, <2>7 DEF Outside, SweepStep
  <1>4. CASE UNCHANGED vars  BY <1>0, <1>4 DEF RowTypes, vars, rowVars
  <1> QED BY <1>1, <1>2, <1>3, <1>4, NextCases

LEMMA VenueTypesKept == ASSUME VenueTypes, [Next]_vars PROVE VenueTypes'
  <1>1. ASSUME NEW w \in Workers, TickStep(w) PROVE VenueTypes'
    <2>1. ASSUME NEW b \in Bets, SendExit(w, b) PROVE VenueTypes'
      BY <2>1 DEF VenueTypes, SendExit
    <2>2. CASE SendOpen(w)  BY <2>2 DEF VenueTypes, SendOpen
    <2>3. CASE SendThrows(w)  BY <2>3 DEF VenueTypes, SendThrows
    <2>4. CASE SendRescue(w)  BY <2>4 DEF VenueTypes, SendRescue
    <2>5. CASE UNCHANGED venueVars  BY <2>5 DEF VenueTypes, venueVars
    <2> QED BY <1>1, <2>1, <2>2, <2>3, <2>4, <2>5, VenueSteps
  <1>2. ASSUME NEW w \in Workers, Crash(w) PROVE VenueTypes'
    BY <1>2 DEF VenueTypes, Crash, venueVars
  <1>3. CASE Outside
    <2>1. CASE UNCHANGED venueVars  BY <2>1 DEF VenueTypes, venueVars
    <2>2. ASSUME NEW b \in Bets, OpenResolves(b) PROVE VenueTypes'
      BY <2>2 DEF VenueTypes, OpenResolves
    <2>3. ASSUME NEW b \in Bets, CloseResolves(b) PROVE VenueTypes'
      BY <2>3 DEF VenueTypes, CloseResolves
    <2>4. ASSUME NEW b \in Bets, DiesOutside(b) PROVE VenueTypes'
      BY <2>4 DEF VenueTypes, DiesOutside
    <2>5. ASSUME NEW b \in Bets, SweepStep(b) PROVE VenueTypes'
      BY <2>1, <2>5 DEF VenueTypes, SweepStep, Reap, SweepFailsOpen, SweepExpires,
        SweepPrices, SweepReopens
    <2>6. CASE ClaimExpires \/ StopSession  BY <2>1, <2>6 DEF ClaimExpires, StopSession
    <2> QED BY <1>3, <2>2, <2>3, <2>4, <2>5, <2>6 DEF Outside, VenueStep
  <1>4. CASE UNCHANGED vars  BY <1>4 DEF VenueTypes, vars, venueVars
  <1> QED BY <1>1, <1>2, <1>3, <1>4, NextCases

LEMMA NoTickType == NoTick \in Ticks
  <1>1. NumBets \in Nat /\ Budget \in Nat /\ Gain \in Nat  BY AutopilotAssumption
  <1>2. 0 \in Amounts
    <2>1. NumBets * Budget \in Nat /\ NumBets * Gain \in Nat  BY <1>1
    <2> QED BY <2>1 DEF Amounts
  <1> QED BY <1>1, <1>2 DEF NoTick, Ticks, Pcs

LEMMA InHandType == 0 \in 0..NumBets /\ Bets \subseteq 0..NumBets /\ 0 \notin Bets
  <1>1. NumBets \in Nat  BY AutopilotAssumption
  <1> QED BY <1>1 DEF Bets

LEMMA TickTypesKept == ASSUME TypeInv, [Next]_vars PROVE TickTypes'
  <1>0. /\ TickTypes
        /\ \A t : (\E w \in Workers : tick' = [tick EXCEPT ![w] = t]) /\ t \in Ticks => TickTypes'
    BY TypeParts DEF TypeInv, TickTypes, Ticks, Pcs, Amounts, Bets
  <1>1. ASSUME NEW w \in Workers, TickStep(w) PROVE TickTypes'
    <2>0. tick[w] \in Ticks /\ RowsIn({"confirmed"}) \subseteq Bets  BY <1>0 DEF TickTypes, RowsIn
    <2>1. CASE Claim(w)
      <3>1. tick' = [tick EXCEPT ![w] = [tick[w] EXCEPT !.pc = "exit",
              !.seen = RowsIn({"confirmed"}), !.todo = RowsIn({"confirmed"})]]
        BY <2>1 DEF Claim
      <3> QED BY <1>0, <2>0, <3>1 DEF Ticks, Pcs
    <2>2. ASSUME NEW b \in Bets, SendExit(w, b) PROVE TickTypes'
      <3>1. tick' = [tick EXCEPT ![w] = [tick[w] EXCEPT !.pc = "closing", !.cur = b,
              !.todo = tick[w].todo \ {b}]]
        BY <2>2 DEF SendExit
      <3> QED BY <1>0, <2>0, <2>2, <3>1, InHandType DEF Ticks, Pcs
    <2>3. ASSUME NEW b \in Bets, StayIn(w, b) \/ ExitThrows(w, b) PROVE TickTypes'
      <3>1. tick' = [tick EXCEPT ![w] = [tick[w] EXCEPT !.todo = tick[w].todo \ {b}]]
        BY <2>3 DEF StayIn, ExitThrows
      <3> QED BY <1>0, <2>0, <3>1 DEF Ticks, Pcs
    <2>4. CASE ConfirmExit(w)
      <3>1. tick' = [tick EXCEPT ![w] = [tick[w] EXCEPT !.pc = "exit", !.cur = 0,
              !.seen = tick[w].seen \ {tick[w].cur}]]
        BY <2>4 DEF ConfirmExit
      <3> QED BY <1>0, <2>0, <3>1, InHandType DEF Ticks, Pcs
    <2>5. CASE ConfirmExitThrows(w)
      <3>1. tick' = [tick EXCEPT ![w] = [tick[w] EXCEPT !.pc = "exit", !.cur = 0]]
        BY <2>5 DEF ConfirmExitThrows
      <3> QED BY <1>0, <2>0, <3>1, InHandType DEF Ticks, Pcs
    <2>6. CASE Recompute(w) \/ UseCached(w)
      <3>1. PICK x \in Amounts : tick' = [tick EXCEPT ![w] = [tick[w] EXCEPT !.pc = "phase", !.pnl = x]]
        <4>1. 0 \in Amounts /\ Realized \in Amounts
          BY NoTickType, RealizedAmount DEF NoTick, Ticks, TypeInv
        <4> QED BY <2>6, <4>1 DEF Recompute, UseCached
      <3> QED BY <1>0, <2>0, <3>1 DEF Ticks, Pcs
    <2>7. CASE ReadWallet(w)
      <3>1. tick' = [tick EXCEPT ![w] = [tick[w] EXCEPT !.pc = "entry",
              !.wallet = WalletMarkets]]
        BY <2>7 DEF ReadWallet
      <3>2. WalletMarkets \in SUBSET Markets
        BY TypeParts DEF WalletMarkets, RowTypes, VenueTypes, TypeInv, RowsExist
      <3> QED BY <1>0, <2>0, <3>1, <3>2 DEF Ticks, Pcs
    <2>8. ASSUME NEW m \in Markets, RecordOpen(w, m) PROVE TickTypes'
      <3> DEFINE b == Min(Unused)
      <3>1. b \in Bets  BY <2>8, FreshRow DEF RecordOpen
      <3>2. tick' = [tick EXCEPT ![w] = [tick[w] EXCEPT !.pc = "send", !.cur = b,
              !.tried = tick[w].tried \cup {m}]]
        BY <2>8 DEF RecordOpen
      <3> HIDE DEF b
      <3> QED BY <1>0, <2>0, <3>1, <3>2, InHandType DEF Ticks, Pcs
    <2>9. CASE SendOpen(w)
      <3>1. tick' = [tick EXCEPT ![w] = [tick[w] EXCEPT !.pc = "confirm"]]
        BY <2>9 DEF SendOpen, Go
      <3> QED BY <1>0, <2>0, <3>1 DEF Ticks, Pcs
    <2>10. CASE SendThrows(w)
      <3>1. tick' = [tick EXCEPT ![w] = [tick[w] EXCEPT !.pc = "entry", !.cur = 0]]
        BY <2>10 DEF SendThrows
      <3> QED BY <1>0, <2>0, <3>1, InHandType DEF Ticks, Pcs
    <2>11. CASE ConfirmOpen(w)
      <3>1. tick' = [tick EXCEPT ![w] = [NoTick EXCEPT !.pc = "stop", !.cur = tick[w].cur]]
        BY <2>11 DEF ConfirmOpen
      <3>2. [NoTick EXCEPT !.pc = "stop", !.cur = tick[w].cur] \in Ticks
        <4>1. NoTick \in Ticks  BY NoTickType
        <4> HIDE DEF NoTick
        <4> QED BY <2>0, <4>1 DEF Ticks, Pcs
      <3> QED BY <1>0, <3>1, <3>2
    <2>12. CASE SendRescue(w)
      <3>1. tick' = [tick EXCEPT ![w] = [tick[w] EXCEPT !.pc = "rescue"]]
        BY <2>12 DEF SendRescue, Go
      <3> QED BY <1>0, <2>0, <3>1 DEF Ticks, Pcs
    <2>13. CASE EndSession(w) \/ EndThrows(w) \/ SkipEntries(w) \/ EndEntries(w)
                \/ StopOrGiveUp(w) \/ ConfirmRescue(w)
      <3>1. Done(w)
        BY <2>13 DEF EndSession, EndThrows, SkipEntries, EndEntries, StopOrGiveUp, ConfirmRescue, Finish
      <3> QED BY <1>0, <3>1, NoTickType DEF Done
    <2>14. CASE ClaimInVain(w)  BY <1>0, <2>14 DEF ClaimInVain, TickTypes, Ticks, Amounts, Bets
    <2> QED BY <1>1, <2>1, <2>2, <2>3, <2>4, <2>5, <2>6, <2>7, <2>8, <2>9, <2>10, <2>11, <2>12,
          <2>13, <2>14 DEF TickStep, ExitPass, Entry
  <1>2. ASSUME NEW w \in Workers, Crash(w) PROVE TickTypes'
    BY <1>0, <1>2, NoTickType DEF Crash, Done
  <1>3. CASE Outside  BY <1>0, <1>3, OutsideLeavesTicks DEF TickTypes, Ticks, Amounts, Bets
  <1>4. CASE UNCHANGED vars  BY <1>0, <1>4 DEF TickTypes, Ticks, Amounts, Bets, vars
  <1> QED BY <1>1, <1>2, <1>3, <1>4, NextCases

\* A row once recorded stays.
LEMMA RecordedStays ==
  ASSUME RowTypes, [Next]_vars, NEW b \in Bets, status[b] # "none"
  PROVE  status'[b] # "none"
  <1>1. ASSUME NEW w \in Workers, TickStep(w) PROVE status'[b] # "none"
    <2>1. ASSUME NEW c, CasClose(c) PROVE status'[b] # "none"
      BY <2>1 DEF CasClose, RowTypes
    <2>2. ASSUME NEW m \in Markets, RecordOpen(w, m) PROVE status'[b] # "none"
      <3>1. status' = [status EXCEPT ![Min(Unused)] = "pending"]  BY <2>2 DEF RecordOpen
      <3> QED BY <3>1 DEF RowTypes
    <2>3. CASE ConfirmOpen(w)
      <3>1. status' = status \/ status' = [status EXCEPT ![tick[w].cur] = "confirmed"]
        BY <2>3 DEF ConfirmOpen
      <3> QED BY <3>1 DEF RowTypes
    <2> QED BY <1>1, <2>1, <2>2, <2>3, RowSteps DEF ConfirmExit, ConfirmRescue, rowVars
  <1>2. ASSUME NEW w \in Workers, Crash(w) PROVE status'[b] # "none"
    BY <1>2 DEF Crash, rowVars
  <1>3. CASE Outside
    BY <1>3 DEF Outside, VenueStep, SweepStep, ClaimExpires, StopSession, OpenResolves,
      CloseResolves, DiesOutside, Reap, SweepFailsOpen, SweepExpires, SweepPrices,
      SweepReopens, rowVars, RowTypes
  <1>4. CASE UNCHANGED vars  BY <1>4 DEF vars, rowVars
  <1> QED BY <1>1, <1>2, <1>3, <1>4, NextCases

LEMMA RowsExistKept == ASSUME TypeInv, [Next]_vars PROVE RowsExist'
  <1>0. TypeOK /\ RowsExist /\ RowTypes /\ VenueTypes /\ TickTypes  BY TypeParts DEF TypeInv
  <1> DEFINE Known(w) == (tick[w].todo \cup {tick[w].cur}) \ {0}
  <1>1. ASSUME NEW b \in Bets, status'[b] = "none" PROVE openTx'[b] = "none" /\ b \notin held'
    <2>1. status[b] = "none" /\ openTx[b] = "none" /\ b \notin held
      BY <1>0, <1>1, RecordedStays DEF RowsExist
    <2>2. ASSUME NEW w \in Workers, TickStep(w) PROVE openTx'[b] = openTx[b] /\ held' = held
      <3>1. CASE SendOpen(w) \/ SendThrows(w)
        <4>1. b # tick[w].cur  BY <1>0, <2>1 DEF RowsExist, Bets
        <4> QED BY <1>0, <3>1, <4>1 DEF SendOpen, SendThrows, VenueTypes
      <3> QED BY <2>2, <3>1, VenueSteps DEF SendExit, SendRescue, venueVars
    <2>3. ASSUME NEW w \in Workers, Crash(w) PROVE openTx'[b] = openTx[b] /\ held' = held
      BY <2>3 DEF Crash, venueVars
    <2>4. ASSUME NEW c \in Bets, OpenResolves(c) PROVE openTx'[b] = "none" /\ b \notin held'
      BY <1>0, <2>1, <2>4 DEF OpenResolves, VenueTypes
    <2>5. CASE Outside
      BY <2>1, <2>4, <2>5 DEF Outside, VenueStep, SweepStep, ClaimExpires, StopSession,
        CloseResolves, DiesOutside, Reap, SweepFailsOpen, SweepExpires, SweepPrices,
        SweepReopens, venueVars
    <2>6. CASE UNCHANGED vars  BY <2>1, <2>6 DEF vars, venueVars
    <2> QED BY <2>1, <2>2, <2>3, <2>5, <2>6, NextCases
  <1>2. ASSUME NEW v \in Workers, NEW b \in Known(v)' PROVE status'[b] # "none"
    <2>1. b \in Bets
      <3>1. tick'[v] \in Ticks  BY <1>0, TickTypesKept DEF TickTypes, Ticks, Amounts, Bets
      <3> QED BY <1>2, <3>1, AutopilotAssumption DEF Ticks, Bets
    <2>2. b \in Known(v) => status'[b] # "none"
      BY <1>0, <2>1, RecordedStays DEF RowsExist
    <2>3. ASSUME NEW w \in Workers, TickStep(w) PROVE status'[b] # "none"
      <3>1. CASE Claim(w)
        <4>1. b \in Known(v) \/ status[b] = "confirmed"
          BY <1>0, <1>2, <3>1 DEF Claim, TickTypes, Ticks, RowsIn
        <4> QED BY <1>0, <2>1, <2>2, <4>1, RecordedStays
      <3>2. ASSUME NEW c \in Bets, SendExit(w, c) PROVE b \in Known(v)
        BY <1>0, <1>2, <3>2 DEF SendExit, TickTypes, Ticks
      <3>3. ASSUME NEW c \in Bets, StayIn(w, c) \/ ExitThrows(w, c) PROVE b \in Known(v)
        BY <1>0, <1>2, <3>3 DEF StayIn, ExitThrows, TickTypes, Ticks
      <3>4. ASSUME NEW m \in Markets, RecordOpen(w, m) PROVE status'[b] # "none"
        <4> DEFINE n == Min(Unused)
        <4>1. tick' = [tick EXCEPT ![w].pc = "send", ![w].cur = n, ![w].tried = @ \cup {m}]
              /\ status' = [status EXCEPT ![n] = "pending"]
          BY <3>4 DEF RecordOpen
        <4> HIDE DEF n
        <4>2. b \in Known(v) \/ b = n  BY <1>0, <1>2, <4>1 DEF TickTypes, Ticks
        <4> QED BY <1>0, <2>1, <2>2, <4>1, <4>2 DEF RowTypes
      <3>5. CASE ConfirmExit(w) \/ ConfirmExitThrows(w) \/ SendThrows(w)
        <4>1. b \in Known(v)
          BY <1>0, <1>2, <3>5 DEF ConfirmExit, ConfirmExitThrows, SendThrows, TickTypes, Ticks
        <4> QED BY <2>2, <4>1
      <3>6. CASE Recompute(w) \/ UseCached(w) \/ ReadWallet(w)
        <4>1. b \in Known(v)
          BY <1>0, <1>2, <3>6 DEF Recompute, UseCached, ReadWallet, TickTypes, Ticks
        <4> QED BY <2>2, <4>1
      <3>7. CASE SendOpen(w) \/ ConfirmOpen(w) \/ SendRescue(w)
        <4>1. CASE SendOpen(w) \/ SendRescue(w)
          <5>1. b \in Known(v)
            BY <1>0, <1>2, <4>1 DEF SendOpen, SendRescue, Go, TickTypes, Ticks
          <5> QED BY <2>2, <5>1
        <4>2. CASE ConfirmOpen(w)
          <5>1. tick'[v] = tick[v] \/ (v = w /\ tick'[v].cur = tick[v].cur /\ tick'[v].todo = {})
            BY <1>0, <4>2 DEF ConfirmOpen, NoTick, TickTypes, Ticks
          <5>2. b \in Known(v)  BY <1>2, <5>1
          <5> QED BY <2>2, <5>2
        <4> QED BY <3>7, <4>1, <4>2
      <3>8. CASE EndSession(w) \/ EndThrows(w) \/ SkipEntries(w) \/ EndEntries(w)
                  \/ StopOrGiveUp(w) \/ ConfirmRescue(w)
        <4>1. Done(w)
          BY <3>8 DEF EndSession, EndThrows, SkipEntries, EndEntries, StopOrGiveUp, ConfirmRescue, Finish
        <4>2. b \in Known(v)
          BY <1>0, <1>2, <4>1 DEF Done, NoTick, TickTypes, Ticks
        <4> QED BY <2>2, <4>2
      <3>9. CASE ClaimInVain(w)  BY <1>2, <2>2, <3>9 DEF ClaimInVain
      <3> QED BY <2>3, <2>2, <3>1, <3>2, <3>3, <3>4, <3>5, <3>6, <3>7, <3>8, <3>9
            DEF TickStep, ExitPass, Entry
    <2>4. ASSUME NEW w \in Workers, Crash(w) PROVE status'[b] # "none"
      BY <1>0, <1>2, <2>2, <2>4 DEF Crash, Done, NoTick, TickTypes, Ticks
    <2>5. CASE Outside  BY <1>2, <2>2, <2>5, OutsideLeavesTicks
    <2>6. CASE UNCHANGED vars  BY <1>2, <2>2, <2>6 DEF vars
    <2> QED BY <2>3, <2>4, <2>5, <2>6, NextCases
  <1> QED BY <1>1, <1>2 DEF RowsExist

LEMMA TypeInvKept == ASSUME TypeInv, [Next]_vars PROVE TypeInv'
  <1>1. SessionTypes' /\ RowTypes' /\ VenueTypes' /\ TickTypes'
    BY TypeParts, SessionTypesKept, RowTypesKept, VenueTypesKept, TickTypesKept DEF TypeInv
  <1> QED BY <1>1, TypeParts1, RowsExistKept DEF TypeInv

LEMMA TypeInvFirst == ASSUME Init PROVE TypeInv
  <1>1. SessionTypes  BY AutopilotAssumption DEF Init, SessionTypes
  <1>2. RowTypes  BY AutopilotAssumption DEF Init, RowTypes
  <1>3. VenueTypes  BY DEF Init, VenueTypes
  <1>4. TickTypes  BY NoTickType DEF Init, TickTypes
  <1>5. RowsExist  BY DEF Init, RowsExist, NoTick
  <1> QED BY <1>1, <1>2, <1>3, <1>4, <1>5, TypeParts DEF TypeInv

(***************************************************************************)
(* Every variable has its type, rows on record carry a stake and a market, *)
(* whatever overtakes whatever: also where a claim expires under a tick    *)
(* that goes on (lib/autopilot/engine.ts, lib/autopilot/sessions.ts).      *)
(***************************************************************************)
THEOREM TypeCorrect == Spec => []TypeOK
  <1>1. Init => TypeInv  BY TypeInvFirst
  <1>2. TypeInv /\ [Next]_vars => TypeInv'  BY TypeInvKept
  <1>3. TypeInv => TypeOK  BY DEF TypeInv
  <1> QED BY <1>1, <1>2, <1>3, PTL DEF Spec

-----------------------------------------------------------------------------
(* How rows, transactions and ticks move.                                  *)

LEMMA RowMoves ==
  ASSUME RowTypes, [Next]_vars, NEW b \in Bets
  PROVE  \/ /\ status'[b] = status[b] /\ market'[b] = market[b]
            /\ stake'[b] = stake[b] /\ result'[b] = result[b]
         \/ \E w \in Workers, m \in Markets : RecordOpen(w, m) /\ b = Min(Unused)
         \/ \E w \in Workers : ConfirmOpen(w) /\ b = tick[w].cur
         \/ \E w \in Workers : (ConfirmExit(w) \/ ConfirmRescue(w)) /\ b = tick[w].cur
         \/ Reap(b) \/ SweepFailsOpen(b) \/ SweepExpires(b) \/ SweepPrices(b) \/ SweepReopens(b)
  <1> DEFINE Same == /\ status'[b] = status[b] /\ market'[b] = market[b]
                     /\ stake'[b] = stake[b] /\ result'[b] = result[b]
  <1>1. ASSUME NEW w \in Workers, TickStep(w)
        PROVE  \/ Same
               \/ \E m \in Markets : RecordOpen(w, m) /\ b = Min(Unused)
               \/ ConfirmOpen(w) /\ b = tick[w].cur
               \/ (ConfirmExit(w) \/ ConfirmRescue(w)) /\ b = tick[w].cur
    <2>1. ASSUME NEW m \in Markets, RecordOpen(w, m), b # Min(Unused) PROVE Same
      <3> DEFINE n == Min(Unused)
                 s == ComputeStake(Remaining(w))
      <3>1. /\ status' = [status EXCEPT ![n] = "pending"]
            /\ market' = [market EXCEPT ![n] = m]
            /\ stake' = [stake EXCEPT ![n] = s]
            /\ result' = result /\ b # n
        BY <2>1 DEF RecordOpen
      <3> HIDE DEF n, s
      <3> QED BY <3>1 DEF RowTypes
    <2>2. ASSUME ConfirmOpen(w), b # tick[w].cur PROVE Same
      <3>1. status' = status \/ status' = [status EXCEPT ![tick[w].cur] = "confirmed"]
        BY <2>2 DEF ConfirmOpen
      <3> QED BY <2>2, <3>1 DEF RowTypes, ConfirmOpen
    <2>3. ASSUME NEW c, CasClose(c), b # c, UNCHANGED <<market, stake>> PROVE Same
      BY <2>3 DEF CasClose, RowTypes
    <2>4. CASE UNCHANGED rowVars  BY <2>4 DEF rowVars
    <2> QED BY <1>1, <2>1, <2>2, <2>3, <2>4, RowSteps DEF ConfirmExit, ConfirmRescue
  <1>2. ASSUME NEW w \in Workers, Crash(w) PROVE Same
    BY <1>2 DEF Crash, rowVars
  <1>3. CASE Outside
    <2>1. ASSUME NEW c \in Bets, SweepStep(c), c # b PROVE Same
      BY <2>1 DEF SweepStep, Reap, SweepFailsOpen, SweepExpires, SweepPrices, SweepReopens, RowTypes
    <2>2. CASE VenueStep \/ ClaimExpires \/ StopSession
      BY <2>2 DEF VenueStep, ClaimExpires, StopSession, OpenResolves, CloseResolves,
        DiesOutside, rowVars
    <2> QED BY <1>3, <2>1, <2>2 DEF Outside, SweepStep
  <1>4. CASE UNCHANGED vars  BY <1>4 DEF vars, rowVars
  <1> QED BY <1>1, <1>2, <1>3, <1>4, NextCases

LEMMA SettledStays ==
  ASSUME RowTypes, [Next]_vars, NEW b \in Bets
  PROVE  /\ status[b] \in Settled => status'[b] \in Settled
         /\ status[b] = "abandoned" => status'[b] = "abandoned"
         /\ status[b] # "none" => market'[b] = market[b]
         /\ status[b] = "pending" =>
               \/ status'[b] = "pending"
               \/ status'[b] = "confirmed" /\ \E w \in Workers : At(w, "confirm") /\ b = tick[w].cur
               \/ status'[b] = "abandoned" /\ b \notin InHand
         /\ status'[b] = "confirmed" =>
               \/ status[b] = "confirmed"
               \/ status[b] = "pending" /\ \E w \in Workers : ConfirmOpen(w) /\ b = tick[w].cur
               \/ SweepReopens(b)
  <1>1. ASSUME NEW w \in Workers, NEW m \in Markets, RecordOpen(w, m), b = Min(Unused)
        PROVE  status[b] = "none" /\ status'[b] = "pending"
    BY <1>1, FreshRow DEF RecordOpen, RowTypes
  <1>2. ASSUME NEW w \in Workers, ConfirmOpen(w), b = tick[w].cur
        PROVE  /\ market'[b] = market[b] /\ At(w, "confirm")
               /\ status'[b] = status[b] \/ (status[b] = "pending" /\ status'[b] = "confirmed")
    BY <1>2 DEF ConfirmOpen, RowTypes
  <1>3. ASSUME NEW w \in Workers, ConfirmExit(w) \/ ConfirmRescue(w), b = tick[w].cur
        PROVE  /\ market'[b] = market[b]
               /\ status'[b] = status[b] \/ (status[b] = "confirmed" /\ status'[b] = "closed")
    BY <1>3 DEF ConfirmExit, ConfirmRescue, CasClose, RowTypes
  <1>4. CASE Reap(b) \/ SweepFailsOpen(b) \/ SweepExpires(b) \/ SweepPrices(b)
    BY <1>4 DEF Reap, SweepFailsOpen, SweepExpires, SweepPrices, RowTypes, Settled
  <1>5. CASE SweepReopens(b)  BY <1>5 DEF SweepReopens, RowTypes, Settled
  <1> QED BY <1>1, <1>2, <1>3, <1>4, <1>5, RowMoves DEF Settled

LEMMA TxMoves ==
  ASSUME VenueTypes, [Next]_vars, NEW b \in Bets
  PROVE  /\ \/ openTx'[b] = openTx[b]
            \/ \E w \in Workers : (SendOpen(w) \/ SendThrows(w)) /\ b = tick[w].cur
            \/ OpenResolves(b)
         /\ b \in held' => b \in held \/ (OpenResolves(b) /\ openTx'[b] = "landed")
  <1>1. ASSUME NEW w \in Workers, TickStep(w)
        PROVE  /\ held' = held
               /\ openTx'[b] = openTx[b] \/ ((SendOpen(w) \/ SendThrows(w)) /\ b = tick[w].cur)
    BY <1>1, VenueSteps DEF VenueTypes, SendExit, SendOpen, SendThrows, SendRescue, venueVars
  <1>2. ASSUME NEW w \in Workers, Crash(w) PROVE openTx' = openTx /\ held' = held
    BY <1>2 DEF Crash, venueVars
  <1>3. CASE Outside
    <2>1. ASSUME NEW c \in Bets, OpenResolves(c), b # c PROVE openTx'[b] = openTx[b] /\ (b \in held' => b \in held)
      BY <2>1 DEF OpenResolves, VenueTypes
    <2>2. CASE OpenResolves(b)  BY <2>2 DEF OpenResolves, VenueTypes
    <2>3. ASSUME NEW c \in Bets, CloseResolves(c) \/ DiesOutside(c) PROVE openTx' = openTx /\ held' \subseteq held
      BY <2>3 DEF CloseResolves, DiesOutside
    <2>4. ASSUME NEW c \in Bets, SweepStep(c) PROVE openTx' = openTx /\ held' = held
      BY <2>4 DEF SweepStep, Reap, SweepFailsOpen, SweepExpires, SweepPrices, SweepReopens, venueVars
    <2>5. CASE ClaimExpires \/ StopSession  BY <2>5 DEF ClaimExpires, StopSession, venueVars
    <2> QED BY <1>3, <2>1, <2>2, <2>3, <2>4, <2>5 DEF Outside, VenueStep
  <1>4. CASE UNCHANGED vars  BY <1>4 DEF vars, venueVars
  <1> QED BY <1>1, <1>2, <1>3, <1>4, NextCases

\* A tick claims, goes on, or ends.
LEMMA TickCases ==
  ASSUME NEW w \in Workers, TickStep(w)
  PROVE  \/ ClaimInVain(w) \/ Claim(w)
         \/ ~At(w, "idle") /\ Done(w)
         \/ ~At(w, "idle") /\ UNCHANGED sessionVars /\ \E t : tick' = [tick EXCEPT ![w] = t]
  <1>1. ASSUME NEW b \in Bets, SendExit(w, b) \/ StayIn(w, b) \/ ExitThrows(w, b)
        PROVE  ~At(w, "idle") /\ UNCHANGED sessionVars /\ \E t : tick' = [tick EXCEPT ![w] = t]
    BY <1>1 DEF SendExit, StayIn, ExitThrows, At
  <1>2. CASE ConfirmExit(w) \/ ConfirmExitThrows(w) \/ Recompute(w) \/ UseCached(w)
    BY <1>2 DEF ConfirmExit, ConfirmExitThrows, Recompute, UseCached, At
  <1>3. ASSUME NEW m \in Markets, RecordOpen(w, m)
        PROVE  ~At(w, "idle") /\ UNCHANGED sessionVars /\ \E t : tick' = [tick EXCEPT ![w] = t]
    BY <1>3 DEF RecordOpen, At
  <1>4. CASE ReadWallet(w) \/ SendOpen(w) \/ SendThrows(w) \/ ConfirmOpen(w) \/ SendRescue(w)
    BY <1>4 DEF ReadWallet, SendOpen, SendThrows, ConfirmOpen, SendRescue, Go, At
  <1>5. CASE EndSession(w) \/ EndThrows(w) \/ SkipEntries(w) \/ EndEntries(w)
                \/ StopOrGiveUp(w) \/ ConfirmRescue(w)
    BY <1>5 DEF EndSession, EndThrows, SkipEntries, EndEntries, StopOrGiveUp, ConfirmRescue, Finish, At
  <1> QED BY <1>1, <1>2, <1>3, <1>4, <1>5 DEF TickStep, ExitPass, Entry

-----------------------------------------------------------------------------
(* One tick at a time.                                                     *)

LEMMA OneTickKept ==
  ASSUME SlowTicks = FALSE, TypeInv, OneTick, [Next]_vars
  PROVE  OneTick'
  <1>0. TickTypes /\ TickTypes'  BY TypeParts, TickTypesKept DEF TypeInv
  <1>1. ASSUME NEW w \in Workers, TickStep(w) PROVE OneTick'
    <2>1. CASE ClaimInVain(w)
      BY <1>0, <2>1 DEF ClaimInVain, ClaimGranted, OneTick, Ticking
    <2>2. CASE Claim(w)
      <3>1. Ticking = {}  BY <2>2 DEF Claim, ClaimGranted, OneTick
      <3>2. \A v \in Workers : tick'[v].pc # "idle" => v = w
        BY <1>0, <2>2, <3>1 DEF Claim, TickTypes, Ticks, Ticking
      <3>3. claimFree' = FALSE /\ session' = "active"  BY <2>2 DEF Claim, ClaimGranted
      <3> QED BY <3>2, <3>3 DEF OneTick, Ticking
    <2>3. CASE ~At(w, "idle") /\ Done(w)
      <3>1. w \in Ticking  BY <2>3 DEF Ticking, At
      <3>2. \A v \in Workers : tick'[v].pc = "idle"
        BY <1>0, <2>3, <3>1 DEF Done, NoTick, TickTypes, OneTick, Ticking
      <3> QED BY <3>2 DEF OneTick, Ticking
    <2>4. CASE ~At(w, "idle") /\ UNCHANGED sessionVars /\ \E t : tick' = [tick EXCEPT ![w] = t]
      <3>1. w \in Ticking  BY <2>4 DEF Ticking, At
      <3>2. \A v \in Workers : tick'[v].pc # "idle" => v = w
        BY <1>0, <2>4, <3>1 DEF TickTypes, OneTick, Ticking
      <3>3. claimFree' = claimFree /\ session' = session  BY <2>4 DEF sessionVars
      <3> QED BY <3>1, <3>2, <3>3 DEF OneTick, Ticking
    <2> QED BY <1>1, <2>1, <2>2, <2>3, <2>4, TickCases
  <1>2. ASSUME NEW w \in Workers, Crash(w) PROVE OneTick'
    <2>1. \A v \in Workers : tick'[v].pc # "idle" => tick[v].pc # "idle"
      BY <1>0, <1>2 DEF Crash, Done, NoTick, TickTypes
    <2> QED BY <1>2, <2>1 DEF OneTick, Ticking, Crash, sessionVars
  <1>3. CASE Outside
    <2>1. Ticking' = Ticking  BY <1>3, OutsideLeavesTicks DEF Ticking
    <2>2. CASE ClaimExpires  BY <2>1, <2>2 DEF ClaimExpires, OneTick
    <2>3. CASE StopSession  BY <2>1, <2>3 DEF StopSession, OneTick
    <2>4. CASE VenueStep \/ \E b \in Bets : SweepStep(b)
      <3>1. UNCHANGED sessionVars
        BY <2>4 DEF VenueStep, SweepStep, OpenResolves, CloseResolves, DiesOutside, Reap,
          SweepFailsOpen, SweepExpires, SweepPrices, SweepReopens
      <3> QED BY <2>1, <3>1 DEF OneTick, sessionVars
    <2> QED BY <1>3, <2>2, <2>3, <2>4 DEF Outside
  <1>4. CASE UNCHANGED vars  BY <1>4 DEF OneTick, Ticking, vars, sessionVars
  <1> QED BY <1>1, <1>2, <1>3, <1>4, NextCases

LEMMA OthersIdle ==
  ASSUME TypeInv, OneTick, NEW w \in Workers, TickStep(w), ~ClaimInVain(w),
         NEW v \in Workers, v # w
  PROVE  At(v, "idle") /\ tick'[v] = tick[v]
  <1>0. TickTypes  BY TypeParts DEF TypeInv
  <1>1. At(v, "idle")
    <2>1. CASE Claim(w)  BY <2>1 DEF Claim, ClaimGranted, OneTick, Ticking, At
    <2>2. CASE ~At(w, "idle")  BY <2>2 DEF OneTick, Ticking, At
    <2> QED BY <2>1, <2>2, TickCases
  <1>2. tick'[v] = tick[v]
    BY <1>0, TickCases DEF Claim, Done, TickTypes
  <1> QED BY <1>1, <1>2

\* A worker that is idle after the step.
LEMMA IdleShape ==
  ASSUME NEW v \in Workers, tick'[v].pc = "idle", tick'[v].cur = 0,
         tick'[v].seen = {}, tick'[v].todo = {}
  PROVE  ShapeOf(v)'
  BY DEF ShapeOf, At

\* A worker that does not move keeps its shape, as long as no other tick moves the
\* row in its hand.
LEMMA RestingShape ==
  ASSUME TypeInv, [Next]_vars, NEW v \in Workers, ShapeOf(v), tick'[v] = tick[v],
         At(v, "idle") \/ UNCHANGED <<rowVars, openTx>> \/ Outside
  PROVE  ShapeOf(v)'
  <1>0. RowTypes /\ VenueTypes /\ TickTypes  BY TypeParts DEF TypeInv
  <1>1. RowsIn(Settled) \subseteq RowsIn(Settled)'
    BY <1>0, SettledStays DEF RowsIn
  <1>2. (tick[v].seen \cup tick[v].todo \subseteq RowsIn(Settled))'  BY <1>1 DEF ShapeOf
  <1>3. CASE At(v, "idle")
    BY <1>2, <1>3 DEF ShapeOf, At
  <1>4. CASE UNCHANGED <<rowVars, openTx>> \/ Outside
    <2> DEFINE b == tick[v].cur
    <2>1. b \in Bets => ~Reap(b)  BY DEF InHand, Reap
    <2>2. b \in Bets /\ status[b] = "pending" => status'[b] = "pending"
      <3>1. ASSUME NEW c \in Bets, SweepStep(c), b \in Bets, status[b] = "pending"
            PROVE  status'[b] = "pending"
        BY <1>0, <2>1, <3>1 DEF SweepStep, Reap, SweepFailsOpen, SweepExpires, SweepPrices,
          SweepReopens, RowTypes
      <3>2. CASE VenueStep \/ ClaimExpires \/ StopSession \/ UNCHANGED <<rowVars, openTx>>
        BY <3>2 DEF VenueStep, ClaimExpires, StopSession, OpenResolves, CloseResolves,
          DiesOutside, rowVars
      <3> QED BY <1>4, <3>1, <3>2 DEF Outside
    <2>3. b \in Bets /\ openTx[b] = "none" => openTx'[b] = "none"
      <3>1. ASSUME NEW c \in Bets, OpenResolves(c), b \in Bets, openTx[b] = "none"
            PROVE  openTx'[b] = "none"
        BY <1>0, <3>1 DEF OpenResolves, VenueTypes
      <3>2. CASE ClaimExpires \/ StopSession \/ UNCHANGED <<rowVars, openTx>>
        BY <3>2 DEF ClaimExpires, StopSession, venueVars
      <3>3. ASSUME NEW c \in Bets, CloseResolves(c) \/ DiesOutside(c) \/ SweepStep(c)
            PROVE  openTx' = openTx
        BY <3>3 DEF CloseResolves, DiesOutside, SweepStep, Reap, SweepFailsOpen, SweepExpires,
          SweepPrices, SweepReopens, venueVars
      <3> QED BY <1>4, <3>1, <3>2, <3>3 DEF Outside, VenueStep
    <2>5. b \in Bets /\ status[b] \in Settled => status'[b] \in Settled  BY <1>0, SettledStays
    <2>7. tick[v].pc \notin {"idle", "exit", "phase", "entry"} => b \in Bets  BY DEF ShapeOf
    <2>8. tick[v].pc \in {"closing", "send", "confirm", "stop", "rescue"} => b \in Bets
      BY <2>7
    <2> HIDE DEF b
    <2>9. tick'[v].cur = b /\ tick'[v].pc = tick[v].pc /\ tick[v].cur = b  BY DEF b
    <2> QED BY <1>2, <2>2, <2>3, <2>5, <2>8, <2>9 DEF ShapeOf, At
  <1> QED BY <1>3, <1>4

LEMMA TickShapeKept ==
  ASSUME TypeInv, OneTick, TickShape, [Next]_vars
  PROVE  TickShape'
  <1>0. RowTypes /\ VenueTypes /\ TickTypes /\ TickTypes'  BY TypeParts, TickTypesKept DEF TypeInv
  <1>s. RowsIn(Settled) \subseteq RowsIn(Settled)'  BY <1>0, SettledStays DEF RowsIn
  <1>1. ASSUME NEW w \in Workers, TickStep(w), ~ClaimInVain(w) PROVE TickShape'
    <2>1. \A v \in Workers : v # w => ShapeOf(v)'
      BY <1>1, OthersIdle, RestingShape DEF TickShape, At
    <2>2. ShapeOf(w) /\ tick[w] \in Ticks  BY <1>0 DEF TickShape, TickTypes
    <2> DEFINE b == tick[w].cur
    <2>3. ASSUME Claim(w) PROVE ShapeOf(w)'
      <3>1. b = 0  BY <2>2, <2>3 DEF ShapeOf, Claim, At
      <3>2. RowsIn({"confirmed"}) \subseteq RowsIn(Settled)'
        BY <1>s DEF RowsIn, Settled
      <3>3. /\ tick'[w].pc = "exit" /\ tick'[w].cur = b
            /\ tick'[w].seen = RowsIn({"confirmed"}) /\ tick'[w].todo = RowsIn({"confirmed"})
        BY <1>0, <2>3 DEF Claim, TickTypes, Ticks
      <3>a. (tick[w].seen \cup tick[w].todo \subseteq RowsIn(Settled))'  BY <3>2, <3>3
      <3> QED BY <3>a, <3>1, <3>2, <3>3 DEF ShapeOf, At
    <2>4. ASSUME NEW c \in Bets, SendExit(w, c) PROVE ShapeOf(w)'
      <3>1. c \in RowsIn(Settled)'  BY <1>s, <2>2, <2>4 DEF SendExit, ShapeOf
      <3>2. /\ tick'[w].pc = "closing" /\ tick'[w].cur = c
            /\ tick'[w].seen = tick[w].seen /\ tick'[w].todo \subseteq tick[w].todo
        BY <1>0, <2>4 DEF SendExit, TickTypes, Ticks
      <3> QED BY <1>s, <2>2, <3>1, <3>2 DEF ShapeOf, At, RowsIn
    <2>5. ASSUME NEW c \in Bets, StayIn(w, c) \/ ExitThrows(w, c) PROVE ShapeOf(w)'
      <3>1. /\ tick'[w].pc = "exit" /\ tick'[w].cur = b /\ tick[w].pc = "exit"
            /\ tick'[w].seen = tick[w].seen /\ tick'[w].todo \subseteq tick[w].todo
        BY <1>0, <2>5 DEF StayIn, ExitThrows, TickTypes, Ticks, At
      <3>a. (tick[w].seen \cup tick[w].todo \subseteq RowsIn(Settled))'  BY <1>s, <2>2, <3>1 DEF ShapeOf
      <3> QED BY <2>2, <3>a, <3>1 DEF ShapeOf, At
    <2>6. ASSUME ConfirmExit(w) \/ ConfirmExitThrows(w) PROVE ShapeOf(w)'
      <3>1. /\ tick'[w].pc = "exit" /\ tick'[w].cur = 0
            /\ tick'[w].seen \subseteq tick[w].seen /\ tick'[w].todo = tick[w].todo
        BY <1>0, <2>6 DEF ConfirmExit, ConfirmExitThrows, TickTypes, Ticks
      <3>a. (tick[w].seen \cup tick[w].todo \subseteq RowsIn(Settled))'  BY <1>s, <2>2, <3>1 DEF ShapeOf
      <3> QED BY <2>2, <3>a, <3>1 DEF ShapeOf, At
    <2>7. ASSUME Recompute(w) \/ UseCached(w) \/ ReadWallet(w) PROVE ShapeOf(w)'
      <3>1. /\ tick'[w].pc \in {"phase", "entry"} /\ tick'[w].cur = b /\ tick[w].pc \in {"exit", "phase"}
            /\ tick'[w].seen = tick[w].seen /\ tick'[w].todo = tick[w].todo
        BY <1>0, <2>7 DEF Recompute, UseCached, ReadWallet, TickTypes, Ticks, At
      <3>a. (tick[w].seen \cup tick[w].todo \subseteq RowsIn(Settled))'  BY <1>s, <2>2, <3>1 DEF ShapeOf
      <3> QED BY <2>2, <3>a, <3>1 DEF ShapeOf, At
    <2>8. ASSUME NEW m \in Markets, RecordOpen(w, m) PROVE ShapeOf(w)'
      <3> DEFINE n == Min(Unused)
      <3>1. n \in Bets /\ status[n] = "none"  BY <2>8, FreshRow DEF RecordOpen
      <3>2. /\ tick' = [tick EXCEPT ![w].pc = "send", ![w].cur = n, ![w].tried = @ \cup {m}]
            /\ status' = [status EXCEPT ![n] = "pending"] /\ openTx' = openTx
        BY <2>8 DEF RecordOpen, venueVars
      <3>3. openTx[n] = "none"  BY <3>1 DEF TypeInv, RowsExist
      <3> HIDE DEF n
      <3>4. /\ tick'[w].pc = "send" /\ tick'[w].cur = n
            /\ tick'[w].seen = tick[w].seen /\ tick'[w].todo = tick[w].todo
        BY <1>0, <3>2 DEF TickTypes, Ticks
      <3>5. status'[n] = "pending" /\ openTx'[n] = "none"  BY <1>0, <3>1, <3>2, <3>3 DEF RowTypes
      <3> QED BY <1>s, <2>2, <3>1, <3>4, <3>5 DEF ShapeOf, At
    <2>9. ASSUME SendOpen(w) \/ SendRescue(w) PROVE ShapeOf(w)'
      <3>1. /\ tick'[w].pc \in {"confirm", "rescue"} /\ tick'[w].cur = b
            /\ tick'[w].seen = tick[w].seen /\ tick'[w].todo = tick[w].todo
            /\ status' = status
            /\ tick'[w].pc = "confirm" => tick[w].pc = "send"
            /\ tick'[w].pc = "rescue" => tick[w].pc = "stop"
        BY <1>0, <2>9 DEF SendOpen, SendRescue, Go, TickTypes, Ticks, At, rowVars
      <3>2. b \in Bets
        <4>1. tick[w].pc \notin {"idle", "exit", "phase", "entry"}  BY <3>1
        <4> QED BY <2>2, <4>1 DEF ShapeOf
      <3>a. (tick[w].seen \cup tick[w].todo \subseteq RowsIn(Settled))'  BY <1>s, <2>2, <3>1 DEF ShapeOf
      <3> QED BY <2>2, <3>a, <3>1, <3>2 DEF ShapeOf, At
    <2>10. ASSUME SendThrows(w) PROVE ShapeOf(w)'
      <3>1. /\ tick'[w].pc = "entry" /\ tick'[w].cur = 0
            /\ tick'[w].seen = tick[w].seen /\ tick'[w].todo = tick[w].todo
        BY <1>0, <2>10 DEF SendThrows, TickTypes, Ticks
      <3>a. (tick[w].seen \cup tick[w].todo \subseteq RowsIn(Settled))'  BY <1>s, <2>2, <3>1 DEF ShapeOf
      <3> QED BY <2>2, <3>a, <3>1 DEF ShapeOf, At
    <2>11. ASSUME ConfirmOpen(w) PROVE ShapeOf(w)'
      <3>1. tick'[w] = [NoTick EXCEPT !.pc = "stop", !.cur = b]
        BY <1>0, <2>11 DEF ConfirmOpen, TickTypes
      <3>2. /\ tick'[w].pc = "stop" /\ tick'[w].cur = b /\ tick'[w].seen = {} /\ tick'[w].todo = {}
        BY <3>1 DEF NoTick
      <3>3. b \in Bets /\ status[b] = "pending"  BY <2>2, <2>11 DEF ShapeOf, ConfirmOpen, At
      <3>4. status'[b] \in {"pending", "confirmed"}
        BY <1>0, <2>11, <3>3 DEF ConfirmOpen, RowTypes
      <3>a. (tick[w].seen \cup tick[w].todo \subseteq RowsIn(Settled))'  BY <3>2
      <3>5. status'[b] \in Settled \cup {"pending"}  BY <3>4 DEF Settled
      <3> QED BY <3>a, <3>2, <3>3, <3>5 DEF ShapeOf, At
    <2>12. ASSUME EndSession(w) \/ EndThrows(w) \/ SkipEntries(w) \/ EndEntries(w)
                \/ StopOrGiveUp(w) \/ ConfirmRescue(w)
          PROVE  ShapeOf(w)'
      <3>1. Done(w)
        BY <2>12 DEF EndSession, EndThrows, SkipEntries, EndEntries, StopOrGiveUp, ConfirmRescue, Finish
      <3>2. tick'[w] = NoTick  BY <1>0, <3>1 DEF Done, TickTypes
      <3>3. tick'[w].pc = "idle" /\ tick'[w].cur = 0 /\ tick'[w].seen = {} /\ tick'[w].todo = {}
        BY <3>2 DEF NoTick
      <3> QED BY <3>3, IdleShape
    <2>13. ShapeOf(w)'
      BY <1>1, <2>3, <2>4, <2>5, <2>6, <2>7, <2>8, <2>9, <2>10, <2>11, <2>12 DEF TickStep, ExitPass, Entry
    <2> QED BY <2>1, <2>13 DEF TickShape
  <1>2. ASSUME NEW w \in Workers, Crash(w) PROVE TickShape'
    <2>1. tick'[w] = NoTick /\ \A v \in Workers : v # w => tick'[v] = tick[v]
      BY <1>0, <1>2 DEF Crash, Done, TickTypes
    <2>2. UNCHANGED <<rowVars, openTx>>  BY <1>2 DEF Crash, venueVars
    <2>3. ShapeOf(w)'
      <3>1. tick'[w].pc = "idle" /\ tick'[w].cur = 0 /\ tick'[w].seen = {} /\ tick'[w].todo = {}
        BY <2>1 DEF NoTick
      <3> QED BY <3>1, IdleShape
    <2>4. \A v \in Workers : v # w => ShapeOf(v)'  BY <2>1, <2>2, RestingShape DEF TickShape
    <2> QED BY <2>3, <2>4 DEF TickShape
  <1>3. ASSUME NEW w \in Workers, ClaimInVain(w) PROVE TickShape'
    <2>1. UNCHANGED <<tick, rowVars, openTx>>  BY <1>3 DEF ClaimInVain, venueVars
    <2> QED BY <2>1, RestingShape DEF TickShape
  <1>4. CASE Outside  BY <1>4, OutsideLeavesTicks, RestingShape DEF TickShape
  <1>5. CASE UNCHANGED vars
    <2>1. UNCHANGED <<tick, rowVars, openTx>>  BY <1>5 DEF vars, venueVars
    <2> QED BY <2>1, RestingShape DEF TickShape
  <1> QED BY <1>1, <1>2, <1>3, <1>4, <1>5, NextCases

LEMMA VenueShapeKept ==
  ASSUME TypeInv, TickShape, VenueShape, [Next]_vars
  PROVE  VenueShape'
  <1>0. RowTypes /\ VenueTypes /\ TickTypes /\ VenueTypes'  BY TypeParts, VenueTypesKept DEF TypeInv
  <1>1. ASSUME NEW b \in held' PROVE openTx'[b] = "landed"
    <2>1. b \in Bets  BY <1>0, <1>1 DEF VenueTypes
    <2>2. CASE OpenResolves(b) /\ openTx'[b] = "landed"  BY <2>2
    <2>3. CASE b \in held
      <3>1. openTx[b] = "landed"  BY <2>3 DEF VenueShape
      <3>2. \A w \in Workers : SendOpen(w) \/ SendThrows(w) => b # tick[w].cur
        BY <3>1 DEF SendOpen, SendThrows, TickShape, ShapeOf, At
      <3>3. ~OpenResolves(b)  BY <3>1 DEF OpenResolves
      <3> QED BY <1>0, <2>1, <3>1, <3>2, <3>3, TxMoves
    <2> QED BY <1>0, <1>1, <2>1, <2>2, <2>3, TxMoves
  <1> QED BY <1>1 DEF VenueShape

-----------------------------------------------------------------------------
(* Sums over the rows.                                                     *)

Open == RowsIn({"confirmed"})

LEMMA SumsAreSums ==
  ASSUME TypeOK, TypeOK'
  PROVE  /\ Realized = SumOver(result, Closed) /\ Realized' = SumOver(result', Closed')
         /\ \A S \in SUBSET Bets : /\ Losing(S) = SumOver(stake, S)
                                   /\ Losing(S)' = SumOver(stake', S)
         /\ Losing(Open)' = SumOver(stake', Open')
         /\ Losing(InDoubt)' = SumOver(stake', InDoubt')
  <1>1. Realized = SumOver(result, Closed)  BY DEF Realized, SumOver
  <1>2. Realized' = SumOver(result', Closed')  BY DEF Realized, SumOver, MapThenSumSet, MapThenFoldSet
  <1>3. ASSUME NEW S PROVE Losing(S) = SumOver(stake, S)  BY DEF Losing, SumOver
  <1>4. ASSUME NEW S PROVE Losing(S)' = SumOver(stake', S)  BY DEF Losing, SumOver, MapThenSumSet, MapThenFoldSet
  <1>5. Losing(Open)' = SumOver(stake', Open')  BY DEF Losing, SumOver, MapThenSumSet, MapThenFoldSet
  <1>6. Losing(InDoubt)' = SumOver(stake', InDoubt')  BY DEF Losing, SumOver, MapThenSumSet, MapThenFoldSet
  <1> QED BY <1>1, <1>2, <1>3, <1>4, <1>5, <1>6

\* The rows but one are as they were: so is what they add to the sums.
LEMMA OneRowMoves ==
  ASSUME TypeOK, TypeOK', NEW b \in Bets,
         \A c \in Bets : c # b => /\ status'[c] = status[c] /\ stake'[c] = stake[c]
                                  /\ result'[c] = result[c]
  PROVE  \E lost, earned \in Int :
            /\ Losing(Open) = lost + (IF status[b] = "confirmed" THEN stake[b] ELSE 0)
            /\ Losing(Open)' = lost + (IF status'[b] = "confirmed" THEN stake'[b] ELSE 0)
            /\ Realized = earned + (IF b \in Closed THEN result[b] ELSE 0)
            /\ Realized' = earned + (IF b \in Closed' THEN result'[b] ELSE 0)
  <1> DEFINE O == Open \ {b}
             R == Closed \ {b}
  <1>1. \A c \in Bets : /\ stake[c] \in Int /\ stake'[c] \in Int
                        /\ result[c] \in Int /\ result'[c] \in Int
    <2>1. 0..Budget \subseteq Int /\ -Budget..Gain \subseteq Int  BY AutopilotAssumption
    <2> QED BY <2>1 DEF TypeOK
  <1>2. /\ Open \in SUBSET Bets /\ Closed \in SUBSET Bets /\ Open' \in SUBSET Bets /\ Closed' \in SUBSET Bets
        /\ O = Open' \ {b} /\ R = Closed' \ {b} /\ O \in SUBSET Bets /\ R \in SUBSET Bets
    BY DEF Open, Closed, RowsIn
  <1>3. /\ IsFiniteSet(O) /\ IsFiniteSet(R) /\ IsFiniteSet(Open) /\ IsFiniteSet(Open')
        /\ IsFiniteSet(Closed) /\ IsFiniteSet(Closed')
    BY <1>2, RowsFinite
  <1> HIDE DEF O, R
  <1>4. SumOver(stake', O) = SumOver(stake, O)
    <2>1. \A c \in O : stake'[c] = stake[c]  BY DEF O, Open, RowsIn
    <2> QED BY <1>3, <2>1, SumSame
  <1>5. SumOver(result', R) = SumOver(result, R)
    <2>1. \A c \in R : result'[c] = result[c]  BY DEF R, Closed, RowsIn
    <2> QED BY <1>3, <2>1, SumSame
  <1>6. SumOver(stake, O) \in Int /\ SumOver(result, R) \in Int
    BY <1>1, <1>2, <1>3, SumType
  <1>7. SumOver(stake, Open) = SumOver(stake, O) + (IF b \in Open THEN stake[b] ELSE 0)
    <2>1. CASE b \in Open
      <3>1. SumOver(stake, Open) = stake[b] + SumOver(stake, Open \ {b})
        BY <1>1, <1>2, <1>3, <2>1, SumRemove
      <3> QED BY <1>1, <1>6, <2>1, <3>1 DEF O
    <2>2. CASE b \notin Open
      <3>1. O = Open  BY <2>2 DEF O
      <3> QED BY <1>6, <2>2, <3>1
    <2> QED BY <2>1, <2>2
  <1>8. SumOver(stake', Open') = SumOver(stake', O) + (IF b \in Open' THEN stake'[b] ELSE 0)
    <2>1. CASE b \in Open'
      <3>1. SumOver(stake', Open') = stake'[b] + SumOver(stake', Open' \ {b})
        BY <1>1, <1>2, <1>3, <2>1, SumRemove
      <3> QED BY <1>1, <1>2, <1>4, <1>6, <2>1, <3>1
    <2>2. CASE b \notin Open'
      <3>1. O = Open'  BY <1>2, <2>2
      <3> QED BY <1>4, <1>6, <2>2, <3>1
    <2> QED BY <2>1, <2>2
  <1>9. SumOver(result, Closed) = SumOver(result, R) + (IF b \in Closed THEN result[b] ELSE 0)
    <2>1. CASE b \in Closed
      <3>1. SumOver(result, Closed) = result[b] + SumOver(result, Closed \ {b})
        BY <1>1, <1>2, <1>3, <2>1, SumRemove
      <3> QED BY <1>1, <1>6, <2>1, <3>1 DEF R
    <2>2. CASE b \notin Closed
      <3>1. R = Closed  BY <2>2 DEF R
      <3> QED BY <1>6, <2>2, <3>1
    <2> QED BY <2>1, <2>2
  <1>10. SumOver(result', Closed') = SumOver(result', R) + (IF b \in Closed' THEN result'[b] ELSE 0)
    <2>1. CASE b \in Closed'
      <3>1. SumOver(result', Closed') = result'[b] + SumOver(result', Closed' \ {b})
        BY <1>1, <1>2, <1>3, <2>1, SumRemove
      <3> QED BY <1>1, <1>2, <1>5, <1>6, <2>1, <3>1
    <2>2. CASE b \notin Closed'
      <3>1. R = Closed'  BY <1>2, <2>2
      <3> QED BY <1>5, <1>6, <2>2, <3>1
    <2> QED BY <2>1, <2>2
  <1>11. (b \in Open <=> status[b] = "confirmed") /\ (b \in Open' <=> status'[b] = "confirmed")
    BY DEF Open, RowsIn
  <1> DEFINE lost == SumOver(stake, O)
             earned == SumOver(result, R)
  <1>12. /\ Losing(Open) = lost + (IF status[b] = "confirmed" THEN stake[b] ELSE 0)
         /\ Losing(Open)' = lost + (IF status'[b] = "confirmed" THEN stake'[b] ELSE 0)
    BY <1>2, <1>4, <1>7, <1>8, <1>11, SumsAreSums
  <1>13. /\ Realized = earned + (IF b \in Closed THEN result[b] ELSE 0)
         /\ Realized' = earned + (IF b \in Closed' THEN result'[b] ELSE 0)
    BY <1>5, <1>9, <1>10, SumsAreSums
  <1> HIDE DEF lost, earned
  <1>14. lost \in Int /\ earned \in Int  BY <1>6 DEF lost, earned
  <1> QED BY <1>12, <1>13, <1>14

LEMMA NoRowMoves ==
  ASSUME TypeOK, TypeOK',
         \A c \in Bets : /\ status'[c] = status[c] /\ stake'[c] = stake[c] /\ result'[c] = result[c]
  PROVE  Losing(Open)' = Losing(Open) /\ Realized' = Realized
  <1>1. Open' = Open /\ Closed' = Closed /\ Open \in SUBSET Bets /\ Closed \in SUBSET Bets
    BY DEF Open, Closed, RowsIn
  <1>2. IsFiniteSet(Open) /\ IsFiniteSet(Closed)  BY <1>1, RowsFinite
  <1>3. SumOver(stake', Open) = SumOver(stake, Open) /\ SumOver(result', Closed) = SumOver(result, Closed)
    BY <1>1, <1>2, SumSame
  <1> QED BY <1>1, <1>3, SumsAreSums

-----------------------------------------------------------------------------
(* The loss budget.                                                        *)

LEMMA Totals ==
  TypeOK => Realized \in Int /\ Losing(Open) \in Nat /\ Losing(InDoubt) \in Nat
  <1> SUFFICES ASSUME TypeOK PROVE Realized \in Int /\ Losing(Open) \in Nat /\ Losing(InDoubt) \in Nat
    OBVIOUS
  <1>1. Realized \in Int
    <2>1. NumBets * Budget \in Nat /\ NumBets * Gain \in Nat  BY AutopilotAssumption
    <2> QED BY <2>1, RealizedAmount DEF Amounts
  <1>2. Open \in SUBSET Bets /\ InDoubt \in SUBSET Bets
    BY TypeParts DEF Open, RowsIn, InDoubt, InHand, TickTypes, Ticks, Bets
  <1> QED BY <1>1, <1>2, LosingType

LEMMA TotalsLater ==
  TypeOK' => Realized' \in Int /\ Losing(Open)' \in Nat /\ Losing(InDoubt)' \in Nat
  <1>1. (TypeOK => Realized \in Int /\ Losing(Open) \in Nat /\ Losing(InDoubt) \in Nat)'
    BY Totals, PTL
  <1> QED BY <1>1

LEMMA LossBudgetGrows ==
  ASSUME NEW p \in Int, NEW q \in Int, p <= q
  PROVE  LossBudget(p) <= LossBudget(q) /\ LossBudget(p) \in Int /\ LossBudget(q) \in Int
  <1>1. Budget \in Int  BY AutopilotAssumption
  <1> QED BY <1>1 DEF LossBudget

RowSame(b) == /\ status'[b] = status[b] /\ stake'[b] = stake[b] /\ result'[b] = result[b]

\* What may become of a row that moves, seen from the budget.
RowMoved(b) ==
    \/ status[b] \notin {"confirmed", "closed", "closed-external"}
       /\ status'[b] \notin {"confirmed", "closed", "closed-external"}
    \/ status[b] = "pending" /\ status'[b] = "confirmed" /\ stake'[b] = stake[b]
       /\ \E w \in Workers : ConfirmOpen(w) /\ b = tick[w].cur
    \/ status[b] = "confirmed" /\ status'[b] \in {"closed", "closed-external"}
       /\ result'[b] >= -stake[b]
    \/ status[b] = "confirmed" /\ status'[b] = "failed"
    \/ status[b] = "closed" /\ status'[b] = "closed" /\ result'[b] >= result[b]

LEMMA CasMoves ==
  ASSUME RowTypes, NEW b \in Bets, CasClose(b), UNCHANGED stake
  PROVE  (\A c \in Bets : c # b => RowSame(c)) /\ (RowSame(b) \/ RowMoved(b))
  <1>1. CASE status[b] = "confirmed"
    <2>1. PICK x \in Results(b) : result' = [result EXCEPT ![b] = x]  BY <1>1 DEF CasClose
    <2>2. status' = [status EXCEPT ![b] = "closed"]  BY <1>1 DEF CasClose
    <2>3. stake[b] \in Nat /\ Gain \in Nat
      <3>1. Budget \in Nat /\ Gain \in Nat  BY AutopilotAssumption
      <3> QED BY <3>1 DEF RowTypes
    <2>4. x >= -stake[b]  BY <2>1, <2>3 DEF Results
    <2>5. status'[b] = "closed" /\ result'[b] = x  BY <2>1, <2>2 DEF RowTypes
    <2>6. \A c \in Bets : c # b => RowSame(c)  BY <2>1, <2>2 DEF RowTypes, RowSame
    <2> QED BY <1>1, <2>4, <2>5, <2>6 DEF RowMoved
  <1>2. CASE status[b] # "confirmed"  BY <1>2 DEF CasClose, RowSame
  <1> QED BY <1>1, <1>2

LEMMA OneRowAtATime ==
  ASSUME TypeInv, TickShape, [Next]_vars, orderly'
  PROVE  /\ orderly
         /\ \/ \A c \in Bets : RowSame(c)
            \/ \E b \in Bets : /\ \A c \in Bets : c # b => RowSame(c)
                               /\ RowMoved(b)
  <1>0. TypeOK /\ RowTypes  BY TypeParts DEF TypeInv
  <1> DEFINE Goal == \/ \A c \in Bets : RowSame(c)
                     \/ \E b \in Bets : /\ \A c \in Bets : c # b => RowSame(c)
                                        /\ RowMoved(b)
  <1>1. ASSUME NEW w \in Workers, TickStep(w) PROVE orderly /\ Goal
    <2> DEFINE b == tick[w].cur
    <2>1. orderly  BY <1>1, SessionSteps DEF UseCached
    <2>2. CASE ConfirmExit(w) \/ ConfirmRescue(w)
      <3>1. b \in Bets
        <4>1. tick[w].pc \in {"closing", "rescue"}  BY <2>2 DEF ConfirmExit, ConfirmRescue, At
        <4> QED BY <4>1 DEF TickShape, ShapeOf
      <3>2. CasClose(b) /\ UNCHANGED stake  BY <2>2 DEF ConfirmExit, ConfirmRescue
      <3> HIDE DEF b
      <3> QED BY <1>0, <2>1, <3>1, <3>2, CasMoves
    <2>3. ASSUME NEW m \in Markets, RecordOpen(w, m) PROVE orderly /\ Goal
      <3> DEFINE n == Min(Unused)
                 s == ComputeStake(Remaining(w))
      <3>1. n \in Bets /\ status[n] = "none"  BY <2>3, FreshRow DEF RecordOpen
      <3>2. status' = [status EXCEPT ![n] = "pending"] /\ stake' = [stake EXCEPT ![n] = s] /\ result' = result
        BY <2>3 DEF RecordOpen
      <3> HIDE DEF n, s
      <3>3. \A c \in Bets : c # n => RowSame(c)  BY <1>0, <3>2 DEF RowTypes, RowSame
      <3>4. RowMoved(n)  BY <1>0, <3>1, <3>2 DEF RowTypes, RowMoved
      <3> QED BY <2>1, <3>1, <3>3, <3>4
    <2>4. CASE ConfirmOpen(w)
      <3>1. b \in Bets /\ status[b] = "pending"  BY <2>4 DEF ConfirmOpen, TickShape, ShapeOf, At
      <3>2. status' = status \/ status' = [status EXCEPT ![b] = "confirmed"]  BY <2>4 DEF ConfirmOpen
      <3>3. stake' = stake /\ result' = result  BY <2>4 DEF ConfirmOpen
      <3>4. CASE status' = status  BY <2>1, <3>3, <3>4 DEF RowSame
      <3>5. CASE status' = [status EXCEPT ![b] = "confirmed"]
        <4>1. \A c \in Bets : c # b => RowSame(c)  BY <1>0, <3>3, <3>5 DEF RowTypes, RowSame
        <4>2. RowMoved(b)
          <5>1. status'[b] = "confirmed"  BY <1>0, <3>1, <3>5 DEF RowTypes
          <5> QED BY <2>4, <3>1, <3>3, <5>1 DEF RowMoved
        <4> QED BY <2>1, <3>1, <4>1, <4>2
      <3> QED BY <3>2, <3>4, <3>5
    <2>5. CASE UNCHANGED rowVars  BY <2>1, <2>5 DEF rowVars, RowSame
    <2> QED BY <1>1, <2>2, <2>3, <2>4, <2>5, RowSteps
  <1>2. ASSUME NEW w \in Workers, Crash(w) PROVE orderly /\ Goal
    BY <1>2 DEF Crash, rowVars, RowSame
  <1>3. CASE Outside
    <2>1. ASSUME NEW b \in Bets, Reap(b) \/ SweepFailsOpen(b) PROVE orderly /\ Goal
      <3>1. \A c \in Bets : c # b => RowSame(c)
        BY <1>0, <2>1 DEF Reap, SweepFailsOpen, RowTypes, RowSame
      <3>2. RowMoved(b)  BY <1>0, <2>1 DEF Reap, SweepFailsOpen, RowTypes, RowMoved
      <3>3. orderly  BY <2>1 DEF Reap, SweepFailsOpen
      <3> QED BY <3>1, <3>2, <3>3
    <2>2. ASSUME NEW b \in Bets, SweepExpires(b) PROVE orderly /\ Goal
      <3>1. \A c \in Bets : c # b => RowSame(c)
        BY <1>0, <2>2 DEF SweepExpires, RowTypes, RowSame
      <3>2. status[b] = "confirmed" /\ status'[b] = "closed-external" /\ result'[b] = -stake[b]
        BY <1>0, <2>2 DEF SweepExpires, RowTypes
      <3>3. -stake[b] \in Int
        <4>1. Budget \in Nat  BY AutopilotAssumption
        <4> QED BY <1>0, <4>1 DEF RowTypes
      <3>4. RowMoved(b)  BY <3>2, <3>3 DEF RowMoved
      <3>5. orderly  BY <2>2 DEF SweepExpires
      <3> QED BY <3>1, <3>4, <3>5
    <2>3. ASSUME NEW b \in Bets, SweepPrices(b) PROVE orderly /\ Goal
      <3>1. PICK x \in Results(b) : result' = [result EXCEPT ![b] = x] /\ orderly' = (orderly /\ x >= result[b])
        BY <2>3 DEF SweepPrices
      <3>2. status' = status /\ stake' = stake /\ status[b] = "closed"  BY <2>3 DEF SweepPrices
      <3>3. orderly /\ x >= result[b]  BY <3>1
      <3>4. \A c \in Bets : c # b => RowSame(c)  BY <1>0, <3>1, <3>2 DEF RowTypes, RowSame
      <3>5. result'[b] = x  BY <1>0, <3>1 DEF RowTypes
      <3>6. RowMoved(b)  BY <3>2, <3>3, <3>5 DEF RowMoved
      <3> QED BY <3>3, <3>4, <3>6
    <2>4. ASSUME NEW b \in Bets PROVE ~SweepReopens(b)  BY DEF SweepReopens
    <2>5. CASE VenueStep \/ ClaimExpires \/ StopSession
      <3>1. UNCHANGED <<rowVars, orderly>>
        BY <2>5 DEF VenueStep, ClaimExpires, StopSession, OpenResolves, CloseResolves, DiesOutside
      <3> QED BY <3>1 DEF rowVars, RowSame
    <2> QED BY <1>3, <2>1, <2>2, <2>3, <2>4, <2>5 DEF Outside, SweepStep
  <1>4. CASE UNCHANGED vars  BY <1>4 DEF vars, rowVars, RowSame
  <1> QED BY <1>1, <1>2, <1>3, <1>4, NextCases

\* No step takes from what open bets leave free, but the confirm of an open, which
\* takes its stake.
LEMMA HeadroomGrows ==
  ASSUME TypeInv, TypeInv', TickShape, [Next]_vars, orderly'
  PROVE  /\ Headroom \in Int /\ Headroom' \in Int
         /\ orderly
         /\ \/ Headroom' >= Headroom
            \/ \E w \in Workers :
                  /\ ConfirmOpen(w) /\ status[tick[w].cur] = "pending"
                  /\ status'[tick[w].cur] = "confirmed"
                  /\ Headroom' = Headroom - stake[tick[w].cur]
  <1>0. TypeOK /\ TypeOK' /\ RowTypes /\ RowTypes'
    BY TypeParts, RowTypesKept DEF TypeInv
  <1>1. Budget \in Nat /\ Gain \in Nat  BY AutopilotAssumption
  <1>2. Realized \in Int /\ Realized' \in Int /\ Losing(Open) \in Int /\ Losing(Open)' \in Int
    BY <1>0, Totals, TotalsLater
  <1>3. /\ Headroom = LossBudget(Realized) - Losing(Open)
        /\ Headroom' = LossBudget(Realized') - Losing(Open)'
    BY DEF Headroom, Open, LossBudget
  <1>4. Headroom \in Int /\ Headroom' \in Int  BY <1>1, <1>2, <1>3 DEF LossBudget
  <1>5. orderly  BY OneRowAtATime
  <1>6. CASE \A c \in Bets : RowSame(c)
    <2>1. Losing(Open)' = Losing(Open) /\ Realized' = Realized
      BY <1>0, <1>6, NoRowMoves DEF RowSame
    <2> QED BY <1>3, <1>4, <1>5, <2>1
  <1>7. ASSUME NEW b \in Bets, \A c \in Bets : c # b => RowSame(c), RowMoved(b)
        PROVE  \/ Headroom' >= Headroom
               \/ \E w \in Workers :
                  /\ ConfirmOpen(w) /\ status[tick[w].cur] = "pending"
                  /\ status'[tick[w].cur] = "confirmed"
                  /\ Headroom' = Headroom - stake[tick[w].cur]
    <2>1. PICK lost \in Int, earned \in Int :
            /\ Losing(Open) = lost + (IF status[b] = "confirmed" THEN stake[b] ELSE 0)
            /\ Losing(Open)' = lost + (IF status'[b] = "confirmed" THEN stake'[b] ELSE 0)
            /\ Realized = earned + (IF b \in Closed THEN result[b] ELSE 0)
            /\ Realized' = earned + (IF b \in Closed' THEN result'[b] ELSE 0)
      BY <1>0, <1>7, OneRowMoves DEF RowSame
    <2>2. /\ b \in Closed <=> status[b] \in {"closed", "closed-external"}
          /\ b \in Closed' <=> status'[b] \in {"closed", "closed-external"}
      BY DEF Closed, RowsIn
    <2>3. stake[b] \in Nat /\ result[b] \in Int /\ result'[b] \in Int /\ stake'[b] \in Nat
      BY <1>0, <1>1 DEF RowTypes
    <2>4. CASE status[b] \notin {"confirmed", "closed", "closed-external"}
               /\ status'[b] \notin {"confirmed", "closed", "closed-external"}
      <3>1. Losing(Open)' = Losing(Open) /\ Realized' = Realized  BY <2>1, <2>2, <2>4
      <3> QED BY <1>3, <1>4, <3>1
    <2>5. CASE status[b] = "pending" /\ status'[b] = "confirmed" /\ stake'[b] = stake[b]
               /\ \E w \in Workers : ConfirmOpen(w) /\ b = tick[w].cur
      <3>1. Losing(Open)' = Losing(Open) + stake[b] /\ Realized' = Realized
        BY <2>1, <2>2, <2>3, <2>5
      <3>2. LossBudget(Realized') = LossBudget(Realized) /\ LossBudget(Realized) \in Int
        BY <1>1, <1>2, <3>1 DEF LossBudget
      <3>3. Headroom' = Headroom - stake[b]  BY <1>2, <1>3, <2>3, <3>1, <3>2
      <3> QED BY <2>5, <3>3
    <2>6. CASE status[b] = "confirmed" /\ status'[b] \in {"closed", "closed-external"}
               /\ result'[b] >= -stake[b]
      <3>1. Losing(Open)' = Losing(Open) - stake[b] /\ Realized' = Realized + result'[b]
        BY <2>1, <2>2, <2>3, <2>6
      <3>2. LossBudget(Realized') >= LossBudget(Realized) - stake[b]
        BY <1>1, <1>2, <2>3, <2>6, <3>1 DEF LossBudget
      <3>3. LossBudget(Realized') \in Int /\ LossBudget(Realized) \in Int
        BY <1>1, <1>2 DEF LossBudget
      <3> QED BY <1>2, <1>3, <2>3, <3>1, <3>2, <3>3
    <2>7. CASE status[b] = "confirmed" /\ status'[b] = "failed"
      <3>1. Losing(Open)' = Losing(Open) - stake[b] /\ Realized' = Realized
        BY <2>1, <2>2, <2>3, <2>7
      <3>2. LossBudget(Realized) \in Int  BY <1>1, <1>2 DEF LossBudget
      <3> QED BY <1>2, <1>3, <2>3, <3>1, <3>2
    <2>8. CASE status[b] = "closed" /\ status'[b] = "closed" /\ result'[b] >= result[b]
      <3>1. Losing(Open)' = Losing(Open) /\ Realized' >= Realized
        BY <2>1, <2>2, <2>3, <2>8
      <3>2. /\ LossBudget(Realized) <= LossBudget(Realized')
            /\ LossBudget(Realized') \in Int /\ LossBudget(Realized) \in Int
        BY <1>2, <3>1, LossBudgetGrows
      <3> QED BY <1>2, <1>3, <3>1, <3>2
    <2> QED BY <1>7, <2>4, <2>5, <2>6, <2>7, <2>8 DEF RowMoved
  <1> QED BY <1>4, <1>5, <1>6, <1>7, OneRowAtATime

\* The phases in which a tick relies on what it read.
Reading == {"exit", "closing", "phase", "entry", "send"}

\* How a tick comes to be, or stays, in such a phase.
ReadOn(v) ==
    \/ Claim(v) /\ tick'[v].pc = "exit" /\ tick'[v].seen = Open
    \/ ConfirmExit(v) /\ tick[v].pc = "closing" /\ tick'[v].pc = "exit"
       /\ tick'[v].seen = tick[v].seen \ {tick[v].cur}
    \/ (Recompute(v) \/ UseCached(v)) /\ tick[v].pc = "exit" /\ tick'[v].pc = "phase"
       /\ tick'[v].seen = tick[v].seen
       /\ \/ tick'[v].pnl = Realized
          \/ tick'[v].pnl = 0 /\ (orderly' => Realized = 0)
    \/ /\ tick[v].pc \in Reading
       /\ tick'[v].seen = tick[v].seen /\ tick'[v].pnl = tick[v].pnl
       /\ \/ tick'[v].pc \in {"exit", "closing"} /\ tick[v].pc \in {"exit", "closing"}
          \/ tick'[v].pc = "phase" /\ tick[v].pc = "phase"
          \/ ReadWallet(v) /\ tick[v].pc = "phase" /\ tick'[v].pc = "entry"
             /\ tick'[v].wallet = WalletMarkets
          \/ tick'[v].pc \in {"entry", "send"} /\ tick[v].pc \in {"entry", "send"}
             /\ tick'[v].wallet = tick[v].wallet
             /\ \/ tick'[v] = tick[v] \/ tick'[v].pc = "entry"
                \/ \E m \in Markets : RecordOpen(v, m)

LEMMA ReadMoves ==
  ASSUME TypeInv, OneTick, [Next]_vars, NEW v \in Workers, tick'[v].pc \in Reading
  PROVE  ReadOn(v)
  <1>0. TickTypes  BY TypeParts DEF TypeInv
  <1>1. CASE tick'[v] = tick[v]  BY <1>1 DEF ReadOn, Reading
  <1>2. ASSUME NEW w \in Workers, TickStep(w), tick'[v] # tick[v] PROVE ReadOn(v)
    <2>0. w = v /\ TickStep(v) /\ tick[v] \in Ticks
      BY <1>0, <1>2, OthersIdle DEF ClaimInVain, TickTypes
    <2>1. ASSUME Claim(v) PROVE ReadOn(v)
      <3>1. tick'[v].pc = "exit" /\ tick'[v].seen = Open
        BY <1>0, <2>1 DEF Claim, TickTypes, Ticks, Open
      <3> QED BY <2>1, <3>1 DEF ReadOn
    <2>2. ASSUME NEW c \in Bets, SendExit(v, c) \/ StayIn(v, c) \/ ExitThrows(v, c) PROVE ReadOn(v)
      <3>1. /\ tick[v].pc = "exit" /\ tick'[v].pc \in {"exit", "closing"}
            /\ tick'[v].seen = tick[v].seen /\ tick'[v].pnl = tick[v].pnl
        BY <1>0, <2>2 DEF SendExit, StayIn, ExitThrows, TickTypes, Ticks, At
      <3> QED BY <3>1 DEF ReadOn, Reading
    <2>3. ASSUME ConfirmExit(v) PROVE ReadOn(v)
      <3>1. /\ tick[v].pc = "closing" /\ tick'[v].pc = "exit"
            /\ tick'[v].seen = tick[v].seen \ {tick[v].cur}
        BY <1>0, <2>3 DEF ConfirmExit, TickTypes, Ticks, At
      <3> QED BY <2>3, <3>1 DEF ReadOn
    <2>4. ASSUME ConfirmExitThrows(v) PROVE ReadOn(v)
      <3>1. /\ tick[v].pc = "closing" /\ tick'[v].pc = "exit"
            /\ tick'[v].seen = tick[v].seen /\ tick'[v].pnl = tick[v].pnl
        BY <1>0, <2>4 DEF ConfirmExitThrows, TickTypes, Ticks, At
      <3> QED BY <3>1 DEF ReadOn, Reading
    <2>5. ASSUME Recompute(v) PROVE ReadOn(v)
      <3>1. /\ tick[v].pc = "exit" /\ tick'[v].pc = "phase"
            /\ tick'[v].seen = tick[v].seen /\ tick'[v].pnl = Realized
        BY <1>0, <2>5 DEF Recompute, TickTypes, Ticks, At
      <3> QED BY <2>5, <3>1 DEF ReadOn
    <2>6. ASSUME UseCached(v) PROVE ReadOn(v)
      <3>1. /\ tick[v].pc = "exit" /\ tick'[v].pc = "phase"
            /\ tick'[v].seen = tick[v].seen /\ tick'[v].pnl = 0
        BY <1>0, <2>6 DEF UseCached, TickTypes, Ticks, At
      <3>2. orderly' => Realized = 0  BY <2>6 DEF UseCached
      <3> QED BY <2>6, <3>1, <3>2 DEF ReadOn
    <2>7. ASSUME ReadWallet(v) PROVE ReadOn(v)
      <3>1. /\ tick[v].pc = "phase" /\ tick'[v].pc = "entry" /\ tick'[v].wallet = WalletMarkets
            /\ tick'[v].seen = tick[v].seen /\ tick'[v].pnl = tick[v].pnl
        BY <1>0, <2>7 DEF ReadWallet, TickTypes, Ticks, At
      <3> QED BY <2>7, <3>1 DEF ReadOn, Reading
    <2>8. ASSUME NEW m \in Markets, RecordOpen(v, m) PROVE ReadOn(v)
      <3>1. /\ tick[v].pc = "entry" /\ tick'[v].pc = "send" /\ tick'[v].wallet = tick[v].wallet
            /\ tick'[v].seen = tick[v].seen /\ tick'[v].pnl = tick[v].pnl
        BY <1>0, <2>8 DEF RecordOpen, TickTypes, Ticks, At
      <3> QED BY <2>8, <3>1 DEF ReadOn, Reading
    <2>9. ASSUME SendThrows(v) PROVE ReadOn(v)
      <3>1. /\ tick[v].pc = "send" /\ tick'[v].pc = "entry" /\ tick'[v].wallet = tick[v].wallet
            /\ tick'[v].seen = tick[v].seen /\ tick'[v].pnl = tick[v].pnl
        BY <1>0, <2>9 DEF SendThrows, TickTypes, Ticks, At
      <3> QED BY <3>1 DEF ReadOn, Reading
    <2>10. ASSUME SendOpen(v) \/ SendRescue(v) \/ ConfirmOpen(v) PROVE FALSE
      <3>1. tick'[v].pc \in {"confirm", "rescue", "stop"}
        BY <1>0, <2>10 DEF SendOpen, SendRescue, ConfirmOpen, Go, NoTick, TickTypes, Ticks
      <3> QED BY <3>1 DEF Reading
    <2>11. ASSUME EndSession(v) \/ EndThrows(v) \/ SkipEntries(v) \/ EndEntries(v)
                    \/ StopOrGiveUp(v) \/ ConfirmRescue(v)
           PROVE  FALSE
      <3>1. Done(v)
        BY <2>11 DEF EndSession, EndThrows, SkipEntries, EndEntries, StopOrGiveUp, ConfirmRescue, Finish
      <3>2. tick'[v].pc = "idle"  BY <1>0, <3>1 DEF Done, NoTick, TickTypes
      <3> QED BY <3>2 DEF Reading
    <2>12. ~ClaimInVain(v)  BY <1>2, <2>0 DEF ClaimInVain
    <2> QED BY <2>0, <2>1, <2>2, <2>3, <2>4, <2>5, <2>6, <2>7, <2>8, <2>9, <2>10, <2>11, <2>12
          DEF TickStep, ExitPass, Entry
  <1>3. ASSUME NEW w \in Workers, Crash(w) PROVE ReadOn(v)
    <2>1. v # w
      BY <1>0, <1>3 DEF Crash, Done, NoTick, TickTypes, Reading
    <2>2. tick'[v] = tick[v]  BY <1>0, <1>3, <2>1 DEF Crash, Done, TickTypes
    <2> QED BY <1>1, <2>2
  <1>4. CASE Outside  BY <1>1, <1>4, OutsideLeavesTicks
  <1>5. CASE UNCHANGED vars  BY <1>1, <1>5 DEF vars
  <1> QED BY <1>1, <1>2, <1>3, <1>4, <1>5, NextCases

LEMMA NoConfirmWhileReading ==
  ASSUME TypeInv, OneTick, NEW w \in Workers, ConfirmOpen(w), NEW v \in Workers
  PROVE  tick'[v].pc \notin Reading
  <1>0. TickTypes  BY TypeParts DEF TypeInv
  <1>1. CASE v = w
    <2>1. tick'[v].pc = "stop"  BY <1>0, <1>1 DEF ConfirmOpen, NoTick, TickTypes
    <2> QED BY <2>1 DEF Reading
  <1>2. CASE v # w
    <2>1. TickStep(w) /\ ~ClaimInVain(w)  BY DEF TickStep, Entry, ConfirmOpen, ClaimInVain, At
    <2>2. tick'[v].pc = "idle"  BY <1>2, <2>1, OthersIdle DEF At
    <2> QED BY <2>2 DEF Reading
  <1> QED BY <1>1, <1>2

\* As long as nothing is reopened, bets become open by the confirm of an open alone.
LEMMA OpenShrinks ==
  ASSUME TypeInv, OneTick, [Next]_vars, orderly'
  PROVE  \/ Open' \subseteq Open
         \/ \E w \in Workers : ConfirmOpen(w)
  <1>0. RowTypes  BY TypeParts DEF TypeInv
  <1>1. \A b \in Bets : ~SweepReopens(b)  BY DEF SweepReopens
  <1> QED BY <1>0, <1>1, SettledStays DEF Open, RowsIn

LEMMA SeenIsOpenKept ==
  ASSUME TypeInv, OneTick, TickShape, SeenIsOpen, [Next]_vars, orderly, orderly',
         NEW v \in Workers, tick'[v].pc \in Reading
  PROVE  Open' \subseteq tick'[v].seen
  <1>0. RowTypes  BY TypeParts DEF TypeInv
  <1>1. Open' \subseteq Open  BY NoConfirmWhileReading, OpenShrinks
  <1>2. tick[v].pc \in Reading => Open \subseteq tick[v].seen  BY DEF SeenIsOpen, Open, Reading
  <1>3. CASE ConfirmExit(v) /\ tick[v].pc = "closing" /\ tick'[v].seen = tick[v].seen \ {tick[v].cur}
    <2> DEFINE b == tick[v].cur
    <2>1. b \in Bets  BY <1>3 DEF TickShape, ShapeOf
    <2>2. CasClose(b)  BY <1>3 DEF ConfirmExit
    <2>3. status'[b] # "confirmed"  BY <1>0, <2>1, <2>2 DEF CasClose, RowTypes
    <2>4. b \notin Open'  BY <2>3 DEF Open, RowsIn
    <2> QED BY <1>1, <1>2, <1>3, <2>4 DEF Reading
  <1> QED BY <1>1, <1>2, <1>3, ReadMoves DEF ReadOn, Reading

LEMMA StakeStays ==
  ASSUME RowTypes, [Next]_vars, NEW b \in Bets, status[b] # "none"
  PROVE  stake'[b] = stake[b]
  <1>1. ASSUME NEW w \in Workers, NEW m \in Markets, RecordOpen(w, m), b = Min(Unused) PROVE FALSE
    BY <1>1, FreshRow DEF RecordOpen
  <1>2. ASSUME NEW w \in Workers, ConfirmOpen(w) \/ ConfirmExit(w) \/ ConfirmRescue(w)
        PROVE  stake' = stake
    BY <1>2 DEF ConfirmOpen, ConfirmExit, ConfirmRescue
  <1>3. CASE Reap(b) \/ SweepFailsOpen(b) \/ SweepExpires(b) \/ SweepPrices(b) \/ SweepReopens(b)
    BY <1>3 DEF Reap, SweepFailsOpen, SweepExpires, SweepPrices, SweepReopens
  <1> QED BY <1>1, <1>2, <1>3, RowMoves

\* A tick that goes on finds as much left as before.
LEMMA RemainingStays ==
  ASSUME TypeInv, TypeInv', TickShape, [Next]_vars, NEW v \in Workers,
         tick'[v].seen = tick[v].seen, tick'[v].pnl = tick[v].pnl
  PROVE  Remaining(v)' = Remaining(v)
  <1>0. TypeOK /\ TypeOK' /\ RowTypes  BY TypeParts DEF TypeInv
  <1> DEFINE S == tick[v].seen
  <1>1. S \in SUBSET Bets /\ \A b \in S : status[b] \in Settled
    BY DEF TickShape, ShapeOf, RowsIn
  <1>2. ASSUME NEW b \in S PROVE stake'[b] = stake[b]
    <2>1. b \in Bets /\ status[b] # "none"  BY <1>1 DEF Settled
    <2> QED BY <1>0, <2>1, StakeStays
  <1>3. IsFiniteSet(S)  BY <1>1, RowsFinite
  <1>4. SumOver(stake', S) = SumOver(stake, S)  BY <1>2, <1>3, SumSame
  <1>5. Remaining(v) = LossBudget(tick[v].pnl) - SumOver(stake, S)
    BY <1>0, <1>1, LosingType DEF Remaining
  <1>6. Remaining(v)' = LossBudget(tick'[v].pnl) - SumOver(stake', tick'[v].seen)
    <2>1. Losing(tick[v].seen)' = SumOver(stake', tick'[v].seen)
      BY DEF Losing, SumOver, MapThenSumSet, MapThenFoldSet
    <2> QED BY <2>1 DEF Remaining, LossBudget
  <1> QED BY <1>4, <1>5, <1>6

LEMMA HeadroomKept ==
  ASSUME TypeInv, TypeInv', OneTick, TickShape, [Next]_vars, orderly',
         NEW v \in Workers, tick'[v].pc \in Reading
  PROVE  Headroom \in Int /\ Headroom' \in Int /\ Headroom <= Headroom'
  BY HeadroomGrows, NoConfirmWhileReading

LEMMA RemainingIsFreeKept ==
  ASSUME TypeInv, TypeInv', OneTick, TickShape, SeenIsOpen, RemainingIsFree, [Next]_vars,
         orderly, orderly', NEW v \in Workers, tick'[v].pc \in {"phase", "entry", "send"}
  PROVE  Remaining(v)' <= Headroom'
  <1>0. TypeOK /\ TypeOK' /\ TickTypes  BY TypeParts DEF TypeInv
  <1>1. Headroom \in Int /\ Headroom' \in Int /\ Headroom <= Headroom'
    BY HeadroomKept DEF Reading
  <1>2. CASE /\ tick[v].pc \in {"phase", "entry", "send"}
             /\ tick'[v].seen = tick[v].seen /\ tick'[v].pnl = tick[v].pnl
    <2>1. Remaining(v)' = Remaining(v) /\ Remaining(v) \in Int
      BY <1>0, <1>2, RemainingStays, RemainingType
    <2>2. Remaining(v) <= Headroom  BY <1>2 DEF RemainingIsFree
    <2> QED BY <1>1, <2>1, <2>2
  <1>3. CASE /\ Recompute(v) \/ UseCached(v)
             /\ tick[v].pc = "exit" /\ tick'[v].seen = tick[v].seen
             /\ \/ tick'[v].pnl = Realized
                \/ tick'[v].pnl = 0 /\ (orderly' => Realized = 0)
    <2> DEFINE S == tick[v].seen
    <2>1. tick'[v].pnl = Realized  BY <1>3
    <2>2. Open \in SUBSET S /\ S \in SUBSET Bets
      BY <1>0, <1>3 DEF SeenIsOpen, Open, TickTypes, Ticks
    <2>3. Losing(Open) <= Losing(S) /\ Losing(S) \in Nat /\ Losing(Open) \in Nat
      <3>1. IsFiniteSet(S) /\ \A b \in S : stake[b] \in Nat
        <4>1. Budget \in Nat  BY AutopilotAssumption
        <4> QED BY <1>0, <2>2, <4>1, RowsFinite DEF TypeOK
      <3>2. SumOver(stake, Open) <= SumOver(stake, S)  BY <2>2, <3>1, SumSubset
      <3>3. Losing(Open) = SumOver(stake, Open) /\ Losing(S) = SumOver(stake, S)
            /\ Losing(S) \in Nat /\ Losing(Open) \in Nat
        BY <1>0, <2>2, LosingType
      <3> QED BY <3>2, <3>3
    <2>4. Remaining(v)' = LossBudget(Realized) - Losing(S)
      <3>1. SumOver(stake', S) = SumOver(stake, S)
        <4>1. stake' = stake  BY <1>3 DEF Recompute, UseCached, rowVars
        <4> QED BY <4>1
      <3>2. Losing(tick[v].seen)' = SumOver(stake', tick'[v].seen)
        BY DEF Losing, SumOver, MapThenSumSet, MapThenFoldSet
      <3>3. Losing(S) = SumOver(stake, S)  BY <1>0, <2>2, LosingType
      <3>4. Remaining(v)' = LossBudget(tick'[v].pnl) - Losing(tick[v].seen)'
        BY DEF Remaining, LossBudget
      <3> QED BY <1>3, <2>1, <3>1, <3>2, <3>3, <3>4
    <2>5. LossBudget(Realized) \in Int
      <3>1. Budget \in Nat  BY AutopilotAssumption
      <3> QED BY <1>0, <3>1, Totals DEF LossBudget
    <2>6. Headroom = LossBudget(Realized) - Losing(Open)  BY DEF Headroom, Open
    <2> HIDE DEF S
    <2> QED BY <1>1, <2>3, <2>4, <2>5, <2>6
  <1> QED BY <1>2, <1>3, ReadMoves DEF ReadOn, Reading

LEMMA NoStakeNoBet ==
  ASSUME TypeOK, Losing(Open) <= 0
  PROVE  Open = {}
  <1> SUFFICES ASSUME NEW b \in Open PROVE FALSE
    OBVIOUS
  <1>1. Budget \in Nat /\ StakeMin \in Nat /\ StakeMin >= 1  BY AutopilotAssumption
  <1>2. Open \in SUBSET Bets /\ b \in Bets /\ status[b] = "confirmed"  BY DEF Open, RowsIn
  <1>3. IsFiniteSet(Open) /\ \A c \in Open : stake[c] \in Nat
    BY <1>1, <1>2, RowsFinite DEF TypeOK
  <1>4. SumOver(stake, {b}) <= SumOver(stake, Open)  BY <1>2, <1>3, SumSubset
  <1>5. SumOver(stake, {b}) = stake[b]  BY <1>3, SumOfOne
  <1>6. stake[b] >= 1 /\ stake[b] \in Nat  BY <1>1, <1>2, <1>3 DEF TypeOK
  <1>7. Losing(Open) = SumOver(stake, Open) /\ Losing(Open) \in Nat  BY <1>2, LosingType
  <1> QED BY <1>4, <1>5, <1>6, <1>7

LEMMA NothingLeftIsFlatKept ==
  ASSUME TypeInv, TypeInv', OneTick, TickShape, DoubtsFit, NothingLeftIsFlat, [Next]_vars,
         orderly, orderly', NEW v \in Workers, tick'[v].pc = "phase", LossBudget(tick'[v].pnl) <= 0
  PROVE  Open' = {}
  <1>0. TypeOK /\ TypeOK'  BY DEF TypeInv
  <1>1. Open' \subseteq Open  BY NoConfirmWhileReading, OpenShrinks DEF Reading
  <1>2. CASE tick[v].pc = "phase" /\ tick'[v].pnl = tick[v].pnl
    BY <1>1, <1>2 DEF NothingLeftIsFlat, Open, At
  <1>3. CASE tick'[v].pnl = Realized
    <2>1. Realized \in Int /\ Losing(Open) \in Nat /\ Losing(InDoubt) \in Nat  BY <1>0, Totals
    <2>2. LossBudget(Realized) <= 0 /\ LossBudget(Realized) \in Int
      <3>1. Budget \in Nat  BY AutopilotAssumption
      <3> QED BY <1>3, <2>1, <3>1 DEF LossBudget
    <2>3. Losing(InDoubt) <= LossBudget(Realized) - Losing(Open)  BY DEF DoubtsFit, Headroom, Open
    <2>4. Losing(Open) <= 0  BY <2>1, <2>2, <2>3
    <2> QED BY <1>0, <1>1, <2>4, NoStakeNoBet
  <1> QED BY <1>2, <1>3, ReadMoves DEF ReadOn, Reading

LEMMA ExhaustedConfirmsNoneKept ==
  ASSUME TypeInv, OneTick, NothingLeftIsFlat, ExhaustedConfirmsNone, [Next]_vars,
         orderly, orderly', session' = "exhausted"
  PROVE  Open' = {}
  <1>1. CASE session = "exhausted"
    <2>1. Ticking = {}  BY <1>1 DEF OneTick
    <2>2. \A w \in Workers : ~ConfirmOpen(w)  BY <2>1 DEF ConfirmOpen, At, Ticking
    <2> QED BY <1>1, <2>2, OpenShrinks DEF ExhaustedConfirmsNone, Open
  <1>2. CASE session # "exhausted"
    <2>1. PICK w \in Workers : EndSession(w)
      <3>1. ASSUME NEW w \in Workers, TickStep(w) PROVE EndSession(w)
        BY <1>2, <3>1, SessionSteps
      <3>2. ASSUME NEW w \in Workers, Crash(w) PROVE FALSE
        BY <1>2, <3>2 DEF Crash, sessionVars
      <3>3. CASE Outside
        BY <1>2, <3>3 DEF Outside, VenueStep, SweepStep, ClaimExpires, StopSession, OpenResolves,
          CloseResolves, DiesOutside, Reap, SweepFailsOpen, SweepExpires, SweepPrices,
          SweepReopens, sessionVars
      <3>4. CASE UNCHANGED vars  BY <1>2, <3>4 DEF vars, sessionVars
      <3> QED BY <3>1, <3>2, <3>3, <3>4, NextCases
    <2>2. Phase(tick[w].pnl) = "exhausted"  BY <1>2, <2>1 DEF EndSession
    <2>3. LossBudget(tick[w].pnl) <= 0  BY <2>2 DEF Phase
    <2>4. Open = {}  BY <2>1, <2>3 DEF EndSession, NothingLeftIsFlat, Open
    <2>5. Open' = Open  BY <2>1 DEF EndSession, rowVars, Open, RowsIn
    <2> QED BY <2>4, <2>5
  <1> QED BY <1>1, <1>2

\* How a row gets into a tick's hand.
LEMMA CurMoves ==
  ASSUME TypeInv, [Next]_vars, NEW v \in Workers
  PROVE  \/ tick'[v].cur = tick[v].cur \/ tick'[v].cur = 0
         \/ \E c \in tick[v].todo : SendExit(v, c) /\ tick'[v].cur = c
         \/ \E m \in Markets : RecordOpen(v, m) /\ tick'[v].cur = Min(Unused)
  <1>0. TickTypes  BY TypeParts DEF TypeInv
  <1>1. ASSUME NEW w \in Workers, TickStep(w)
        PROVE  \/ tick'[v].cur = tick[v].cur \/ tick'[v].cur = 0
               \/ \E c \in tick[v].todo : SendExit(v, c) /\ tick'[v].cur = c
               \/ \E m \in Markets : RecordOpen(v, m) /\ tick'[v].cur = Min(Unused)
    <2>0. tick[w] \in Ticks  BY <1>0 DEF TickTypes
    <2>1. CASE Claim(w) \/ ClaimInVain(w) \/ ConfirmExit(w) \/ ConfirmExitThrows(w)
      BY <1>0, <2>0, <2>1 DEF Claim, ClaimInVain, ConfirmExit, ConfirmExitThrows, TickTypes, Ticks
    <2>2. ASSUME NEW c \in Bets, SendExit(w, c)
          PROVE  tick'[v].cur = tick[v].cur \/ (v = w /\ c \in tick[v].todo /\ tick'[v].cur = c)
      BY <1>0, <2>0, <2>2 DEF SendExit, TickTypes, Ticks
    <2>3. ASSUME NEW c \in Bets, StayIn(w, c) \/ ExitThrows(w, c) PROVE tick'[v].cur = tick[v].cur
      BY <1>0, <2>0, <2>3 DEF StayIn, ExitThrows, TickTypes, Ticks
    <2>4. ASSUME NEW m \in Markets, RecordOpen(w, m)
          PROVE  tick'[v].cur = tick[v].cur \/ (v = w /\ tick'[v].cur = Min(Unused))
      BY <1>0, <2>0, <2>4 DEF RecordOpen, TickTypes, Ticks
    <2>5. CASE Recompute(w) \/ UseCached(w) \/ ReadWallet(w) \/ SendOpen(w) \/ SendThrows(w)
      BY <1>0, <2>0, <2>5 DEF Recompute, UseCached, ReadWallet, SendOpen, SendThrows, Go, TickTypes, Ticks
    <2>6. CASE ConfirmOpen(w)
      <3>1. tick' = [tick EXCEPT ![w] = [NoTick EXCEPT !.pc = "stop", !.cur = tick[w].cur]]
        BY <2>6 DEF ConfirmOpen
      <3>2. [NoTick EXCEPT !.pc = "stop", !.cur = tick[w].cur].cur = tick[w].cur  BY DEF NoTick
      <3> QED BY <1>0, <3>1, <3>2 DEF TickTypes
    <2>8. CASE SendRescue(w)  BY <1>0, <2>0, <2>8 DEF SendRescue, Go, TickTypes, Ticks
    <2>7. CASE EndSession(w) \/ EndThrows(w) \/ SkipEntries(w) \/ EndEntries(w)
                    \/ StopOrGiveUp(w) \/ ConfirmRescue(w)
      <3>1. Done(w)
        BY <2>7 DEF EndSession, EndThrows, SkipEntries, EndEntries, StopOrGiveUp, ConfirmRescue, Finish
      <3> QED BY <1>0, <3>1 DEF Done, NoTick, TickTypes
    <2> QED BY <1>1, <2>1, <2>2, <2>3, <2>4, <2>5, <2>6, <2>7, <2>8 DEF TickStep, ExitPass, Entry
  <1>2. ASSUME NEW w \in Workers, Crash(w) PROVE tick'[v].cur = tick[v].cur \/ tick'[v].cur = 0
    BY <1>0, <1>2 DEF Crash, Done, NoTick, TickTypes
  <1>3. CASE Outside  BY <1>3, OutsideLeavesTicks
  <1>4. CASE UNCHANGED vars  BY <1>4 DEF vars
  <1> QED BY <1>1, <1>2, <1>3, <1>4, NextCases

\* What is in hand and pending was so before, unless it is recorded in this step.
LEMMA DoubtsMoves ==
  ASSUME TypeInv, TickShape, [Next]_vars, NEW b \in InDoubt'
  PROVE  b \in InDoubt \/ \E v \in Workers, m \in Markets : RecordOpen(v, m)
  <1>0. RowTypes /\ TickTypes /\ TickTypes'  BY TypeParts, TickTypesKept DEF TypeInv
  <1>1. PICK v \in Workers : tick'[v].cur = b  BY DEF InDoubt, InHand
  <1>2. b # 0 /\ status'[b] = "pending"  BY DEF InDoubt
  <1>3. b \in Bets  BY <1>0, <1>1, <1>2, AutopilotAssumption DEF TickTypes, Ticks, Bets
  <1>4. CASE \A w \in Workers, m \in Markets : ~RecordOpen(w, m)
    <2>1. status[b] = "pending"
      <3>1. ASSUME NEW w \in Workers, ConfirmOpen(w), b = tick[w].cur PROVE status[b] = "pending"
        BY <3>1 DEF ConfirmOpen, TickShape, ShapeOf, At
      <3>2. ASSUME NEW w \in Workers, ConfirmExit(w) \/ ConfirmRescue(w), b = tick[w].cur
            PROVE  status[b] = "pending"
        BY <1>0, <1>2, <1>3, <3>2 DEF ConfirmExit, ConfirmRescue, CasClose, RowTypes
      <3>3. CASE Reap(b) \/ SweepFailsOpen(b) \/ SweepExpires(b) \/ SweepPrices(b) \/ SweepReopens(b)
        BY <1>0, <1>2, <1>3, <3>3 DEF Reap, SweepFailsOpen, SweepExpires, SweepPrices, SweepReopens, RowTypes
      <3> QED BY <1>0, <1>2, <1>3, <1>4, <3>1, <3>2, <3>3, RowMoves
    <2>2. tick[v].cur = b
      <3>1. ASSUME NEW c \in tick[v].todo, SendExit(v, c), tick'[v].cur = c PROVE FALSE
        <4>1. status[c] \in Settled  BY DEF TickShape, ShapeOf, RowsIn
        <4> QED BY <1>1, <2>1, <3>1, <4>1 DEF Settled
      <3> QED BY <1>1, <1>2, <1>4, <3>1, CurMoves
    <2> QED BY <1>2, <2>1, <2>2 DEF InDoubt, InHand
  <1> QED BY <1>4

LEMMA DoubtsFitKept ==
  ASSUME TypeInv, TypeInv', OneTick, TickShape, TickShape', DoubtsFit, RemainingIsFree, [Next]_vars,
         orderly, orderly'
  PROVE  Losing(InDoubt)' <= Headroom'
  <1>0. TypeOK /\ TypeOK' /\ RowTypes /\ TickTypes /\ TickTypes'  BY TypeParts, TickTypesKept DEF TypeInv
  <1>1. Budget \in Nat  BY AutopilotAssumption
  <1>2. /\ InDoubt \in SUBSET Bets /\ InDoubt' \in SUBSET Bets
        /\ IsFiniteSet(InDoubt) /\ IsFiniteSet(InDoubt')
    <2>1. InDoubt \in SUBSET Bets
      BY <1>0 DEF InDoubt, InHand, TickTypes, Ticks, Bets
    <2>2. InDoubt' \in SUBSET Bets
      BY <1>0 DEF InDoubt, InHand, TickTypes, Ticks, Bets
    <2> QED BY <2>1, <2>2, RowsFinite
  <1>3. Losing(InDoubt)' = SumOver(stake', InDoubt') /\ Losing(InDoubt) = SumOver(stake, InDoubt)
    BY <1>0, <1>2, SumsAreSums
  <1>4. Losing(InDoubt) <= Headroom /\ Headroom \in Int /\ Headroom' \in Int
        /\ Losing(InDoubt) \in Nat /\ Losing(InDoubt)' \in Nat
    BY <1>0, HeadroomGrows, Totals, TotalsLater DEF DoubtsFit
  <1>5. \A b \in Bets : stake[b] \in Nat /\ stake'[b] \in Nat
    <2>1. 0..Budget \subseteq Nat  BY <1>1
    <2> QED BY <1>0, <2>1 DEF TypeOK
  <1>6. ASSUME NEW w \in Workers, ConfirmOpen(w), status[tick[w].cur] = "pending",
               status'[tick[w].cur] = "confirmed", Headroom' = Headroom - stake[tick[w].cur]
        PROVE  Losing(InDoubt)' <= Headroom'
    <2> DEFINE b == tick[w].cur
    <2>1. b \in Bets  BY <1>6 DEF ConfirmOpen, TickShape, ShapeOf, At
    <2>2. b \in InDoubt  BY <1>6, <2>1, InHandType DEF InDoubt, InHand
    <2>3. SumOver(stake, {b}) <= SumOver(stake, InDoubt)  BY <1>2, <1>5, <2>2, SumSubset
    <2>4. SumOver(stake, {b}) = stake[b]  BY <1>5, <2>1, SumOfOne
    <2>5. InDoubt' = {}
      <3> SUFFICES ASSUME NEW c \in InDoubt' PROVE FALSE
        OBVIOUS
      <3>1. PICK v \in Workers : tick'[v].cur = c /\ c # 0 /\ status'[c] = "pending"
        BY DEF InDoubt, InHand
      <3>2. v = w
        <4>1. TickStep(w) /\ ~ClaimInVain(w)  BY <1>6 DEF TickStep, Entry, ConfirmOpen, ClaimInVain, At
        <4>2. v # w => tick'[v].pc = "idle"  BY <4>1, OthersIdle DEF At
        <4>3. tick'[v].pc = "idle" => tick'[v].cur = 0  BY DEF TickShape, ShapeOf
        <4> QED BY <3>1, <4>2, <4>3
      <3>3. tick'[w].cur = b  BY <1>0, <1>6 DEF ConfirmOpen, NoTick, TickTypes
      <3> QED BY <1>6, <3>1, <3>2, <3>3
    <2>6. Losing(InDoubt)' = 0  BY <1>3, <2>5, SumEmpty
    <2> QED BY <1>3, <1>4, <1>5, <1>6, <2>1, <2>3, <2>4, <2>6
  <1>7. CASE Headroom' >= Headroom
    <2>1. ASSUME NEW w \in Workers, NEW m \in Markets, RecordOpen(w, m)
          PROVE  Losing(InDoubt)' <= Headroom'
      <3> DEFINE n == Min(Unused)
                 s == ComputeStake(Remaining(w))
      <3>1. n \in Bets  BY <2>1, FreshRow DEF RecordOpen
      <3>2. Remaining(w) \in Int /\ Remaining(w) >= StakeMin
        BY <1>0, <2>1, RemainingType DEF RecordOpen
      <3>3. s \in StakeMin..Remaining(w)  BY <3>2, StakeBounds
      <3>4. Remaining(w) <= Headroom  BY <2>1 DEF RecordOpen, RemainingIsFree, At
      <3>5. stake' = [stake EXCEPT ![n] = s] /\ tick'[w].cur = n
        BY <1>0, <2>1 DEF RecordOpen, TickTypes, Ticks
      <3> HIDE DEF n, s
      <3>6. stake'[n] = s  BY <1>0, <3>1, <3>5 DEF RowTypes
      <3>7. InDoubt' \in SUBSET {n}
        <4> SUFFICES ASSUME NEW c \in InDoubt' PROVE c = n
          OBVIOUS
        <4>1. PICK v \in Workers : tick'[v].cur = c /\ c # 0  BY DEF InDoubt, InHand
        <4>2. TickStep(w) /\ ~ClaimInVain(w)  BY <2>1 DEF TickStep, Entry, RecordOpen, ClaimInVain, At
        <4>3. v # w => tick'[v].pc = "idle"  BY <4>2, OthersIdle DEF At
        <4>4. tick'[v].pc = "idle" => tick'[v].cur = 0  BY DEF TickShape, ShapeOf
        <4> QED BY <3>5, <4>1, <4>3, <4>4
      <3>8. s \in Nat /\ s <= Remaining(w)
        <4>1. StakeMin \in Nat  BY AutopilotAssumption
        <4> QED BY <3>2, <3>3, <4>1
      <3>9. SumOver(stake', {n}) = s  BY <3>6, <3>8, SumOfOne
      <3>10. InDoubt' = {} \/ InDoubt' = {n}  BY <3>7
      <3>11. Losing(InDoubt)' <= s  BY <1>3, <3>8, <3>9, <3>10, SumEmpty
      <3> QED BY <1>4, <1>7, <3>2, <3>4, <3>8, <3>11
    <2>2. CASE \A w \in Workers, m \in Markets : ~RecordOpen(w, m)
      <3>1. InDoubt' \in SUBSET InDoubt  BY <2>2, DoubtsMoves
      <3>2. \A b \in InDoubt' : stake'[b] = stake[b]
        <4>1. ASSUME NEW b \in InDoubt' PROVE stake'[b] = stake[b]
          <5>1. b \in Bets /\ status[b] # "none"  BY <1>2, <3>1 DEF InDoubt
          <5> QED BY <1>0, <5>1, StakeStays
        <4> QED BY <4>1
      <3>3. SumOver(stake', InDoubt') = SumOver(stake, InDoubt')  BY <1>2, <3>2, SumSame
      <3>4. SumOver(stake, InDoubt') <= SumOver(stake, InDoubt)
        <4>1. \A b \in InDoubt : stake[b] \in Nat  BY <1>2, <1>5
        <4> QED BY <1>2, <3>1, <4>1, SumSubset
      <3> QED BY <1>3, <1>4, <1>7, <3>3, <3>4
    <2> QED BY <2>1, <2>2
  <1> QED BY <1>6, <1>7, HeadroomGrows

LEMMA BudgetInvKept ==
  ASSUME TypeInv, TypeInv', OneTick, TickShape, TickShape', BudgetInv, [Next]_vars
  PROVE  BudgetInv'
  <1> USE DEF BudgetInv
  <1>1. CASE ~orderly'
    BY <1>1 DEF DoubtsFit, SeenIsOpen, RemainingIsFree, NothingLeftIsFlat, ExhaustedConfirmsNone
  <1>2. CASE orderly'
    <2>0. orderly  BY <1>2, HeadroomGrows
    <2>1. DoubtsFit'  BY <1>2, <2>0, DoubtsFitKept DEF DoubtsFit
    <2>2. SeenIsOpen'  BY <1>2, <2>0, SeenIsOpenKept DEF SeenIsOpen, Reading, Open
    <2>3. RemainingIsFree'  BY <1>2, <2>0, RemainingIsFreeKept DEF RemainingIsFree
    <2>4. NothingLeftIsFlat'  BY <1>2, <2>0, NothingLeftIsFlatKept DEF NothingLeftIsFlat, At, Open, LossBudget
    <2>5. ExhaustedConfirmsNone'  BY <1>2, <2>0, ExhaustedConfirmsNoneKept DEF ExhaustedConfirmsNone, Open
    <2> QED BY <2>1, <2>2, <2>3, <2>4, <2>5
  <1> QED BY <1>1, <1>2

-----------------------------------------------------------------------------
(* One position per market.                                                *)

\* Lost, after the step.
LostLater(m) ==
    \E d \in Bets : status'[d] \in {"pending", "abandoned"} /\ d \notin InHand' /\ market'[d] = m

LEMMA LostKept ==
  ASSUME TypeInv, TickShape, [Next]_vars, NEW m, Lost(m)
  PROVE  LostLater(m)
  <1>0. RowTypes /\ TickTypes  BY TypeParts DEF TypeInv
  <1>1. PICK d \in Bets : status[d] \in {"pending", "abandoned"} /\ d \notin InHand /\ market[d] = m
    BY DEF Lost, RowsIn
  <1>2. market'[d] = m  BY <1>0, <1>1, SettledStays
  <1>3. status'[d] \in {"pending", "abandoned"}
    <2>1. \A w \in Workers : d # tick[w].cur  BY <1>1 DEF InHand
    <2> QED BY <1>0, <1>1, <2>1, SettledStays
  <1>4. ASSUME NEW v \in Workers, tick'[v].cur = d PROVE FALSE
    <2>1. d # 0 /\ tick[v].cur # d  BY <1>1, InHandType DEF InHand
    <2>2. ASSUME d \in tick[v].todo PROVE FALSE
      BY <1>1, <2>2 DEF TickShape, ShapeOf, RowsIn, Settled
    <2>3. ASSUME NEW n \in Markets, RecordOpen(v, n), d = Min(Unused) PROVE FALSE
      BY <1>1, <2>3, FreshRow DEF RecordOpen
    <2> QED BY <1>4, <2>1, <2>2, <2>3, CurMoves
  <1> QED BY <1>1, <1>2, <1>3, <1>4 DEF LostLater, InHand

LEMMA AliveMoves ==
  ASSUME TypeInv, [Next]_vars, NEW b \in Alive'
  PROVE  /\ b \in Bets
         /\ \/ b \in Alive
            \/ \E w \in Workers : (SendOpen(w) \/ SendThrows(w)) /\ b = tick[w].cur
  <1>0. VenueTypes /\ VenueTypes'  BY TypeParts, VenueTypesKept DEF TypeInv
  <1>1. b \in Bets /\ (b \in held' \/ openTx'[b] = "flight")  BY <1>0 DEF Alive, VenueTypes
  <1>2. OpenResolves(b) => b \in Alive  BY <1>1 DEF OpenResolves, Alive
  <1> QED BY <1>0, <1>1, <1>2, TxMoves DEF Alive

\* Of what is alive, the market is known, and a step leaves it.
LEMMA AliveRows ==
  ASSUME TypeInv, TickShape, [Next]_vars, NEW b \in Alive'
  PROVE  status[b] # "none" /\ market'[b] = market[b]
  <1>0. RowTypes /\ VenueTypes  BY TypeParts DEF TypeInv
  <1>1. b \in Bets  BY AliveMoves
  <1>2. b \in Alive => status[b] # "none"  BY <1>1 DEF Alive, TypeInv, RowsExist
  <1>3. ASSUME NEW w \in Workers, SendOpen(w) \/ SendThrows(w), b = tick[w].cur
        PROVE  status[b] # "none"
    BY <1>3 DEF SendOpen, SendThrows, At, TickShape, ShapeOf
  <1>4. status[b] # "none"  BY <1>2, <1>3, AliveMoves
  <1> QED BY <1>0, <1>1, <1>4, SettledStays

\* The sender is the one that ticks.
LEMMA SenderAlone ==
  ASSUME TypeInv, OneTick, NEW w \in Workers, SendOpen(w) \/ SendThrows(w), NEW v \in Workers
  PROVE  /\ tick[v].pc # "idle" => v = w
         /\ v # w => tick'[v].pc = "idle"
         /\ tick[w].pc = "send" /\ tick'[w].pc \in {"confirm", "entry"}
         /\ UNCHANGED rowVars
  <1>0. TickTypes  BY TypeParts DEF TypeInv
  <1>1. tick[w].pc = "send" /\ UNCHANGED rowVars  BY DEF SendOpen, SendThrows, At
  <1>2. TickStep(w) /\ ~ClaimInVain(w)  BY <1>1 DEF TickStep, Entry, ClaimInVain, At
  <1>3. v # w => At(v, "idle") /\ tick'[v] = tick[v]  BY <1>2, OthersIdle
  <1>4. tick'[w].pc \in {"confirm", "entry"}
    BY <1>0 DEF SendOpen, SendThrows, Go, TickTypes, Ticks
  <1> QED BY <1>1, <1>3, <1>4 DEF At

LEMMA AliveApartKept ==
  ASSUME TypeInv, OneTick, TickShape, AliveApart, EntryIsFree, [Next]_vars
  PROVE  AliveApart'
  <1> SUFFICES ASSUME NEW b \in Alive', NEW c \in Alive', b # c, market'[b] = market'[c]
               PROVE  LostLater(market'[b])
    BY DEF AliveApart, Lost, LostLater, RowsIn
  <1>1. market[b] = market[c] /\ market'[b] = market[b]  BY AliveRows
  <1>2. CASE b \in Alive /\ c \in Alive
    <2>1. Lost(market[b])  BY <1>1, <1>2 DEF AliveApart
    <2> QED BY <1>1, <2>1, LostKept
  <1>3. ASSUME NEW w \in Workers, SendOpen(w) \/ SendThrows(w),
               (b = tick[w].cur /\ c \in Alive) \/ (c = tick[w].cur /\ b \in Alive)
        PROVE  LostLater(market'[b])
    <2>1. At(w, "send")  BY <1>3 DEF SendOpen, SendThrows
    <2>2. market[b] \notin MarketsTaken(w)  BY <1>1, <1>3, <2>1 DEF EntryIsFree
    <2>3. Lost(market[b])  BY <1>1, <1>3, <2>1, <2>2 DEF EntryIsFree, At
    <2> QED BY <1>1, <2>3, LostKept
  <1>4. ASSUME NEW w \in Workers, NEW v \in Workers, SendOpen(w) \/ SendThrows(w),
               SendOpen(v) \/ SendThrows(v)
        PROVE  v = w
    BY <1>4, SenderAlone
  <1>5. b \in Alive \/ \E w \in Workers : (SendOpen(w) \/ SendThrows(w)) /\ b = tick[w].cur
    BY AliveMoves
  <1>6. c \in Alive \/ \E w \in Workers : (SendOpen(w) \/ SendThrows(w)) /\ c = tick[w].cur
    BY AliveMoves
  <1>7. b \in Alive \/ c \in Alive  BY <1>4, <1>5, <1>6
  <1>8. ASSUME b \notin Alive PROVE LostLater(market'[b])
    <2>1. PICK w \in Workers : (SendOpen(w) \/ SendThrows(w)) /\ b = tick[w].cur  BY <1>5, <1>8
    <2>2. c \in Alive  BY <1>7, <1>8
    <2>3. (b = tick[w].cur /\ c \in Alive) \/ (c = tick[w].cur /\ b \in Alive)  BY ONLY <2>1, <2>2
    <2> QED BY ONLY <1>3, <2>1, <2>3, Zenon
  <1>9. ASSUME c \notin Alive PROVE LostLater(market'[b])
    <2>1. PICK w \in Workers : (SendOpen(w) \/ SendThrows(w)) /\ c = tick[w].cur  BY <1>6, <1>9
    <2>2. b \in Alive  BY <1>7, <1>9
    <2>3. (b = tick[w].cur /\ c \in Alive) \/ (c = tick[w].cur /\ b \in Alive)  BY ONLY <2>1, <2>2
    <2> QED BY ONLY <1>3, <2>1, <2>3, Zenon
  <1> QED BY <1>2, <1>8, <1>9

LEMMA FlightsAreOpenKept ==
  ASSUME TypeInv, OneTick, TickShape, FlightsAreOpen, ClosedInFlight, [Next]_vars
  PROVE  FlightsAreOpen'
  <1>0. RowTypes /\ VenueTypes  BY TypeParts DEF TypeInv
  <1> SUFFICES ASSUME NEW b \in Bets, openTx'[b] = "flight", status'[b] \notin {"pending", "confirmed"}
               PROVE  LostLater(market'[b])
    BY DEF FlightsAreOpen, Lost, LostLater, RowsIn
  <1>1. b \in Alive'  BY DEF Alive
  <1>2. market'[b] = market[b]  BY <1>1, AliveRows
  <1>3. openTx[b] = "flight"
    <2>1. ASSUME NEW w \in Workers, SendOpen(w) \/ SendThrows(w), b = tick[w].cur PROVE FALSE
      <3>1. status[b] = "pending"  BY <2>1 DEF SendOpen, SendThrows, At, TickShape, ShapeOf
      <3>2. status' = status  BY <2>1, SenderAlone DEF rowVars
      <3> QED BY <3>1, <3>2
    <2>2. ~OpenResolves(b)  BY <1>0 DEF OpenResolves, VenueTypes
    <2> QED BY <1>0, <2>1, <2>2, TxMoves
  <1>4. Lost(market[b])
    <2>1. CASE status[b] \notin {"pending", "confirmed"}  BY <1>3, <2>1 DEF FlightsAreOpen
    <2>2. CASE status[b] \in {"pending", "confirmed"}
      <3>1. ASSUME NEW w \in Workers, ConfirmExit(w) \/ ConfirmRescue(w), b = tick[w].cur
            PROVE  Lost(market[b])
        <4>1. tick[w].pc \in {"closing", "rescue"}  BY <3>1 DEF ConfirmExit, ConfirmRescue, At
        <4> QED BY <1>3, <3>1, <4>1 DEF ClosedInFlight
      <3>2. ASSUME NEW w \in Workers, ConfirmOpen(w), b = tick[w].cur PROVE FALSE
        BY <1>0, <2>2, <3>2 DEF ConfirmOpen, RowTypes
      <3>3. ASSUME NEW w \in Workers, NEW m \in Markets, RecordOpen(w, m), b = Min(Unused) PROVE FALSE
        BY <2>2, <3>3, FreshRow DEF RecordOpen
      <3>4. ~Reap(b) /\ ~SweepFailsOpen(b) /\ ~SweepExpires(b) /\ ~SweepPrices(b) /\ ~SweepReopens(b)
        BY <1>3, <2>2 DEF Reap, SweepFailsOpen, SweepExpires, SweepPrices, SweepReopens
      <3> QED BY <1>0, <2>2, <3>1, <3>2, <3>3, <3>4, RowMoves
    <2> QED BY <2>1, <2>2
  <1> QED BY <1>2, <1>4, LostKept

LEMMA FlightsAreSeenKept ==
  ASSUME TypeInv, OneTick, TickShape, FlightsAreOpen, FlightsAreSeen, [Next]_vars
  PROVE  FlightsAreSeen'
  <1>0. RowTypes /\ VenueTypes /\ TickTypes  BY TypeParts DEF TypeInv
  <1> SUFFICES ASSUME NEW v \in Workers, tick'[v].pc \in {"exit", "closing", "phase"},
                      NEW b \in Bets, status'[b] = "confirmed", openTx'[b] = "flight",
                      b \notin tick'[v].seen
               PROVE  LostLater(market'[b])
    BY DEF FlightsAreSeen, Lost, LostLater, RowsIn
  <1>1. tick'[v].pc \in Reading /\ b \in Alive'  BY DEF Reading, Alive
  <1>2. market'[b] = market[b]  BY <1>1, AliveRows
  <1>3. openTx[b] = "flight"
    <2>1. ASSUME NEW w \in Workers, SendOpen(w) \/ SendThrows(w) PROVE FALSE
      BY <2>1, SenderAlone
    <2>2. ~OpenResolves(b)  BY <1>0 DEF OpenResolves, VenueTypes
    <2> QED BY <1>0, <2>1, <2>2, TxMoves
  <1>4. Lost(market[b])
    <2>1. CASE status[b] = "confirmed"
      <3>1. CASE tick[v].pc \in {"exit", "closing", "phase"} /\ b \notin tick[v].seen
        BY <1>3, <2>1, <3>1 DEF FlightsAreSeen, RowsIn
      <3>2. CASE Claim(v) /\ tick'[v].seen = Open  BY <2>1, <3>2 DEF Open, RowsIn
      <3>3. CASE ConfirmExit(v) /\ tick[v].pc = "closing" /\ tick'[v].seen = tick[v].seen \ {tick[v].cur}
        <4>1. b # tick[v].cur
          BY <1>0, <3>3 DEF ConfirmExit, CasClose, RowTypes
        <4> QED BY <3>1, <3>3, <4>1
      <3> QED BY <1>1, <3>1, <3>2, <3>3, ReadMoves DEF ReadOn
    <2>2. CASE SweepReopens(b)
      <3>1. status[b] = "closed"  BY <2>2 DEF SweepReopens
      <3> QED BY <1>3, <3>1 DEF FlightsAreOpen
    <2>3. \A w \in Workers : ~ConfirmOpen(w)  BY <1>1, NoConfirmWhileReading
    <2> QED BY <1>0, <2>1, <2>2, <2>3, SettledStays
  <1> QED BY <1>2, <1>4, LostKept

LEMMA EntryIsFreeKept ==
  ASSUME TypeInv, OneTick, TickShape, VenueShape, FlightsAreOpen, FlightsAreSeen, EntryIsFree, [Next]_vars
  PROVE  EntryIsFree'
  <1>0. RowTypes /\ VenueTypes /\ TickTypes /\ TickTypes'  BY TypeParts, TickTypesKept DEF TypeInv
  <1> SUFFICES ASSUME NEW v \in Workers, tick'[v].pc \in {"entry", "send"}
               PROVE  /\ \A b \in Alive' : \/ market'[b] \in MarketsTaken(v)'
                                           \/ LostLater(market'[b])
                      /\ At(v, "send")' => market'[tick'[v].cur] \notin MarketsTaken(v)'
    BY DEF EntryIsFree, Lost, LostLater, RowsIn, At, MarketsTaken
  <1>1. ReadOn(v)  BY ReadMoves DEF Reading
  <1>2. tick'[v].seen = tick[v].seen  BY <1>1 DEF ReadOn
  <1>3. \A c \in tick[v].seen : c \in Bets /\ market'[c] = market[c]
    <2>1. ASSUME NEW c \in tick[v].seen PROVE c \in Bets /\ market'[c] = market[c]
      <3>1. c \in Bets /\ status[c] # "none"  BY DEF TickShape, ShapeOf, RowsIn, Settled
      <3> QED BY <1>0, <3>1, SettledStays
    <2> QED BY <2>1
  <1>4. MarketsTaken(v)' = {market[c] : c \in tick[v].seen} \cup tick'[v].wallet
    BY <1>2, <1>3 DEF MarketsTaken
  <1>5. CASE ReadWallet(v) /\ tick[v].pc = "phase" /\ tick'[v].pc = "entry" /\ tick'[v].wallet = WalletMarkets
    <2>1. ASSUME NEW b \in Alive' PROVE market'[b] \in MarketsTaken(v)' \/ LostLater(market'[b])
      <3>1. market'[b] = market[b] /\ b \in Bets  BY AliveRows, AliveMoves
      <3>2. \A w \in Workers : ~SendOpen(w) /\ ~SendThrows(w)  BY <1>5, SenderAlone
      <3>3. b \in Alive  BY <3>2, AliveMoves
      <3>4. CASE b \in held  BY <1>4, <1>5, <3>1, <3>4 DEF WalletMarkets
      <3>5. CASE openTx[b] = "flight" /\ status[b] = "confirmed"
        <4>1. b \in tick[v].seen \/ Lost(market[b])  BY <1>5, <3>1, <3>5 DEF FlightsAreSeen, RowsIn
        <4> QED BY <1>4, <3>1, <4>1, LostKept
      <3>6. CASE openTx[b] = "flight" /\ status[b] = "pending"
        <4>1. ASSUME NEW u \in Workers PROVE tick[u].cur # b
          <5>1. u # v => tick[u].pc = "idle"  BY <1>5 DEF OneTick, Ticking
          <5>2. tick[u].cur = 0  BY <1>5, <5>1 DEF TickShape, ShapeOf
          <5> QED BY <3>1, <5>2, InHandType
        <4>2. Lost(market[b])  BY <3>1, <3>6, <4>1 DEF Lost, RowsIn, InHand
        <4> QED BY <3>1, <4>2, LostKept
      <3>7. CASE openTx[b] = "flight" /\ status[b] \notin {"pending", "confirmed"}
        <4>1. Lost(market[b])  BY <3>1, <3>7 DEF FlightsAreOpen
        <4> QED BY <3>1, <4>1, LostKept
      <3> QED BY <3>3, <3>4, <3>5, <3>6, <3>7 DEF Alive
    <2> QED BY <1>5, <2>1 DEF At
  <1>6. CASE /\ tick[v].pc \in {"entry", "send"} /\ tick'[v].wallet = tick[v].wallet
             /\ \/ tick'[v] = tick[v] \/ tick'[v].pc = "entry"
                \/ \E m \in Markets : RecordOpen(v, m)
    <2>0. MarketsTaken(v)' = MarketsTaken(v)  BY <1>4, <1>6 DEF MarketsTaken
    <2>1. ASSUME NEW b \in Alive' PROVE market'[b] \in MarketsTaken(v)' \/ LostLater(market'[b])
      <3>1. market'[b] = market[b] /\ b \in Bets  BY AliveRows, AliveMoves
      <3>2. CASE b \in Alive
        <4>1. market[b] \in MarketsTaken(v) \/ Lost(market[b])  BY <1>6, <3>2 DEF EntryIsFree
        <4> QED BY <2>0, <3>1, <4>1, LostKept
      <3>3. ASSUME NEW w \in Workers, SendOpen(w) \/ SendThrows(w), b = tick[w].cur
            PROVE  LostLater(market'[b])
        <4>1. v = w /\ UNCHANGED rowVars  BY <3>3, SenderAlone
        <4>2. SendThrows(v)
          <5>1. SendOpen(v) => tick'[v].pc = "confirm"
            BY <1>0 DEF SendOpen, Go, TickTypes, Ticks
          <5> QED BY <3>3, <4>1, <5>1
        <4>3. status[b] = "pending"  BY <3>3 DEF SendOpen, SendThrows, At, TickShape, ShapeOf
        <4>4. ASSUME NEW u \in Workers PROVE tick'[u].cur # b
          <5>1. CASE u = v
            <6>1. tick'[v].cur = 0  BY <1>0, <4>2 DEF SendThrows, TickTypes, Ticks
            <6> QED BY <3>1, <5>1, <6>1, InHandType
          <5>2. CASE u # v
            <6>1. tick[u].pc = "idle" /\ tick'[u] = tick[u]
              <7>1. TickStep(v) /\ ~ClaimInVain(v)  BY <1>6, <4>2 DEF TickStep, Entry, ClaimInVain, At
              <7> QED BY <5>2, <7>1, OthersIdle DEF At
            <6>2. tick[u].cur = 0  BY <6>1 DEF TickShape, ShapeOf
            <6> QED BY <3>1, <6>1, <6>2, InHandType
          <5> QED BY <5>1, <5>2
        <4> QED BY <3>1, <4>1, <4>3, <4>4 DEF LostLater, InHand, rowVars
      <3> QED BY <3>2, <3>3, AliveMoves
    <2>2. ASSUME tick'[v].pc = "send" PROVE market'[tick'[v].cur] \notin MarketsTaken(v)'
      <3>1. CASE tick'[v] = tick[v]
        <4>1. At(v, "send") /\ tick[v].cur \in Bets /\ status[tick[v].cur] = "pending"
          BY <2>2, <3>1 DEF At, TickShape, ShapeOf
        <4>2. market'[tick[v].cur] = market[tick[v].cur]  BY <1>0, <4>1, SettledStays
        <4> QED BY <2>0, <3>1, <4>1, <4>2 DEF EntryIsFree
      <3>2. ASSUME NEW m \in Markets, RecordOpen(v, m) PROVE market'[tick'[v].cur] \notin MarketsTaken(v)'
        <4> DEFINE n == Min(Unused)
        <4>1. n \in Bets  BY <3>2, FreshRow DEF RecordOpen
        <4>2. market' = [market EXCEPT ![n] = m] /\ tick'[v].cur = n
          BY <1>0, <3>2 DEF RecordOpen, TickTypes, Ticks
        <4>3. m \notin MarketsTaken(v)  BY <3>2 DEF RecordOpen, MarketsTaken
        <4> HIDE DEF n
        <4> QED BY <1>0, <2>0, <4>1, <4>2, <4>3 DEF RowTypes
      <3> QED BY <1>6, <2>2, <3>1, <3>2
    <2> QED BY <2>1, <2>2 DEF At
  <1> QED BY <1>1, <1>5, <1>6 DEF ReadOn

\* How a close comes to be on its way from a tick.
LEMMA ClosingMoves ==
  ASSUME TypeInv, OneTick, [Next]_vars, NEW v \in Workers, tick'[v].pc \in {"closing", "rescue"}
  PROVE  \/ tick'[v] = tick[v]
         \/ \E c \in Bets : SendExit(v, c) /\ tick'[v].cur = c
         \/ SendRescue(v) /\ tick'[v].cur = tick[v].cur
  <1>0. TickTypes  BY TypeParts DEF TypeInv
  <1>1. ASSUME NEW w \in Workers, TickStep(w), tick'[v] # tick[v]
        PROVE  \/ \E c \in Bets : SendExit(v, c) /\ tick'[v].cur = c
               \/ SendRescue(v) /\ tick'[v].cur = tick[v].cur
    <2>0. w = v /\ TickStep(v) /\ tick[v] \in Ticks
      BY <1>0, <1>1, OthersIdle DEF ClaimInVain, TickTypes
    <2>1. ASSUME Claim(v) \/ ConfirmExit(v) \/ ConfirmExitThrows(v) PROVE tick'[v].pc = "exit"
      BY <1>0, <2>1 DEF Claim, ConfirmExit, ConfirmExitThrows, TickTypes, Ticks
    <2>2. ASSUME NEW c \in Bets, SendExit(v, c) PROVE tick'[v].cur = c
      BY <1>0, <2>2 DEF SendExit, TickTypes, Ticks
    <2>3. ASSUME NEW c \in Bets, StayIn(v, c) \/ ExitThrows(v, c) PROVE tick'[v].pc = "exit"
      BY <1>0, <2>3 DEF StayIn, ExitThrows, TickTypes, Ticks, At
    <2>4. ASSUME NEW m \in Markets, RecordOpen(v, m) PROVE tick'[v].pc = "send"
      BY <1>0, <2>4 DEF RecordOpen, TickTypes, Ticks
    <2>5. ASSUME Recompute(v) \/ UseCached(v) \/ ReadWallet(v) \/ SendOpen(v) \/ SendThrows(v)
          PROVE  tick'[v].pc \in {"phase", "entry", "confirm"}
      BY <1>0, <2>5 DEF Recompute, UseCached, ReadWallet, SendOpen, SendThrows, Go, TickTypes, Ticks
    <2>6. ASSUME ConfirmOpen(v) PROVE tick'[v].pc = "stop"
      BY <1>0, <2>6 DEF ConfirmOpen, NoTick, TickTypes, Ticks
    <2>7. ASSUME SendRescue(v) PROVE tick'[v].cur = tick[v].cur
      BY <1>0, <2>7 DEF SendRescue, Go, TickTypes, Ticks
    <2>8. ASSUME EndSession(v) \/ EndThrows(v) \/ SkipEntries(v) \/ EndEntries(v)
                    \/ StopOrGiveUp(v) \/ ConfirmRescue(v)
          PROVE  tick'[v].pc = "idle"
      <3>1. Done(v)
        BY <2>8 DEF EndSession, EndThrows, SkipEntries, EndEntries, StopOrGiveUp, ConfirmRescue, Finish
      <3> QED BY <1>0, <3>1 DEF Done, NoTick, TickTypes
    <2>9. ~ClaimInVain(v)  BY <1>1, <2>0 DEF ClaimInVain
    <2> QED BY <2>0, <2>1, <2>2, <2>3, <2>4, <2>5, <2>6, <2>7, <2>8, <2>9 DEF TickStep, ExitPass, Entry
  <1>2. ASSUME NEW w \in Workers, Crash(w) PROVE tick'[v] = tick[v]
    BY <1>0, <1>2 DEF Crash, Done, NoTick, TickTypes
  <1>3. CASE Outside  BY <1>3, OutsideLeavesTicks
  <1>4. CASE UNCHANGED vars  BY <1>4 DEF vars
  <1> QED BY <1>1, <1>2, <1>3, <1>4, NextCases

LEMMA ClosedInFlightKept ==
  ASSUME TypeInv, OneTick, TickShape, TickShape', VenueShape, AliveApart, ClosedInFlight, [Next]_vars
  PROVE  ClosedInFlight'
  <1>0. RowTypes /\ VenueTypes /\ TickTypes /\ TickTypes'  BY TypeParts, TickTypesKept DEF TypeInv
  <1> SUFFICES ASSUME NEW v \in Workers, tick'[v].pc \in {"closing", "rescue"},
                      openTx'[tick'[v].cur] = "flight"
               PROVE  LostLater(market'[tick'[v].cur])
    BY DEF ClosedInFlight, Lost, LostLater, RowsIn
  <1> DEFINE b == tick'[v].cur
  <1>1. b \in Bets  BY DEF TickShape, ShapeOf
  <1>2. b \in Alive'  BY <1>1 DEF Alive
  <1>3. market'[b] = market[b]  BY <1>2, AliveRows
  <1>4. openTx[b] = "flight"
    <2>1. ASSUME NEW w \in Workers, SendOpen(w) \/ SendThrows(w) PROVE FALSE
      BY <2>1, SenderAlone
    <2>2. ~OpenResolves(b)  BY <1>0, <1>1 DEF OpenResolves, VenueTypes
    <2> QED BY <1>0, <1>1, <2>1, <2>2, TxMoves
  <1>5. Lost(market[b])
    <2>1. CASE tick'[v] = tick[v]  BY <1>4, <2>1 DEF ClosedInFlight
    <2>2. CASE Merged(b) # {}
      <3>1. PICK c \in held : market[c] = market[b]  BY <2>2 DEF Merged
      <3>2. c # b  BY <1>4 DEF VenueShape
      <3>3. b \in Alive /\ c \in Alive  BY <1>1, <1>4 DEF Alive
      <3> QED BY <3>1, <3>2, <3>3 DEF AliveApart
    <2>3. ASSUME NEW c \in Bets, SendExit(v, c), b = c PROVE Merged(b) # {}
      BY <2>3 DEF SendExit
    <2>4. ASSUME SendRescue(v), b = tick[v].cur PROVE Merged(b) # {}
      BY <2>4 DEF SendRescue
    <2> QED BY <2>1, <2>2, <2>3, <2>4, ClosingMoves
  <1> QED BY <1>3, <1>5, LostKept

-----------------------------------------------------------------------------
(* The theorems.                                                           *)

LEMMA InvFirst == ASSUME Init PROVE Inv
  <1>1. TypeInv  BY TypeInvFirst
  <1>2. \A w \in Workers : tick[w] = NoTick  BY DEF Init
  <1>3. OneTick  BY <1>2 DEF OneTick, Ticking, NoTick
  <1>4. TickShape
    <2>1. \A w \in Workers : tick[w].pc = "idle" /\ tick[w].cur = 0 /\ tick[w].seen = {} /\ tick[w].todo = {}
      BY <1>2 DEF NoTick
    <2> QED BY <2>1 DEF TickShape, ShapeOf, At
  <1>5. VenueShape  BY DEF VenueShape, Init
  <1>6. Open = {} /\ Closed = {}  BY DEF Init, Open, Closed, RowsIn
  <1>7. \A w \in Workers : tick[w].pc = "idle"  BY <1>2 DEF NoTick
  <1>8. DoubtsFit
    <2>1. InDoubt = {}  BY <1>2 DEF InDoubt, InHand, NoTick
    <2>2. TypeOK  BY <1>1 DEF TypeInv
    <2>3. Losing(InDoubt) = 0 /\ Losing(Open) = 0
      <3>1. \A S \in SUBSET Bets : Losing(S) = SumOver(stake, S)  BY <2>2, LosingType
      <3> QED BY <1>6, <2>1, <3>1, SumEmpty
    <2>4. Realized = 0
      <3>1. Realized = SumOver(result, Closed)  BY DEF Realized, SumOver
      <3> QED BY <1>6, <3>1, SumEmpty
    <2>5. Budget \in Nat  BY AutopilotAssumption
    <2>6. Headroom = Budget  BY <2>3, <2>4, <2>5 DEF Headroom, Open, LossBudget
    <2> QED BY <2>3, <2>5, <2>6 DEF DoubtsFit
  <1>9. BudgetInv
    <2>1. SeenIsOpen  BY <1>7 DEF SeenIsOpen
    <2>2. RemainingIsFree  BY <1>7 DEF RemainingIsFree
    <2>3. NothingLeftIsFlat  BY <1>7 DEF NothingLeftIsFlat, At
    <2>4. ExhaustedConfirmsNone  BY DEF ExhaustedConfirmsNone, Init
    <2> QED BY <1>8, <2>1, <2>2, <2>3, <2>4 DEF BudgetInv
  <1>10. MergeInv
    <2>1. Alive = {}  BY DEF Alive, Init
    <2>2. AliveApart  BY <2>1 DEF AliveApart
    <2>3. FlightsAreOpen  BY DEF FlightsAreOpen, Init
    <2>4. FlightsAreSeen  BY <1>7 DEF FlightsAreSeen
    <2>5. EntryIsFree  BY <1>7 DEF EntryIsFree, At
    <2>6. ClosedInFlight  BY <1>7 DEF ClosedInFlight
    <2> QED BY <2>2, <2>3, <2>4, <2>5, <2>6 DEF MergeInv
  <1> QED BY <1>1, <1>3, <1>4, <1>5, <1>9, <1>10 DEF Inv, ShapeInv

LEMMA InvKept == ASSUME SlowTicks = FALSE, Inv, [Next]_vars PROVE Inv'
  <1> USE DEF Inv, ShapeInv, MergeInv
  <1>1. TypeInv'  BY TypeInvKept
  <1>2. OneTick'  BY OneTickKept
  <1>3. TickShape'  BY TickShapeKept
  <1>4. VenueShape'  BY VenueShapeKept
  <1>5. BudgetInv'  BY <1>1, <1>3, BudgetInvKept
  <1>6. AliveApart'  BY AliveApartKept
  <1>7. FlightsAreOpen' /\ FlightsAreSeen'  BY FlightsAreOpenKept, FlightsAreSeenKept
  <1>8. EntryIsFree'  BY EntryIsFreeKept
  <1>9. ClosedInFlight'  BY <1>3, ClosedInFlightKept
  <1> QED BY <1>1, <1>2, <1>3, <1>4, <1>5, <1>6, <1>7, <1>8, <1>9

(***************************************************************************)
(* Where a tick of a session is shorter than its claim window, the whole   *)
(* of what the budget and the merge argument rest on is invariant: one     *)
(* tick at a time, and what it has read is still so when it relies on it   *)
(* (lib/autopilot/engine.ts, tickSession; lib/autopilot/sessions.ts,       *)
(* claimSessionTick).                                                      *)
(***************************************************************************)
THEOREM InductiveInvariant == ASSUME SlowTicks = FALSE PROVE Spec => []Inv
  <1>1. Init => Inv  BY InvFirst
  <1>2. Inv /\ [Next]_vars => Inv'  BY InvKept
  <1> QED BY <1>1, <1>2, PTL DEF Spec

\* Rows at risk are open, in doubt, or have lost their confirm.
LEMMA RisksAreStakes ==
  ASSUME TypeOK, TickShape
  PROVE  /\ Losing(AtRisk) <= Losing(Open) + Losing(InDoubt) + Losing(LostConfirms)
         /\ Losing(AtRisk) \in Nat /\ Losing(LostConfirms) \in Nat
  <1> DEFINE Reserved == Open \cup InDoubt
             AllRows == Reserved \cup LostConfirms
  <1>1. AtRisk \in SUBSET AllRows /\ Open \cap InDoubt = {} /\ Reserved \cap LostConfirms = {}
    <2>1. 0 \notin Bets  BY InHandType
    <2>2. ASSUME NEW b \in Bets, b \in InHand PROVE status[b] # "abandoned"
      <3>1. PICK w \in Workers : tick[w].cur = b  BY <2>2 DEF InHand
      <3>2. tick[w].cur # 0  BY <2>1, <3>1
      <3>3. tick[w].pc \in {"idle", "exit", "closing", "phase", "entry", "send",
                            "confirm", "stop", "rescue"}
        BY DEF TypeOK
      <3> QED BY <3>1, <3>2, <3>3 DEF TickShape, ShapeOf, At, Settled
    <2>3. Unconfirmed \subseteq InDoubt \cup LostConfirms
      <3> SUFFICES ASSUME NEW b \in Unconfirmed, b \in InHand PROVE b \in InDoubt
        BY DEF LostConfirms
      <3>1. b \in Bets /\ status[b] \in {"pending", "abandoned"}
        BY DEF Unconfirmed, RowsIn
      <3> QED BY <2>1, <2>2, <3>1 DEF InDoubt
    <2>4. AtRisk \subseteq AllRows  BY <2>3 DEF AtRisk, Open
    <2>5. Open \cap InDoubt = {} /\ Open \cap LostConfirms = {}
      BY DEF Open, InDoubt, LostConfirms, Unconfirmed, RowsIn
    <2>6. InDoubt \cap LostConfirms = {}  BY DEF InDoubt, LostConfirms
    <2> QED BY <2>4, <2>5, <2>6
  <1>2. Open \in SUBSET Bets /\ InDoubt \in SUBSET Bets /\ LostConfirms \in SUBSET Bets
    BY TypeParts
    DEF Open, RowsIn, InDoubt, InHand, TickTypes, Ticks, Bets, LostConfirms, Unconfirmed
  <1>3. /\ IsFiniteSet(Open) /\ IsFiniteSet(InDoubt) /\ IsFiniteSet(Reserved)
        /\ IsFiniteSet(LostConfirms) /\ IsFiniteSet(AllRows)
    BY <1>2, RowsFinite
  <1>4. \A b \in Bets : stake[b] \in Nat
    <2>1. 0..Budget \subseteq Nat  BY AutopilotAssumption
    <2> QED BY <2>1 DEF TypeOK
  <1>5. SumOver(stake, Reserved) = SumOver(stake, Open) + SumOver(stake, InDoubt)
    BY <1>1, <1>2, <1>3, <1>4, SumUnion
  <1>6. SumOver(stake, AllRows) = SumOver(stake, Reserved) + SumOver(stake, LostConfirms)
    <2>1. Reserved \in SUBSET Bets /\ \A b \in AllRows : stake[b] \in Int  BY <1>2, <1>4
    <2> QED BY <1>1, <1>3, <2>1, SumUnion
  <1>7. SumOver(stake, AtRisk) <= SumOver(stake, AllRows) /\ SumOver(stake, AtRisk) \in Nat
    BY <1>1, <1>2, <1>3, <1>4, SumSubset
  <1>8. SumOver(stake, LostConfirms) \in Nat
    <2>1. LostConfirms \in SUBSET AllRows /\ \A b \in AllRows : stake[b] \in Nat
      BY <1>2, <1>4
    <2> QED BY <1>3, <2>1, SumSubset
  <1>9. AtRisk \in SUBSET Bets  BY <1>1, <1>2
  <1>10. /\ Losing(AtRisk) = SumOver(stake, AtRisk) /\ Losing(Open) = SumOver(stake, Open)
         /\ Losing(InDoubt) = SumOver(stake, InDoubt)
         /\ Losing(LostConfirms) = SumOver(stake, LostConfirms)
    BY <1>2, <1>9, LosingType
  <1> QED BY <1>5, <1>6, <1>7, <1>8, <1>10

(***************************************************************************)
(* For every budget, tier, number of bets and of workers, where a tick is  *)
(* shorter than its claim window: the stakes of bets that are open, live   *)
(* or on their way fit what the results so far have left of the loss       *)
(* budget, except those that lost their confirm (lib/autopilot/shell.ts,   *)
(* evaluateShell).                                                         *)
(***************************************************************************)
THEOREM StakesFit == ASSUME SlowTicks = FALSE PROVE Spec => []StakesFitBudget
  <1>1. Inv => StakesFitBudget
    <2> SUFFICES ASSUME Inv, orderly
                 PROVE  Losing(AtRisk) <= LossBudget(Realized) + Losing(LostConfirms)
      BY DEF StakesFitBudget
    <2>1. TypeOK /\ TickShape /\ DoubtsFit  BY DEF Inv, TypeInv, ShapeInv, BudgetInv
    <2>2. Losing(InDoubt) <= LossBudget(Realized) - Losing(Open)  BY <2>1 DEF DoubtsFit, Headroom, Open
    <2>3. Realized \in Int /\ Losing(Open) \in Nat /\ Losing(InDoubt) \in Nat  BY <2>1, Totals
    <2>4. LossBudget(Realized) \in Int
      <3>1. Budget \in Nat  BY AutopilotAssumption
      <3> QED BY <2>3, <3>1 DEF LossBudget
    <2>5. /\ Losing(AtRisk) <= Losing(Open) + Losing(InDoubt) + Losing(LostConfirms)
          /\ Losing(AtRisk) \in Nat /\ Losing(LostConfirms) \in Nat
      BY <2>1, RisksAreStakes
    <2> QED BY <2>2, <2>3, <2>4, <2>5
  <1> QED BY <1>1, InductiveInvariant, PTL

(***************************************************************************)
(* Bets of a session share a venue position only in a market where one of  *)
(* its rows lost its confirm: the engine's read of the wallet, its list of *)
(* open bets and its close-before-entry order leave no other way           *)
(* (lib/autopilot/engine.ts, "never hedge/stack a market").                *)
(***************************************************************************)
THEOREM MergesExplained == ASSUME SlowTicks = FALSE PROVE Spec => []MergesAreLostConfirms
  <1>1. Inv => MergesAreLostConfirms
    BY DEF Inv, MergeInv, AliveApart, Alive, Lost, MergesAreLostConfirms
  <1> QED BY <1>1, InductiveInvariant, PTL

(***************************************************************************)
(* Where a tick is shorter than its claim window, a session that ended     *)
(* because its loss budget was gone has no open bet, and none live or on   *)
(* its way but what lost its confirm (lib/autopilot/sessions.ts,           *)
(* listActiveSessions).                                                    *)
(***************************************************************************)
THEOREM ExhaustedFlat == ASSUME SlowTicks = FALSE PROVE Spec => []ExhaustedIsFlat
  <1>1. Inv => ExhaustedIsFlat
    <2> SUFFICES ASSUME Inv, orderly, session = "exhausted"
                 PROVE  AtRisk \subseteq LostConfirms
      BY DEF ExhaustedIsFlat
    <2>1. Ticking = {}  BY DEF Inv, ShapeInv, OneTick
    <2>2. \A w \in Workers : tick[w].cur = 0
      BY <2>1 DEF Ticking, Inv, ShapeInv, TickShape, ShapeOf
    <2>3. RowsIn({"confirmed"}) = {}  BY DEF Inv, BudgetInv, ExhaustedConfirmsNone
    <2>4. \A b \in Unconfirmed : b \notin InHand
      BY <2>2, InHandType DEF InHand, Unconfirmed, RowsIn
    <2> QED BY <2>3, <2>4 DEF AtRisk, LostConfirms
  <1> QED BY <1>1, InductiveInvariant, PTL
=============================================================================

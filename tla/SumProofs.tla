----------------------------- MODULE SumProofs ------------------------------
(***************************************************************************)
(* What a sum over a finite set does when an element comes, goes or        *)
(* changes its value; that a fold over a finite set exists, is unique and  *)
(* keeps its type.  The library's induction theorems take an operator, so  *)
(* each induction here is by a smallest counterexample.                    *)
(***************************************************************************)
EXTENDS Sums, FiniteSetTheorems, WellFoundedInduction, TLAPS

(* A set of subsets of a finite set has a smallest one.                    *)
LEMMA SmallestSubset ==
  ASSUME NEW S, IsFiniteSet(S), NEW Bad \in SUBSET (SUBSET S), Bad # {}
  PROVE  \E T \in Bad : \A U \in Bad : ~(U \subseteq T /\ U # T)
<1>1. Bad \subseteq FiniteSubsetsOf(S)
  BY FS_Subset DEF FiniteSubsetsOf
<1>2. IsWellFoundedOn(StrictSubsetOrdering(S), FiniteSubsetsOf(S))
  BY FS_StrictSubsetOrderingWellFounded
<1>3. PICK T \in Bad : \A U \in Bad : <<U, T>> \notin StrictSubsetOrdering(S)
  <2>. DEFINE R == StrictSubsetOrdering(S)
              All == FiniteSubsetsOf(S)
  <2>. HIDE DEF R, All
  <2>1. Bad \subseteq All /\ IsWellFoundedOn(R, All)
    BY <1>1, <1>2 DEF R, All
  <2>2. \E T \in Bad : \A U \in Bad : ~(<<U, T>> \in R)
    BY <2>1, WFMin
  <2>. QED BY <2>2 DEF R
<1>. QED BY <1>3 DEF StrictSubsetOrdering

-----------------------------------------------------------------------------
(* The library's definition is by recursion over subsets, choosing one     *)
(* element at a time; there is one function that satisfies it.             *)
LOCAL Pick(s) == CHOOSE x \in s : TRUE
LOCAL IsSum(g, f, S) ==
    g = [s \in SUBSET S |-> IF s = {} THEN 0 ELSE f[Pick(s)] + g[s \ {Pick(s)}]]

(* The community module's sum is a chosen function's value at the whole    *)
(* set.                                                                    *)
LEMMA SumByChoice ==
  ASSUME NEW f, NEW S
  PROVE  SumOver(f, S) = (CHOOSE g : IsSum(g, f, S))[S]
BY DEF SumOver, MapThenSumSet, MapThenFoldSet, IsSum, Pick

(* The element that the fold takes next is one of the set.                 *)
LEMMA PickIn == \A s : s # {} => Pick(s) \in s
BY DEF Pick

(* There is one such function at most: two of them differ on no subset.    *)
LEMMA SumUnique ==
  ASSUME NEW f, NEW S, IsFiniteSet(S), NEW g, NEW h, IsSum(g, f, S), IsSum(h, f, S)
  PROVE  g = h
<1>. DEFINE Bad == {s \in SUBSET S : g[s] # h[s]}
<1>1. SUFFICES ASSUME Bad # {} PROVE FALSE
  BY DEF IsSum
<1>2. PICK T \in Bad : \A U \in Bad : ~(U \subseteq T /\ U # T)
  <2>1. Bad \in SUBSET (SUBSET S)
    OBVIOUS
  <2>. HIDE DEF Bad
  <2>. QED BY <1>1, <2>1, SmallestSubset
<1>3. CASE T = {}
  BY <1>2, <1>3 DEF IsSum
<1>4. CASE T # {}
  <2>1. Pick(T) \in T
    BY <1>4, PickIn
  <2>2. g[T \ {Pick(T)}] = h[T \ {Pick(T)}]
    BY <1>2, <2>1
  <2>3. /\ g[T] = f[Pick(T)] + g[T \ {Pick(T)}]
        /\ h[T] = f[Pick(T)] + h[T \ {Pick(T)}]
    BY <1>2, <1>4 DEF IsSum
  <2>. QED BY <1>2, <2>2, <2>3
<1>. QED BY <1>3, <1>4

(* Such a function for a set is one for each of its subsets.               *)
LEMMA SumRestricted ==
  ASSUME NEW f, NEW S, NEW g, IsSum(g, f, S), NEW T \in SUBSET S
  PROVE  IsSum([s \in SUBSET T |-> g[s]], f, T)
<1>. DEFINE h == [s \in SUBSET T |-> g[s]]
<1>1. ASSUME NEW s \in SUBSET T
      PROVE  g[s] = IF s = {} THEN 0 ELSE f[Pick(s)] + h[s \ {Pick(s)}]
  <2>1. s \ {Pick(s)} \in SUBSET T /\ s \in SUBSET S
    OBVIOUS
  <2>2. h[s \ {Pick(s)}] = g[s \ {Pick(s)}]
    BY <2>1
  <2>3. g[s] = IF s = {} THEN 0 ELSE f[Pick(s)] + g[s \ {Pick(s)}]
    BY <2>1 DEF IsSum
  <2>. QED BY <2>2, <2>3
<1>. HIDE DEF Pick
<1>2. h = [s \in SUBSET T |-> IF s = {} THEN 0 ELSE f[Pick(s)] + h[s \ {Pick(s)}]]
  BY <1>1
<1>. QED BY <1>2 DEF IsSum

(* And there is one: a finite set without one has a smallest such subset.  *)
LEMMA SumExists ==
  ASSUME NEW f, NEW S, IsFiniteSet(S)
  PROVE  \E g : IsSum(g, f, S)
<1>. DEFINE Bad == {T \in SUBSET S : ~\E g : IsSum(g, f, T)}
<1>1. SUFFICES ASSUME Bad # {} PROVE FALSE
  OBVIOUS
<1>2. PICK T \in Bad : \A U \in Bad : ~(U \subseteq T /\ U # T)
  <2>1. Bad \in SUBSET (SUBSET S)
    OBVIOUS
  <2>. HIDE DEF Bad
  <2>. QED BY <1>1, <2>1, SmallestSubset
<1>. DEFINE part == [U \in SUBSET T |-> CHOOSE g : IsSum(g, f, U)]
            below(s) == part[s][s]
            total == [s \in SUBSET T |->
                        IF s = T /\ T # {} THEN f[Pick(T)] + below(T \ {Pick(T)}) ELSE below(s)]
<1>3. ASSUME NEW U \in SUBSET T, U # T PROVE IsSum(part[U], f, U)
  <2>1. \E g : IsSum(g, f, U)
    BY <1>2, <1>3
  <2>. QED BY <2>1
<1>4. ASSUME NEW s \in SUBSET T, s # {}, s # T
      PROVE  below(s) = f[Pick(s)] + below(s \ {Pick(s)})
  <2>. DEFINE r == s \ {Pick(s)}
  <2>1. Pick(s) \in s /\ r \in SUBSET s /\ r \in SUBSET T /\ r # T
    BY <1>4, PickIn
  <2>2. IsSum(part[s], f, s) /\ IsSum(part[r], f, r)
    BY <1>3, <1>4, <2>1
  <2>3. IsFiniteSet(r)
    BY <1>2, <2>1, FS_Subset
  <2>4. part[r] = [u \in SUBSET r |-> part[s][u]]
    <3>. HIDE DEF part, r
    <3>1. IsSum([u \in SUBSET r |-> part[s][u]], f, r)
      BY <2>1, <2>2, SumRestricted
    <3>. QED BY <2>2, <2>3, <3>1, SumUnique
  <2>5. below(r) = part[s][r]
    <3>. HIDE DEF part, r
    <3>. QED BY <2>4
  <2>6. part[s][s] = f[Pick(s)] + part[s][r]
    <3>. HIDE DEF part
    <3>. QED BY <1>4, <2>2 DEF IsSum
  <2>. QED BY <2>5, <2>6
<1>5. T # {} => below({}) = 0
  <2>. HIDE DEF part
  <2>. QED BY <1>3 DEF IsSum
<1>6. T # {}
  <2>1. IsSum([s \in SUBSET {} |-> 0], f, {})
    BY DEF IsSum
  <2>. QED BY <1>2, <2>1
<1>7. ASSUME NEW s \in SUBSET T
      PROVE  total[s] = IF s = {} THEN 0 ELSE f[Pick(s)] + total[s \ {Pick(s)}]
  <2>. HIDE DEF part
  <2>1. CASE s = {}
    BY <1>5, <1>6, <2>1
  <2>2. CASE s # {}
    <3>1. Pick(s) \in s /\ s \ {Pick(s)} \in SUBSET T /\ s \ {Pick(s)} # T
      BY <2>2, PickIn
    <3>2. total[s \ {Pick(s)}] = below(s \ {Pick(s)})
      BY <3>1
    <3>. HIDE DEF below
    <3>. QED BY <1>4, <2>2, <3>2
  <2>. QED BY <2>1, <2>2
<1>8. total = [s \in SUBSET T |-> IF s = {} THEN 0 ELSE f[Pick(s)] + total[s \ {Pick(s)}]]
  <2>. HIDE DEF below, part
  <2>. QED BY <1>7
<1>9. IsSum(total, f, T)
  <2>. HIDE DEF total
  <2>. QED BY <1>8 DEF IsSum
<1>. QED BY <1>2, <1>9

(* The recursion, with the chosen element.                                 *)
LEMMA SumStep ==
  ASSUME NEW f, NEW S, IsFiniteSet(S)
  PROVE  SumOver(f, S) = IF S = {} THEN 0 ELSE f[Pick(S)] + SumOver(f, S \ {Pick(S)})
<1>. DEFINE chosen(T) == CHOOSE g : IsSum(g, f, T)
            rest == S \ {Pick(S)}
<1>1. IsSum(chosen(S), f, S)
  BY SumExists
<1>2. IsFiniteSet(rest) /\ rest \in SUBSET S
  BY FS_Subset
<1>3. IsSum(chosen(rest), f, rest)
  BY <1>2, SumExists
<1>4. chosen(rest) = [s \in SUBSET rest |-> chosen(S)[s]]
  <2>. HIDE DEF chosen, rest
  <2>1. IsSum([s \in SUBSET rest |-> chosen(S)[s]], f, rest)
    BY <1>1, <1>2, SumRestricted
  <2>. QED BY <1>2, <1>3, <2>1, SumUnique
<1>5. SumOver(f, S) = chosen(S)[S] /\ SumOver(f, rest) = chosen(rest)[rest]
  BY SumByChoice
<1>6. chosen(S)[S] = IF S = {} THEN 0 ELSE f[Pick(S)] + chosen(S)[rest]
  <2>. HIDE DEF chosen
  <2>. QED BY <1>1 DEF IsSum
<1>7. chosen(rest)[rest] = chosen(S)[rest]
  <2>. HIDE DEF chosen, rest
  <2>. QED BY <1>4
<1>. HIDE DEF chosen
<1>. QED BY <1>5, <1>6, <1>7

-----------------------------------------------------------------------------
(* The empty sum.                                                          *)
LEMMA SumEmpty == \A f : SumOver(f, {}) = 0
BY SumStep, FS_EmptySet

(* A sum of integers is an integer.                                        *)
LEMMA SumType ==
  ASSUME NEW S, IsFiniteSet(S), NEW f, \A x \in S : f[x] \in Int
  PROVE  SumOver(f, S) \in Int
<1>. DEFINE Bad == {T \in SUBSET S : SumOver(f, T) \notin Int}
<1>1. SUFFICES ASSUME Bad # {} PROVE FALSE
  OBVIOUS
<1>2. PICK T \in Bad : \A U \in Bad : ~(U \subseteq T /\ U # T)
  <2>1. Bad \in SUBSET (SUBSET S)
    OBVIOUS
  <2>. HIDE DEF Bad
  <2>. QED BY <1>1, <2>1, SmallestSubset
<1>3. SumOver(f, T) = IF T = {} THEN 0 ELSE f[Pick(T)] + SumOver(f, T \ {Pick(T)})
  BY <1>2, FS_Subset, SumStep
<1>4. T # {} => Pick(T) \in T /\ SumOver(f, T \ {Pick(T)}) \in Int
  BY <1>2, PickIn
<1>. QED BY <1>2, <1>3, <1>4

(* Only the values on the set count.                                       *)
LEMMA SumSame ==
  ASSUME NEW S, IsFiniteSet(S), NEW f, NEW g, \A x \in S : f[x] = g[x]
  PROVE  SumOver(f, S) = SumOver(g, S)
<1>. DEFINE Bad == {T \in SUBSET S : SumOver(f, T) # SumOver(g, T)}
<1>1. SUFFICES ASSUME Bad # {} PROVE FALSE
  OBVIOUS
<1>2. PICK T \in Bad : \A U \in Bad : ~(U \subseteq T /\ U # T)
  <2>1. Bad \in SUBSET (SUBSET S)
    OBVIOUS
  <2>. HIDE DEF Bad
  <2>. QED BY <1>1, <2>1, SmallestSubset
<1>3. /\ SumOver(f, T) = IF T = {} THEN 0 ELSE f[Pick(T)] + SumOver(f, T \ {Pick(T)})
      /\ SumOver(g, T) = IF T = {} THEN 0 ELSE g[Pick(T)] + SumOver(g, T \ {Pick(T)})
  BY <1>2, FS_Subset, SumStep
<1>4. T # {} => f[Pick(T)] = g[Pick(T)] /\ SumOver(f, T \ {Pick(T)}) = SumOver(g, T \ {Pick(T)})
  BY <1>2, PickIn
<1>. QED BY <1>2, <1>3, <1>4

(* Any element can be taken out.                                           *)
LEMMA SumRemove ==
  ASSUME NEW S, IsFiniteSet(S), NEW f, \A x \in S : f[x] \in Int, NEW e \in S
  PROVE  SumOver(f, S) = f[e] + SumOver(f, S \ {e})
<1>. DEFINE Splits(T, a) == SumOver(f, T) = f[a] + SumOver(f, T \ {a})
            Bad == {T \in SUBSET S : \E a \in T : ~Splits(T, a)}
<1>1. SUFFICES ASSUME Bad # {} PROVE FALSE
  OBVIOUS
<1>2. PICK T \in Bad : \A U \in Bad : ~(U \subseteq T /\ U # T)
  <2>1. Bad \in SUBSET (SUBSET S)
    OBVIOUS
  <2>. HIDE DEF Bad
  <2>. QED BY <1>1, <2>1, SmallestSubset
<1>3. PICK a \in T : ~Splits(T, a)
  BY <1>2
<1>4. PICK y \in T : SumOver(f, T) = f[y] + SumOver(f, T \ {y})
  BY <1>2, <1>3, FS_Subset, SumStep, PickIn
<1>5. a # y
  BY <1>3, <1>4
<1>6. T \ {y} \in SUBSET S /\ a \in T \ {y} /\ T \ {a} \in SUBSET S /\ y \in T \ {a}
  BY <1>2, <1>5
<1>7. Splits(T \ {y}, a) /\ Splits(T \ {a}, y)
  <2>1. T \ {y} \notin Bad /\ T \ {a} \notin Bad
    BY <1>2, <1>4
  <2>. HIDE DEF Splits
  <2>. QED BY <1>6, <2>1
<1>8. (T \ {y}) \ {a} = (T \ {a}) \ {y}
  OBVIOUS
<1>9. SumOver(f, (T \ {y}) \ {a}) \in Int /\ f[a] \in Int /\ f[y] \in Int
  <2>1. IsFiniteSet((T \ {y}) \ {a}) /\ (T \ {y}) \ {a} \subseteq S
    BY <1>2, FS_Subset
  <2>. QED BY <1>2, <2>1, SumType
<1>10. PICK rest \in Int : rest = SumOver(f, (T \ {y}) \ {a})
  BY <1>9
<1>11. SumOver(f, T) = f[y] + (f[a] + rest) /\ SumOver(f, T \ {a}) = f[y] + rest
  BY <1>4, <1>7, <1>8, <1>10
<1>12. SumOver(f, T) = f[a] + SumOver(f, T \ {a})
  BY <1>9, <1>11
<1>. QED BY <1>3, <1>12

(* A sum with one element more.                                            *)
LEMMA SumAdd ==
  ASSUME NEW S, IsFiniteSet(S), NEW f, NEW e, e \notin S, \A x \in S \cup {e} : f[x] \in Int
  PROVE  SumOver(f, S \cup {e}) = f[e] + SumOver(f, S)
<1>1. IsFiniteSet(S \cup {e}) /\ (S \cup {e}) \ {e} = S
  BY FS_AddElement
<1>. QED BY <1>1, SumRemove

(* A sum of one element.                                                   *)
LEMMA SumSingle == \A f, e : f[e] \in Int => SumOver(f, {e}) = f[e]
<1> SUFFICES ASSUME NEW f, NEW e, f[e] \in Int PROVE SumOver(f, {e}) = f[e]
  OBVIOUS
<1>1. SumOver(f, {} \cup {e}) = f[e] + SumOver(f, {})
  BY FS_EmptySet, SumAdd
<1>. QED BY <1>1, SumEmpty

(* One value changes.                                                      *)
LEMMA SumChange ==
  ASSUME NEW S, IsFiniteSet(S), NEW f, NEW g, NEW e \in S,
         \A x \in S : f[x] \in Int /\ g[x] \in Int,
         \A x \in S \ {e} : g[x] = f[x]
  PROVE  SumOver(g, S) = SumOver(f, S) - f[e] + g[e]
<1>1. SumOver(f, S) = f[e] + SumOver(f, S \ {e}) /\ SumOver(g, S) = g[e] + SumOver(g, S \ {e})
  BY SumRemove
<1>2. IsFiniteSet(S \ {e})
  BY FS_Subset
<1>3. SumOver(f, S \ {e}) = SumOver(g, S \ {e}) /\ SumOver(f, S \ {e}) \in Int
  BY <1>2, SumSame, SumType
<1>. QED BY <1>1, <1>3

(* The sum over two disjoint sets.                                         *)
LEMMA SumUnion ==
  ASSUME NEW S, IsFiniteSet(S), NEW T, IsFiniteSet(T), S \cap T = {}, NEW f,
         \A x \in S \cup T : f[x] \in Int
  PROVE  SumOver(f, S \cup T) = SumOver(f, S) + SumOver(f, T)
<1>. DEFINE Bad == {U \in SUBSET T : SumOver(f, S \cup U) # SumOver(f, S) + SumOver(f, U)}
<1>1. SUFFICES ASSUME Bad # {} PROVE FALSE
  OBVIOUS
<1>2. PICK U \in Bad : \A V \in Bad : ~(V \subseteq U /\ V # U)
  <2>1. Bad \in SUBSET (SUBSET T)
    OBVIOUS
  <2>. HIDE DEF Bad
  <2>. QED BY <1>1, <2>1, SmallestSubset
<1>3. SumOver(f, S) \in Int
  BY SumType
<1>4. CASE U = {}
  BY <1>2, <1>3, <1>4, SumEmpty
<1>5. CASE U # {}
  <2>1. PICK e \in U : TRUE
    BY <1>5
  <2>. DEFINE V == U \ {e}
  <2>2. V \subseteq U /\ V # U /\ V \in SUBSET T /\ e \in T /\ V \cup {e} = U
    BY <1>2, <2>1
  <2>3. SumOver(f, S \cup V) = SumOver(f, S) + SumOver(f, V)
    BY <1>2, <2>2
  <2>4. IsFiniteSet(V) /\ IsFiniteSet(S \cup V)
    <3>. HIDE DEF V
    <3>1. IsFiniteSet(T) /\ V \subseteq T
      BY <2>2
    <3>2. IsFiniteSet(V)
      BY <3>1, FS_Subset
    <3>3. IsFiniteSet(S)
      OBVIOUS
    <3>. QED BY <3>2, <3>3, FS_Union
  <2>5. SumOver(f, V \cup {e}) = f[e] + SumOver(f, V)
    <3>1. e \notin V /\ \A x \in V \cup {e} : f[x] \in Int
      BY <2>2
    <3>. HIDE DEF V
    <3>. QED BY <2>4, <3>1, SumAdd
  <2>6. SumOver(f, (S \cup V) \cup {e}) = f[e] + SumOver(f, S \cup V)
    <3>1. e \notin S \cup V /\ \A x \in (S \cup V) \cup {e} : f[x] \in Int
      BY <2>2
    <3>. HIDE DEF V
    <3>. QED BY <2>4, <3>1, SumAdd
  <2>7. (S \cup V) \cup {e} = S \cup U
    BY <2>1
  <2>8. SumOver(f, V) \in Int /\ f[e] \in Int
    <3>1. \A x \in V : f[x] \in Int
      BY <2>2
    <3>. HIDE DEF V
    <3>. QED BY <2>2, <2>4, <3>1, SumType
  <2>9. SumOver(f, S \cup U) = SumOver(f, S) + SumOver(f, U)
    <3>. HIDE DEF V
    <3>1. SumOver(f, S \cup U) = f[e] + SumOver(f, S \cup V)
      BY <2>6, <2>7
    <3>2. SumOver(f, U) = f[e] + SumOver(f, V)
      BY <2>2, <2>5
    <3>. QED BY <1>3, <2>3, <2>8, <3>1, <3>2
  <2>. QED BY <1>2, <2>9
<1>. QED BY <1>4, <1>5

(* Natural numbers add up to one.                                          *)
LEMMA SumNat ==
  ASSUME NEW S, IsFiniteSet(S), NEW f, \A x \in S : f[x] \in Nat
  PROVE  SumOver(f, S) \in Nat
<1>. DEFINE Bad == {T \in SUBSET S : SumOver(f, T) \notin Nat}
<1>1. SUFFICES ASSUME Bad # {} PROVE FALSE
  OBVIOUS
<1>2. PICK T \in Bad : \A U \in Bad : ~(U \subseteq T /\ U # T)
  <2>1. Bad \in SUBSET (SUBSET S)
    OBVIOUS
  <2>. HIDE DEF Bad
  <2>. QED BY <1>1, <2>1, SmallestSubset
<1>3. SumOver(f, T) = IF T = {} THEN 0 ELSE f[Pick(T)] + SumOver(f, T \ {Pick(T)})
  BY <1>2, FS_Subset, SumStep
<1>4. T # {} => Pick(T) \in T /\ SumOver(f, T \ {Pick(T)}) \in Nat
  BY <1>2, PickIn
<1>. QED BY <1>2, <1>3, <1>4

(* A part of natural numbers adds up to no more than all of them.          *)
LEMMA SumSubset ==
  ASSUME NEW S, IsFiniteSet(S), NEW f, \A x \in S : f[x] \in Nat, NEW T \in SUBSET S
  PROVE  SumOver(f, T) \in Nat /\ SumOver(f, T) <= SumOver(f, S)
<1>1. IsFiniteSet(T) /\ IsFiniteSet(S \ T) /\ T \cup (S \ T) = S
  BY FS_Subset
<1>2. SumOver(f, T) \in Nat /\ SumOver(f, S \ T) \in Nat
  BY <1>1, SumNat
<1>3. SumOver(f, S) = SumOver(f, T) + SumOver(f, S \ T)
  BY <1>1, SumUnion
<1>. QED BY <1>2, <1>3

(* Numbers of at most a bound add up to at most as many times the bound.   *)
LEMMA SumBound ==
  ASSUME NEW S, IsFiniteSet(S), NEW most \in Nat, NEW f,
         \A x \in S : f[x] \in Nat /\ f[x] <= most
  PROVE  SumOver(f, S) <= Cardinality(S) * most
<1>. DEFINE Bad == {T \in SUBSET S : ~(SumOver(f, T) <= Cardinality(T) * most)}
<1>1. SUFFICES ASSUME Bad # {} PROVE FALSE
  OBVIOUS
<1>2. PICK T \in Bad : \A U \in Bad : ~(U \subseteq T /\ U # T)
  <2>1. Bad \in SUBSET (SUBSET S)
    OBVIOUS
  <2>. HIDE DEF Bad
  <2>. QED BY <1>1, <2>1, SmallestSubset
<1>3. IsFiniteSet(T) /\ T # {}
  BY <1>2, FS_Subset, FS_EmptySet, SumEmpty
<1>. PICK x, U : x = Pick(T) /\ U = T \ {x}
  OBVIOUS
<1>4. x \in T /\ U \notin Bad
  BY <1>2, <1>3, PickIn
<1>5. SumOver(f, T) = f[x] + SumOver(f, U)
  BY <1>3, SumStep
<1>6. IsFiniteSet(U) /\ Cardinality(U) \in Nat /\ Cardinality(T) = Cardinality(U) + 1
  <2>1. IsFiniteSet(U) /\ Cardinality(U) = Cardinality(T) - 1
    BY <1>3, <1>4, FS_RemoveElement
  <2>2. Cardinality(U) \in Nat /\ Cardinality(T) \in Nat
    BY <1>3, <2>1, FS_CardinalityType
  <2>. QED BY <2>1, <2>2
<1>7. SumOver(f, U) \in Nat /\ SumOver(f, U) <= Cardinality(U) * most
  BY <1>2, <1>4, <1>6, SumNat
<1>8. ASSUME NEW n \in Nat PROVE n * most \in Nat /\ (n + 1) * most = n * most + most
  <2>1. n * most \in Nat
    OBVIOUS
  <2>2. (n + 1) * most = n * most + most
    OBVIOUS
  <2>. QED BY <2>1, <2>2
<1>9. Cardinality(U) * most \in Nat /\ Cardinality(T) * most = Cardinality(U) * most + most
  <2>. PICK n \in Nat : n = Cardinality(U)
    BY <1>6
  <2>. QED BY <1>6, <1>8
<1>10. SumOver(f, T) <= Cardinality(T) * most
  BY <1>2, <1>4, <1>5, <1>7, <1>9
<1>. QED BY <1>2, <1>10

(* Zeros add up to nothing.                                                *)
LEMMA SumZero ==
  ASSUME NEW S, IsFiniteSet(S), NEW f, \A x \in S : f[x] = 0
  PROVE  SumOver(f, S) = 0
<1> DEFINE Bad == {T \in SUBSET S : SumOver(f, T) # 0}
<1>1. SUFFICES ASSUME Bad # {} PROVE FALSE
  OBVIOUS
<1>2. PICK T \in Bad : \A U \in Bad : ~(U \subseteq T /\ U # T)
  <2>1. Bad \in SUBSET (SUBSET S)
    OBVIOUS
  <2>. HIDE DEF Bad
  <2>. QED BY <1>1, <2>1, SmallestSubset
<1>3. IsFiniteSet(T) /\ T # {}
  BY FS_Subset, SumEmpty
<1>4. Pick(T) \in T /\ T \ {Pick(T)} \notin Bad
  BY <1>2, <1>3, PickIn
<1>5. SumOver(f, T) = f[Pick(T)] + SumOver(f, T \ {Pick(T)})
  BY <1>3, SumStep
<1>. QED BY <1>4, <1>5

-----------------------------------------------------------------------------
(* Folds in general.  A recursion over the subsets of a finite set, which  *)
(* takes one chosen element away at a time, has a solution.                *)
IsFold(g, step, chosen, base, S) ==
    g = [s \in SUBSET S |-> IF s = {} THEN base ELSE step[<<s, g[s \ {chosen[s]}]>>]]

(* There is one fold at most along a given choice of elements.             *)
LEMMA FoldUnique ==
  ASSUME NEW S, IsFiniteSet(S), NEW step, NEW base, NEW chosen,
         \A s \in SUBSET S : s # {} => chosen[s] \in s,
         NEW g, NEW h, IsFold(g, step, chosen, base, S), IsFold(h, step, chosen, base, S)
  PROVE  g = h
<1>. DEFINE Bad == {s \in SUBSET S : g[s] # h[s]}
<1>1. SUFFICES ASSUME Bad # {} PROVE FALSE
  <2>1. Bad = {} => \A s \in SUBSET S : g[s] = h[s]
    OBVIOUS
  <2>2. /\ DOMAIN g = SUBSET S /\ g = [s \in DOMAIN g |-> g[s]]
        /\ DOMAIN h = SUBSET S /\ h = [s \in DOMAIN h |-> h[s]]
    BY DEF IsFold
  <2>. HIDE DEF Bad
  <2>. QED BY <2>1, <2>2
<1>2. PICK T \in Bad : \A U \in Bad : ~(U \subseteq T /\ U # T)
  <2>1. Bad \in SUBSET (SUBSET S)
    OBVIOUS
  <2>. HIDE DEF Bad
  <2>. QED BY <1>1, <2>1, SmallestSubset
<1>3. CASE T = {}
  BY <1>2, <1>3 DEF IsFold
<1>4. CASE T # {}
  <2>1. chosen[T] \in T
    BY <1>2, <1>4
  <2>2. g[T \ {chosen[T]}] = h[T \ {chosen[T]}]
    BY <1>2, <2>1
  <2>3. /\ g[T] = step[<<T, g[T \ {chosen[T]}]>>]
        /\ h[T] = step[<<T, h[T \ {chosen[T]}]>>]
    BY <1>2, <1>4 DEF IsFold
  <2>. QED BY <1>2, <2>2, <2>3
<1>. QED BY <1>3, <1>4

(* A fold of a set is one of each of its subsets.                          *)
LEMMA FoldRestricted ==
  ASSUME NEW step, NEW base, NEW chosen, NEW S, NEW g, IsFold(g, step, chosen, base, S),
         NEW T \in SUBSET S
  PROVE  IsFold([s \in SUBSET T |-> g[s]], step, chosen, base, T)
<1>. DEFINE h == [s \in SUBSET T |-> g[s]]
<1>1. ASSUME NEW s \in SUBSET T
      PROVE  g[s] = IF s = {} THEN base ELSE step[<<s, h[s \ {chosen[s]}]>>]
  <2>1. s \ {chosen[s]} \in SUBSET T /\ s \in SUBSET S
    OBVIOUS
  <2>2. h[s \ {chosen[s]}] = g[s \ {chosen[s]}]
    BY <2>1
  <2>3. g[s] = IF s = {} THEN base ELSE step[<<s, g[s \ {chosen[s]}]>>]
    BY <2>1 DEF IsFold
  <2>. QED BY <2>2, <2>3
<1>2. h = [s \in SUBSET T |-> IF s = {} THEN base ELSE step[<<s, h[s \ {chosen[s]}]>>]]
  BY <1>1
<1>. QED BY <1>2 DEF IsFold

(* And every finite set has one.                                           *)
LEMMA FoldExists ==
  ASSUME NEW S, IsFiniteSet(S), NEW step, NEW base, NEW chosen,
         \A s \in SUBSET S : s # {} => chosen[s] \in s
  PROVE  \E g : IsFold(g, step, chosen, base, S)
<1>. DEFINE Folds(g, T) == IsFold(g, step, chosen, base, T)
            Bad == {T \in SUBSET S : ~\E g : Folds(g, T)}
<1>1. SUFFICES ASSUME Bad # {} PROVE FALSE
  OBVIOUS
<1>2. PICK T \in Bad : \A U \in Bad : ~(U \subseteq T /\ U # T)
  <2>1. Bad \in SUBSET (SUBSET S)
    OBVIOUS
  <2>. HIDE DEF Bad
  <2>. QED BY <1>1, <2>1, SmallestSubset
<1>. DEFINE part == [U \in SUBSET T |-> CHOOSE g : Folds(g, U)]
            below(s) == part[s][s]
            total == [s \in SUBSET T |->
                        IF s = T /\ T # {} THEN step[<<T, below(T \ {chosen[T]})>>] ELSE below(s)]
<1>3. ASSUME NEW U \in SUBSET T, U # T PROVE Folds(part[U], U)
  <2>1. \E g : Folds(g, U)
    BY <1>2, <1>3
  <2>. QED BY <2>1
<1>4. ASSUME NEW s \in SUBSET T, s # {}, s # T
      PROVE  below(s) = step[<<s, below(s \ {chosen[s]})>>]
  <2>. DEFINE r == s \ {chosen[s]}
  <2>1. s \in SUBSET S /\ chosen[s] \in s /\ r \in SUBSET s /\ r \in SUBSET T /\ r # T
    BY <1>2, <1>4
  <2>2. Folds(part[s], s) /\ Folds(part[r], r)
    BY <1>3, <1>4, <2>1
  <2>3. IsFiniteSet(r) /\ r \in SUBSET S
    BY <1>2, <2>1, FS_Subset
  <2>4. part[r] = [u \in SUBSET r |-> part[s][u]]
    <3>. HIDE DEF part, r
    <3>1. Folds([u \in SUBSET r |-> part[s][u]], r)
      BY <2>1, <2>2, FoldRestricted
    <3>. QED BY <2>2, <2>3, <3>1, FoldUnique
  <2>5. below(r) = part[s][r]
    <3>. HIDE DEF part, r
    <3>. QED BY <2>4
  <2>6. part[s][s] = step[<<s, part[s][r]>>]
    <3>. HIDE DEF part
    <3>. QED BY <1>4, <2>2 DEF IsFold
  <2>. QED BY <2>5, <2>6
<1>5. T # {} => below({}) = base
  <2>. HIDE DEF part
  <2>. QED BY <1>3 DEF IsFold
<1>6. T # {}
  <2>1. Folds([s \in SUBSET {} |-> base], {})
    BY DEF IsFold
  <2>. QED BY <1>2, <2>1
<1>7. ASSUME NEW s \in SUBSET T
      PROVE  total[s] = IF s = {} THEN base ELSE step[<<s, total[s \ {chosen[s]}]>>]
  <2>. HIDE DEF part
  <2>1. CASE s = {}
    BY <1>5, <1>6, <2>1
  <2>2. CASE s # {}
    <3>1. chosen[s] \in s /\ s \ {chosen[s]} \in SUBSET T /\ s \ {chosen[s]} # T
      BY <1>2, <2>2
    <3>2. total[s \ {chosen[s]}] = below(s \ {chosen[s]})
      BY <3>1
    <3>. HIDE DEF below
    <3>. QED BY <1>4, <2>2, <3>2
  <2>. QED BY <2>1, <2>2
<1>8. total = [s \in SUBSET T |-> IF s = {} THEN base ELSE step[<<s, total[s \ {chosen[s]}]>>]]
  <2>. HIDE DEF below, part
  <2>. QED BY <1>7
<1>9. Folds(total, T)
  <2>. HIDE DEF total
  <2>. QED BY <1>8 DEF IsFold
<1>. QED BY <1>2, <1>9

(* When every step gives a value in V, so does the fold. *)
LEMMA FoldType ==
  ASSUME NEW S, IsFiniteSet(S), NEW V, NEW base \in V, NEW chosen,
         \A s \in SUBSET S : s # {} => chosen[s] \in s,
         NEW step \in [(SUBSET S) \X V -> V], NEW g, IsFold(g, step, chosen, base, S)
  PROVE  g \in [SUBSET S -> V]
<1>. DEFINE Bad == {s \in SUBSET S : g[s] \notin V}
<1>1. SUFFICES ASSUME Bad # {} PROVE FALSE
  BY DEF IsFold
<1>2. PICK T \in Bad : \A U \in Bad : ~(U \subseteq T /\ U # T)
  <2>1. Bad \in SUBSET (SUBSET S)
    OBVIOUS
  <2>. HIDE DEF Bad
  <2>. QED BY <1>1, <2>1, SmallestSubset
<1>3. CASE T = {}
  BY <1>2, <1>3 DEF IsFold
<1>4. CASE T # {}
  <2>1. chosen[T] \in T /\ T \ {chosen[T]} \in SUBSET S
    BY <1>2, <1>4
  <2>2. g[T \ {chosen[T]}] \in V
    BY <1>2, <2>1
  <2>3. g[T] = step[<<T, g[T \ {chosen[T]}]>>]
    BY <1>2, <1>4 DEF IsFold
  <2>. QED BY <1>2, <2>2, <2>3
<1>. QED BY <1>3, <1>4

(* Finitely many numbers have a largest one.                               *)
LEMMA LargestExists ==
  ASSUME NEW S, IsFiniteSet(S), \A x \in S : x \in Int, S # {}
  PROVE  \E x \in S : \A y \in S : x >= y
<1>. DEFINE Bad == {T \in SUBSET S : T # {} /\ ~\E x \in T : \A y \in T : x >= y}
<1>1. SUFFICES ASSUME Bad # {} PROVE FALSE
  OBVIOUS
<1>2. PICK T \in Bad : \A U \in Bad : ~(U \subseteq T /\ U # T)
  <2>1. Bad \in SUBSET (SUBSET S)
    OBVIOUS
  <2>. HIDE DEF Bad
  <2>. QED BY <1>1, <2>1, SmallestSubset
<1>3. PICK e \in T : TRUE
  BY <1>2
<1>4. T \subseteq S /\ e \in Int /\ \A y \in T : y \in Int
  BY <1>2, <1>3
<1>5. CASE T = {e}
  BY <1>2, <1>4, <1>5
<1>6. CASE T # {e}
  <2>. DEFINE U == T \ {e}
  <2>1. U \subseteq T /\ U # T /\ U \in SUBSET S /\ U # {}
    BY <1>3, <1>4, <1>6
  <2>2. PICK x \in U : \A y \in U : x >= y
    BY <1>2, <2>1
  <2>3. CASE x >= e
    BY <1>2, <2>2, <2>3
  <2>4. CASE e >= x
    BY <1>2, <1>3, <1>4, <2>2, <2>4
  <2>. QED BY <1>4, <2>2, <2>3, <2>4
<1>. QED BY <1>5, <1>6

(* Two different values are two.                                           *)
LEMMA PairCounts ==
  ASSUME NEW a, NEW b, a # b
  PROVE  IsFiniteSet({a, b}) /\ Cardinality({a, b}) = 2
<1>1. IsFiniteSet({a}) /\ Cardinality({a}) = 1
  BY FS_Singleton
<1>2. b \notin {a}
  OBVIOUS
<1>3. IsFiniteSet({a} \cup {b}) /\ Cardinality({a} \cup {b}) = Cardinality({a}) + 1
  BY <1>1, <1>2, FS_AddElement
<1>4. {a} \cup {b} = {a, b}
  OBVIOUS
<1>. QED BY <1>1, <1>3, <1>4

(* The largest of finitely many numbers.                                   *)
LEMMA MaxIn ==
  ASSUME NEW S, IsFiniteSet(S), S \subseteq Int, S # {}
  PROVE  Max(S) \in S /\ \A x \in S : x <= Max(S)
<1>1. \E x \in S : \A y \in S : x >= y
  
  <2>1. \A x \in S : x \in Int
    OBVIOUS
  <2>. QED BY <2>1, LargestExists
<1>2. Max(S) \in S /\ \A y \in S : Max(S) >= y
  BY <1>1 DEF Max
<1>. QED BY <1>2

(* A finite set of integers has its minimum.                               *)
LEMMA MinIn ==
  ASSUME NEW S, IsFiniteSet(S), S \subseteq Int, S # {}
  PROVE  Min(S) \in S /\ \A x \in S : Min(S) <= x
<1>. DEFINE Opposites == {y \in Int : -y \in S}
            f == [x \in S |-> -x]
<1>1. IsFiniteSet(Opposites)
  <2>1. \A x \in S : x \in Int /\ -x \in Int /\ -(-x) = x
    OBVIOUS
  <2>2. \A y \in Opposites : y \in Int /\ -y \in S /\ -(-y) = y
    OBVIOUS
  <2>3. f \in [S -> Opposites]
    BY <2>1
  <2>4. \A y \in Opposites : \E x \in S : f[x] = y
    BY <2>2
  <2>5. f \in Surjection(S, Opposites)
    BY <2>3, <2>4 DEF Surjection
  <2>. HIDE DEF Opposites, f
  <2>. QED BY <2>5, FS_Surjection
<1>2. Opposites # {} /\ \A y \in Opposites : y \in Int
  <2>1. PICK x \in S : TRUE
    OBVIOUS
  <2>2. x \in Int /\ -x \in Int /\ -(-x) = x
    BY <2>1
  <2>3. -x \in Opposites
    BY <2>2
  <2>. QED BY <2>3
<1>3. \E y \in Opposites : \A z \in Opposites : y >= z
  <2>. HIDE DEF Opposites
  <2>. QED BY <1>1, <1>2, LargestExists
<1>4. PICK y \in Opposites : \A z \in Opposites : y >= z
  BY <1>3
<1>5. ASSUME NEW x \in S PROVE -y <= x
  <2>1. x \in Int /\ -x \in Int /\ -(-x) = x
    BY <1>5
  <2>2. y >= -x
    BY <1>4, <2>1
  <2>. QED BY <1>4, <2>1, <2>2
<1>6. -y \in S
  BY <1>4
<1>7. \E m \in S : \A x \in S : m <= x
  BY <1>5, <1>6
<1>. QED BY <1>7 DEF Min

(* The image of a finite set is finite.                                    *)
LEMMA ImageFinite ==
  ASSUME NEW S, IsFiniteSet(S), NEW f
  PROVE  IsFiniteSet({f[x] : x \in S})
<1>. DEFINE T == {f[x] : x \in S}
            g == [x \in S |-> f[x]]
<1>1. g \in Surjection(S, T)
  BY DEF Surjection
<1>. HIDE DEF T, g
<1>2. IsFiniteSet(T)
  BY <1>1, FS_Surjection
<1>. QED BY <1>2 DEF T

(* The nth smallest of a finite set of numbers has its place.              *)
LEMMA NthExists ==
  ASSUME NEW S, IsFiniteSet(S), S \subseteq Int, NEW n \in 1..Cardinality(S)
  PROVE  \E i \in S : Cardinality({j \in S : j <= i}) = n
<1>. DEFINE upTo(T, i) == {j \in T : j <= i}
            reached(T, m) == \E i \in T : Cardinality(upTo(T, i)) = m
            Bad == {T \in SUBSET S : \E m \in 1..Cardinality(T) : ~reached(T, m)}
<1>. SUFFICES ASSUME ~reached(S, n) PROVE FALSE
  OBVIOUS
<1>. HIDE DEF upTo, reached
<1>1. Bad # {}
  <2>1. S \in Bad
    OBVIOUS
  <2>. QED BY <2>1
<1>. USE DEF upTo, reached
<1>2. PICK T \in Bad : \A U \in Bad : ~(U \subseteq T /\ U # T)
  <2>1. Bad \in SUBSET (SUBSET S)
    OBVIOUS
  <2>. HIDE DEF Bad, upTo, reached
  <2>. QED BY ONLY IsFiniteSet(S), <1>1, <2>1, SmallestSubset
<1>3. IsFiniteSet(T) /\ T \subseteq Int /\ T \subseteq S /\ Cardinality(T) \in Nat
  BY FS_Subset, FS_CardinalityType
<1>4. PICK m \in 1..Cardinality(T) : ~reached(T, m)
  OBVIOUS
<1>5. T # {}
  BY <1>4, FS_EmptySet
<1>6. PICK top \in T : \A x \in T : top >= x
  <2>1. \A x \in T : x \in Int
    BY <1>3
  <2>. HIDE DEF Bad
  <2>. QED BY <1>3, <1>5, <2>1, LargestExists
<1>7. upTo(T, top) = T
  BY <1>3, <1>6
<1>8. m # Cardinality(T)
  BY <1>4, <1>6, <1>7
<1>. DEFINE rest == T \ {top}
<1>9. Cardinality(rest) = Cardinality(T) - 1 /\ IsFiniteSet(rest)
  BY <1>3, <1>6, FS_RemoveElement
<1>10. rest \notin Bad
  BY <1>2, <1>6
<1>11. m \in 1..Cardinality(rest)
  BY <1>3, <1>8, <1>9
<1>12. PICK i \in rest : Cardinality(upTo(rest, i)) = m
  BY <1>3, <1>10, <1>11
<1>13. upTo(rest, i) = upTo(T, i)
  BY <1>3, <1>6, <1>12
<1>14. i \in T /\ Cardinality(upTo(T, i)) = m
  BY <1>12, <1>13
<1>15. ~\E x \in T : Cardinality(upTo(T, x)) = m
  BY <1>4
<1>. QED BY ONLY <1>14, <1>15

=============================================================================

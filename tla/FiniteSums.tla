----------------------------- MODULE FiniteSums -----------------------------
(***************************************************************************)
(* What SumFunctionOnSet of the community modules adds up.  It is defined  *)
(* by recursion over the subsets of a set, in an order that CHOOSE picks;  *)
(* the facts below say that a sum over a finite set of natural numbers is  *)
(* what one expects, whatever the order.                                   *)
(*                                                                         *)
(* The sum is the number of units, pairs of an element and a number up to  *)
(* its value: counting the units of every subset satisfies the equation of *)
(* the recursion, and only one function does, because a smallest subset on *)
(* which two of them differ cannot exist.                                  *)
(***************************************************************************)
EXTENDS Integers, FiniteSets, Functions, FiniteSetTheorems, WellFoundedInduction, TLAPS

(* The units of f over S: one for each x in S and number up to f[x].       *)
UnitsOf(f, x) == {x} \X (1 .. f[x])
Units(f, S) == UNION {UnitsOf(f, x) : x \in S}

(* Among sets of subsets of a finite set there are least ones.             *)
LEMMA LeastCounterexample ==
  ASSUME NEW S, IsFiniteSet(S), NEW Bad \in SUBSET SUBSET S, Bad # {}
  PROVE  \E T \in Bad : \A U \in Bad : U \subseteq T => U = T
<1>1. IsWellFoundedOn(StrictSubsetOrdering(S), SUBSET S)
  BY FS_StrictSubsetOrderingWellFounded, FS_FiniteSubsetsOfFinite, Zenon
<1>2. PICK T \in Bad : \A U \in Bad : <<U, T>> \notin StrictSubsetOrdering(S)
  BY <1>1, WFMin, Zenon
<1>3. ASSUME NEW U \in Bad, U \subseteq T, U # T  PROVE FALSE
  <2>1. <<U, T>> \in StrictSubsetOrdering(S)
    BY <1>3, SMT DEF StrictSubsetOrdering
  <2> QED
    BY <2>1, <1>2
<1> QED
  BY <1>3, Zenon

(* An element has as many units as its value says.                         *)
LEMMA UnitsOfOne ==
  ASSUME NEW f, NEW x, f[x] \in Nat
  PROVE  IsFiniteSet(UnitsOf(f, x)) /\ Cardinality(UnitsOf(f, x)) = f[x]
<1>1. IsFiniteSet({x}) /\ Cardinality({x}) = 1
  BY FS_Singleton, Zenon
<1>2. IsFiniteSet(1 .. f[x]) /\ Cardinality(1 .. f[x]) = f[x]
  BY FS_Interval
<1>3. /\ IsFiniteSet({x} \X (1 .. f[x]))
      /\ Cardinality({x} \X (1 .. f[x])) = Cardinality({x}) * Cardinality(1 .. f[x])
  BY <1>1, <1>2, FS_Product, Zenon
<1> QED
  BY <1>1, <1>2, <1>3 DEF UnitsOf

(* A finite set has finitely many units.                                   *)
LEMMA UnitsAreFinite ==
  ASSUME NEW S, IsFiniteSet(S), NEW f, \A x \in S : f[x] \in Nat
  PROVE  IsFiniteSet(Units(f, S))
<1> DEFINE Parts == {UnitsOf(f, x) : x \in S}
           part == [x \in S |-> UnitsOf(f, x)]
<1>1. part \in Surjection(S, Parts)
  BY DEF Surjection
<1>2. IsFiniteSet(Parts)
  BY <1>1, FS_Surjection, Zenon
<1>3. \A T \in Parts : IsFiniteSet(T)
  BY UnitsOfOne
<1> QED
  BY <1>2, <1>3, FS_UNION, Zenon DEF Units

(* One element more adds its own units.                                    *)
LEMMA UnitsOfMore ==
  ASSUME NEW S, IsFiniteSet(S), NEW f, NEW x, x \in S, \A y \in S : f[y] \in Nat
  PROVE  Cardinality(Units(f, S)) = f[x] + Cardinality(Units(f, S \ {x}))
<1>1. IsFiniteSet(S \ {x})
  BY FS_RemoveElement
<1>2. IsFiniteSet(Units(f, S \ {x}))
  BY <1>1, UnitsAreFinite
<1>3. IsFiniteSet(UnitsOf(f, x)) /\ Cardinality(UnitsOf(f, x)) = f[x]
  BY UnitsOfOne
<1>4. Units(f, S) = UnitsOf(f, x) \cup Units(f, S \ {x})
  BY DEF Units
<1>5. UnitsOf(f, x) \cap Units(f, S \ {x}) = {}
  BY DEF Units, UnitsOf
<1>6. Cardinality(Units(f, S)) = Cardinality(UnitsOf(f, x)) + Cardinality(Units(f, S \ {x})) -
        Cardinality(UnitsOf(f, x) \cap Units(f, S \ {x}))
  BY <1>2, <1>3, <1>4, FS_Union, Zenon
<1>7. Cardinality(Units(f, S \ {x})) \in Nat
  BY <1>2, FS_CardinalityType
<1> QED
  BY <1>3, <1>5, <1>6, <1>7, FS_EmptySet

(* The equation by which SumFunctionOnSet sums f over every subset of S.    *)
Sums(f, g, S) ==
  g = [T \in SUBSET S |->
         IF T = {} THEN 0
         ELSE f[CHOOSE x \in T : TRUE] + g[T \ {CHOOSE x \in T : TRUE}]]

(* Counting units satisfies the equation ...                               *)
LEMMA CountingSums ==
  ASSUME NEW S, IsFiniteSet(S), NEW f, \A x \in S : f[x] \in Nat
  PROVE  Sums(f, [T \in SUBSET S |-> Cardinality(Units(f, T))], S)
<1> DEFINE count == [T \in SUBSET S |-> Cardinality(Units(f, T))]
           pick(T) == CHOOSE x \in T : TRUE
<1>1. ASSUME NEW T \in SUBSET S
      PROVE  count[T] = IF T = {} THEN 0 ELSE f[pick(T)] + count[T \ {pick(T)}]
  <2>1. CASE T = {}
    <3>1. Units(f, T) = {}
      BY <2>1 DEF Units
    <3> QED
      BY <2>1, <3>1, FS_EmptySet
  <2>2. CASE T # {}
    <3>1. pick(T) \in T
      BY <2>2, Zenon
    <3>2. IsFiniteSet(T)
      BY FS_Subset
    <3> HIDE DEF pick
    <3>3. Cardinality(Units(f, T)) = f[pick(T)] + Cardinality(Units(f, T \ {pick(T)}))
      BY <3>1, <3>2, UnitsOfMore
    <3> QED
      BY <2>2, <3>3
  <2> QED
    BY <2>1, <2>2
<1> QED
  BY <1>1, Zenon DEF Sums

(* ... and nothing else does.                                              *)
LEMMA SumsAreUnique ==
  ASSUME NEW S, IsFiniteSet(S), NEW f, NEW g, NEW h, Sums(f, g, S), Sums(f, h, S)
  PROVE  g = h
<1> DEFINE Bad == {T \in SUBSET S : g[T] # h[T]}
           pick(T) == CHOOSE x \in T : TRUE
<1>1. Bad = {}
  <2>1. SUFFICES ASSUME Bad # {} PROVE FALSE
    OBVIOUS
  <2>2. PICK T \in Bad : \A U \in Bad : U \subseteq T => U = T
    <3>1. Bad \in SUBSET SUBSET S
      OBVIOUS
    <3> HIDE DEF Bad
    <3> QED
      BY <2>1, <3>1, LeastCounterexample
  <2>3. /\ g[T] = IF T = {} THEN 0 ELSE f[pick(T)] + g[T \ {pick(T)}]
        /\ h[T] = IF T = {} THEN 0 ELSE f[pick(T)] + h[T \ {pick(T)}]
    BY Zenon DEF Sums
  <2>4. T # {} => pick(T) \in T
    BY Zenon
  <2> HIDE DEF pick
  <2>5. T # {} => g[T \ {pick(T)}] = h[T \ {pick(T)}]
    BY <2>2, <2>4
  <2> QED
    BY <2>2, <2>3, <2>5
<1> QED
  BY <1>1, Zenon DEF Sums

(* So the sum counts the units.                                            *)
LEMMA SumCounts ==
  ASSUME NEW S, IsFiniteSet(S), NEW f, \A x \in S : f[x] \in Nat
  PROVE  SumFunctionOnSet(f, S) = Cardinality(Units(f, S))
<1> DEFINE g == CHOOSE g : Sums(f, g, S)
           count == [T \in SUBSET S |-> Cardinality(Units(f, T))]
<1>1. SumFunctionOnSet(f, S) = g[S]
  BY Zenon DEF SumFunctionOnSet, FoldFunctionOnSet, MapThenFoldSet, Sums
<1>2. Sums(f, count, S)
  BY CountingSums, Zenon
<1>3. Sums(f, g, S)
  BY <1>2, Zenon
<1> HIDE DEF g
<1>4. g = count
  BY <1>2, <1>3, SumsAreUnique, Zenon
<1> QED
  BY <1>1, <1>4, Zenon

-----------------------------------------------------------------------------
(* Over no elements the sum is 0.                                          *)
LEMMA SumOfNone == ASSUME NEW f PROVE SumFunctionOnSet(f, {}) = 0
<1>1. IsFiniteSet({}) /\ Cardinality({}) = 0 /\ Units(f, {}) = {}
  BY FS_EmptySet DEF Units
<1> QED
  BY <1>1, SumCounts, Zenon

(* A sum of natural numbers is one.                                        *)
LEMMA SumIsNatural ==
  ASSUME NEW S, IsFiniteSet(S), NEW f, \A x \in S : f[x] \in Nat
  PROVE  SumFunctionOnSet(f, S) \in Nat
BY SumCounts, UnitsAreFinite, FS_CardinalityType

(* A sum is one of its terms and the sum of the others.                    *)
LEMMA SumOfMore ==
  ASSUME NEW S, IsFiniteSet(S), NEW f, NEW x, x \in S, \A y \in S : f[y] \in Nat
  PROVE  SumFunctionOnSet(f, S) = f[x] + SumFunctionOnSet(f, S \ {x})
<1>1. IsFiniteSet(S \ {x})
  BY FS_RemoveElement
<1> QED
  BY <1>1, SumCounts, UnitsOfMore

(* Two functions that agree on a set have the same sum.                    *)
LEMMA SumsAgree ==
  ASSUME NEW S, IsFiniteSet(S), NEW f, NEW g, \A x \in S : f[x] \in Nat /\ g[x] = f[x]
  PROVE  SumFunctionOnSet(g, S) = SumFunctionOnSet(f, S)
<1>1. Units(g, S) = Units(f, S)
  BY DEF Units, UnitsOf
<1> QED
  BY <1>1, SumCounts

(* When one term changes, the sum changes by as much.                      *)
LEMMA SumChangesInOnePlace ==
  ASSUME NEW S, IsFiniteSet(S), NEW f, NEW g, NEW x, x \in S,
         \A y \in S : f[y] \in Nat /\ g[y] \in Nat,
         \A y \in S \ {x} : g[y] = f[y]
  PROVE  SumFunctionOnSet(g, S) = SumFunctionOnSet(f, S) - f[x] + g[x]
<1>1. IsFiniteSet(S \ {x})
  BY FS_RemoveElement
<1>2. SumFunctionOnSet(g, S \ {x}) = SumFunctionOnSet(f, S \ {x})
  BY <1>1, SumsAgree
<1>3. SumFunctionOnSet(f, S \ {x}) \in Nat
  BY <1>1, SumIsNatural
<1>4. /\ SumFunctionOnSet(f, S) = f[x] + SumFunctionOnSet(f, S \ {x})
      /\ SumFunctionOnSet(g, S) = g[x] + SumFunctionOnSet(g, S \ {x})
  BY SumOfMore
<1> QED
  BY <1>2, <1>3, <1>4

(* A sum of zeros is 0.                                                    *)
LEMMA SumOfZeros ==
  ASSUME NEW S, IsFiniteSet(S), NEW f, \A x \in S : f[x] = 0
  PROVE  SumFunctionOnSet(f, S) = 0
<1>1. Units(f, S) = {}
  BY DEF Units, UnitsOf
<1> QED
  BY <1>1, SumCounts, FS_EmptySet

(* Renaming what is summed over does not change the sum.                   *)
LEMMA SumRenamed ==
  ASSUME NEW S, IsFiniteSet(S), NEW T, NEW b \in Bijection(S, T), NEW f, NEW g,
         \A y \in T : f[y] \in Nat,
         \A x \in S : g[x] = f[b[x]]
  PROVE  SumFunctionOnSet(g, S) = SumFunctionOnSet(f, T)
<1> DEFINE rename == [u \in Units(g, S) |-> <<b[u[1]], u[2]>>]
<1>0. /\ b \in [S -> T] /\ \A x, y \in S : b[x] = b[y] => x = y
      /\ \A y \in T : \E x \in S : b[x] = y
  BY Zenon DEF Bijection, Injection, Surjection, IsInjective
<1>1. rename \in [Units(g, S) -> Units(f, T)]
  <2> SUFFICES ASSUME NEW u \in Units(g, S)  PROVE <<b[u[1]], u[2]>> \in Units(f, T)
    OBVIOUS
  <2>0. PICK x \in S : u \in UnitsOf(g, x)
    BY DEF Units
  <2>1. PICK i \in 1 .. g[x] : u = <<x, i>>
    BY <2>0 DEF UnitsOf
  <2>2. b[x] \in T /\ i \in 1 .. f[b[x]]
    BY <1>0, <2>1
  <2> QED
    BY <2>1, <2>2 DEF Units, UnitsOf
<1>2. \A u, v \in Units(g, S) : rename[u] = rename[v] => u = v
  <2> SUFFICES ASSUME NEW u \in Units(g, S), NEW v \in Units(g, S),
                      <<b[u[1]], u[2]>> = <<b[v[1]], v[2]>>
               PROVE  u = v
    OBVIOUS
  <2>1. PICK x \in S : u \in UnitsOf(g, x)
    BY DEF Units
  <2>2. PICK y \in S : v \in UnitsOf(g, y)
    BY DEF Units
  <2>3. u = <<u[1], u[2]>> /\ u[1] = x /\ v = <<v[1], v[2]>> /\ v[1] = y
    BY <2>1, <2>2 DEF UnitsOf
  <2> QED
    BY <1>0, <2>3
<1>3. \A w \in Units(f, T) : \E u \in Units(g, S) : rename[u] = w
  <2> SUFFICES ASSUME NEW w \in Units(f, T)
               PROVE  \E u \in Units(g, S) : <<b[u[1]], u[2]>> = w
    OBVIOUS
  <2>0. PICK y \in T : w \in UnitsOf(f, y)
    BY DEF Units
  <2>1. PICK i \in 1 .. f[y] : w = <<y, i>>
    BY <2>0 DEF UnitsOf
  <2>2. PICK x \in S : b[x] = y
    BY <1>0
  <2>3. <<x, i>> \in Units(g, S)
    BY <2>1, <2>2 DEF Units, UnitsOf
  <2> QED
    BY <2>1, <2>2, <2>3
<1>4. rename \in Bijection(Units(g, S), Units(f, T))
  <2> HIDE DEF rename
  <2>1. DOMAIN rename = Units(g, S)
    BY <1>1
  <2> QED
    BY <1>1, <1>2, <1>3, <2>1, Zenon DEF Bijection, Injection, Surjection, IsInjective
<1>5. \A x \in S : g[x] \in Nat
  BY <1>0
<1>6. IsFiniteSet(T)
  BY FS_Bijection, Zenon DEF ExistsBijection
<1>7. Cardinality(Units(f, T)) = Cardinality(Units(g, S))
  <2>1. IsFiniteSet(Units(g, S))
    BY <1>5, UnitsAreFinite
  <2>2. ExistsBijection(Units(g, S), Units(f, T))
    BY <1>4, Zenon DEF ExistsBijection
  <2> QED
    BY <2>1, <2>2, FS_Bijection, Zenon
<1> QED
  BY <1>5, <1>6, <1>7, SumCounts

(* The sum over two sets without common elements is that of their sums.    *)
LEMMA SumOfUnion ==
  ASSUME NEW S, IsFiniteSet(S), NEW T, IsFiniteSet(T), S \cap T = {}, NEW f,
         \A x \in S \cup T : f[x] \in Nat
  PROVE  SumFunctionOnSet(f, S \cup T) = SumFunctionOnSet(f, S) + SumFunctionOnSet(f, T)
<1>1. IsFiniteSet(S \cup T)
  BY FS_Union, Zenon
<1>2. Units(f, S \cup T) = Units(f, S) \cup Units(f, T)
  BY DEF Units
<1>3. Units(f, S) \cap Units(f, T) = {}
  BY DEF Units, UnitsOf
<1>4. IsFiniteSet(Units(f, S)) /\ IsFiniteSet(Units(f, T))
  BY UnitsAreFinite
<1>5. Cardinality(Units(f, S) \cup Units(f, T)) =
        Cardinality(Units(f, S)) + Cardinality(Units(f, T)) -
        Cardinality(Units(f, S) \cap Units(f, T))
  BY <1>4, FS_Union, Zenon
<1>6. Cardinality(Units(f, S)) \in Nat /\ Cardinality(Units(f, T)) \in Nat
  BY <1>4, FS_CardinalityType
<1>7. /\ SumFunctionOnSet(f, S) = Cardinality(Units(f, S))
      /\ SumFunctionOnSet(f, T) = Cardinality(Units(f, T))
      /\ SumFunctionOnSet(f, S \cup T) = Cardinality(Units(f, S \cup T))
  BY <1>1, SumCounts
<1>8. Cardinality(Units(f, S) \cap Units(f, T)) = 0
  BY <1>3, FS_EmptySet
<1>9. Cardinality(Units(f, S \cup T)) =
        Cardinality(Units(f, S)) + Cardinality(Units(f, T)) - 0
  BY <1>2, <1>5, <1>8
<1> QED
  BY <1>6, <1>7, <1>9

(* The range of a finite sequence is finite.                               *)
LEMMA RangeIsFinite ==
  ASSUME NEW n \in Nat, NEW f
  PROVE  IsFiniteSet({f[i] : i \in 1 .. n})
<1> DEFINE T == {f[i] : i \in 1 .. n}
           g == [i \in 1 .. n |-> f[i]]
<1>1. g \in Surjection(1 .. n, T)
  <2>1. g \in [1 .. n -> T]
    OBVIOUS
  <2>2. \A t \in T : \E i \in 1 .. n : g[i] = t
    OBVIOUS
  <2> QED
    BY <2>1, <2>2, Zenon DEF Surjection
<1>2. IsFiniteSet(1 .. n)
  BY FS_Interval
<1> HIDE DEF g
<1>3. IsFiniteSet(T)
  <2> HIDE DEF T
  <2> QED
    BY <1>1, <1>2, FS_Surjection, Zenon
<1> QED
  BY <1>3

(* A nonempty set of natural numbers has a least element, and one with a   *)
(* bound a greatest.                                                       *)
LEMMA LeastNatural ==
  ASSUME NEW S \in SUBSET Nat, S # {}
  PROVE  \E x \in S : \A y \in S : x <= y
<1>1. PICK x \in S : \A y \in S : <<y, x>> \notin OpToRel(<, Nat)
  BY NatLessThanWellFounded, WFMin, Zenon
<1>2. ASSUME NEW y \in S  PROVE x <= y
  <2>1. ~(y < x)
    BY <1>1, <1>2 DEF OpToRel
  <2> QED
    BY <2>1
<1> QED
  BY <1>2

LEMMA GreatestNatural ==
  ASSUME NEW n \in Nat, NEW S \in SUBSET (0 .. n), S # {}
  PROVE  \E x \in S : \A y \in S : x >= y
<1> DEFINE T == {n - x : x \in S}
<1>1. T \in SUBSET Nat /\ T # {}
  <2>1. \A x \in S : x \in 0 .. n /\ n - x \in Nat
    OBVIOUS
  <2> QED
    BY <2>1
<1>2. PICK z \in T : \A y \in T : z <= y
  <2> HIDE DEF T
  <2> QED
    BY <1>1, LeastNatural
<1>3. PICK x \in S : z = n - x
  OBVIOUS
<1>4. ASSUME NEW y \in S  PROVE x >= y
  <2>1. n - y \in T
    OBVIOUS
  <2>2. n - x <= n - y
    BY <1>2, <1>3, <2>1
  <2>3. x \in 0 .. n /\ y \in 0 .. n
    OBVIOUS
  <2> HIDE DEF T
  <2> QED
    BY <2>2, <2>3
<1> QED
  BY <1>4
=============================================================================

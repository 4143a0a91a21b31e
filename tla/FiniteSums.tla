------------------------------ MODULE FiniteSums ------------------------------
(***************************************************************************)
(* Facts about sums over finite sets (SumFunctionOnSet of Functions), for   *)
(* the components that add up quantities and amounts.                       *)
(*                                                                         *)
(* There is no induction over a finite set here: where a fact about all     *)
(* finite sets would fail, it fails for a set all of whose proper subsets   *)
(* satisfy it (MinimalSet), and from there one element is taken away.       *)
(***************************************************************************)
EXTENDS Functions, FiniteSetTheorems, TLAPS

(* Among the sets of a nonempty collection of finite sets one is minimal.   *)
LEMMA MinimalSet ==
  ASSUME NEW S, IsFiniteSet(S), NEW C \in SUBSET (SUBSET S), C # {}
  PROVE  \E T \in C : \A U \in C : U \subseteq T => U = T
<1>1. C \subseteq FiniteSubsetsOf(S)
  BY FS_FiniteSubsetsOfFinite
<1>2. IsWellFoundedOn(StrictSubsetOrdering(S), FiniteSubsetsOf(S))
  BY FS_StrictSubsetOrderingWellFounded
<1>3. PICK T \in C : \A U \in C : ~ (<<U, T>> \in StrictSubsetOrdering(S))
  BY <1>1, <1>2, WFMin
<1>4. QED
  BY <1>3 DEF StrictSubsetOrdering

(* The element that a sum takes first, and the function that it is a value  *)
(* of: the partial sums over the subsets of S.                              *)
First(S) == CHOOSE x \in S : TRUE

IsSummation(f, S, g) ==
  g = [T \in SUBSET S |-> IF T = {} THEN 0 ELSE f[First(T)] + g[T \ {First(T)}]]

(* Two such functions agree where both are defined.                         *)
LEMMA SummationUnique ==
  ASSUME NEW f, NEW S, IsFiniteSet(S), NEW T \in SUBSET S, NEW g, NEW h,
         IsSummation(f, S, g), IsSummation(f, T, h), NEW U \in SUBSET T
  PROVE  g[U] = h[U]
<1> DEFINE C == {V \in SUBSET T : g[V] # h[V]}
<1>1. SUFFICES ASSUME C # {} PROVE FALSE
  OBVIOUS
<1>2. C \in SUBSET SUBSET S
  OBVIOUS
<1>3. PICK V \in C : \A W \in C : W \subseteq V => W = V
  <2> HIDE DEF C
  <2> QED BY <1>1, <1>2, MinimalSet
<1>4. V # {}
  BY <1>3 DEF IsSummation
<1>5. First(V) \in V
  BY <1>4 DEF First
<1>6. g[V \ {First(V)}] = h[V \ {First(V)}]
  BY <1>3, <1>5
<1>7. g[V] = f[First(V)] + g[V \ {First(V)}]
  BY <1>3, <1>4 DEF IsSummation
<1>8. h[V] = f[First(V)] + h[V \ {First(V)}]
  BY <1>3, <1>4 DEF IsSummation
<1>9. QED
  BY <1>3, <1>6, <1>7, <1>8

(* The library's sum, in these words.                                       *)
LEMMA SumFunctionDef ==
  ASSUME NEW f, NEW S
  PROVE  SumFunctionOnSet(f, S) = (CHOOSE g : IsSummation(f, S, g))[S]
BY DEF SumFunctionOnSet, FoldFunctionOnSet, MapThenFoldSet, IsSummation, First

(* There is such a function.                                                *)
LEMMA SummationExists ==
  ASSUME NEW f, NEW S, IsFiniteSet(S)
  PROVE  \E g : IsSummation(f, S, g)
<1> DEFINE C == {T \in SUBSET S : ~ \E g : IsSummation(f, T, g)}
<1>1. SUFFICES ASSUME C # {} PROVE FALSE
  OBVIOUS
<1>2. PICK T \in C : \A U \in C : U \subseteq T => U = T
  <2>1. C \in SUBSET SUBSET S
    OBVIOUS
  <2> HIDE DEF C
  <2> QED BY <1>1, <2>1, MinimalSet
<1>3. IsFiniteSet(T)
  BY FS_Subset
<1> DEFINE Part(U) == CHOOSE h : IsSummation(f, U, h)
           g == [U \in SUBSET T |-> IF U = {} THEN 0
                   ELSE f[First(U)] + Part(U \ {First(U)})[U \ {First(U)}]]
<1>4. ASSUME NEW U \in SUBSET T, U # T
      PROVE  IsSummation(f, U, Part(U))
  BY <1>2, <1>4
<1>5. ASSUME NEW U \in SUBSET T, U # T
      PROVE  g[U] = Part(U)[U]
  <2>1. IsSummation(f, U, Part(U))
    BY <1>4, <1>5
  <2>2. CASE U = {}
    BY <2>1, <2>2 DEF IsSummation
  <2>3. CASE U # {}
    <3> DEFINE V == U \ {First(U)}
    <3>1. V \in SUBSET U /\ V # T
      BY <2>3 DEF First
    <3>2. IsSummation(f, V, Part(V))
      BY <3>1, <1>4
    <3>3. IsFiniteSet(U)
      BY <1>3, FS_Subset
    <3>4. Part(U)[V] = Part(V)[V]
      BY <2>1, <3>1, <3>2, <3>3, SummationUnique
    <3>5. Part(U)[U] = f[First(U)] + Part(U)[V]
      BY <2>1, <2>3 DEF IsSummation
    <3>6. g[U] = f[First(U)] + Part(V)[V]
      BY <2>3
    <3>7. QED
      BY <3>4, <3>5, <3>6
  <2>4. QED
    BY <2>2, <2>3
<1>6. ASSUME NEW U \in SUBSET T
      PROVE  g[U] = IF U = {} THEN 0 ELSE f[First(U)] + g[U \ {First(U)}]
  <2>1. CASE U = {}
    BY <2>1
  <2>2. CASE U # {}
    <3>1. U \ {First(U)} # T
      BY <2>2 DEF First
    <3>2. g[U \ {First(U)}] = Part(U \ {First(U)})[U \ {First(U)}]
      BY <3>1, <1>5
    <3>3. QED
      BY <2>2, <3>2
  <2>3. QED
    BY <2>1, <2>2
<1>7. IsSummation(f, T, g)
  <2>1. g = [U \in SUBSET T |-> g[U]]
    OBVIOUS
  <2> HIDE DEF g
  <2> QED BY <1>6, <2>1 DEF IsSummation
<1>8. QED
  BY <1>2, <1>7
-------------------------------------------------------------------------------
(* The sum of nothing, and the sum with the first element taken away.       *)
LEMMA SumEmpty ==
  ASSUME NEW f
  PROVE  SumFunctionOnSet(f, {}) = 0
<1>1. PICK g : IsSummation(f, {}, g)
  BY SummationExists, FS_EmptySet
<1>2. IsSummation(f, {}, CHOOSE h : IsSummation(f, {}, h))
  BY <1>1
<1>3. QED
  BY <1>2, SumFunctionDef DEF IsSummation

LEMMA SumFirst ==
  ASSUME NEW f, NEW S, IsFiniteSet(S), S # {}
  PROVE  SumFunctionOnSet(f, S) =
           f[First(S)] + SumFunctionOnSet(f, S \ {First(S)})
<1> DEFINE P(T) == CHOOSE h : IsSummation(f, T, h)
           T == S \ {First(S)}
<1>1. IsFiniteSet(T) /\ T \in SUBSET S
  BY FS_Subset
<1>2. IsSummation(f, S, P(S)) /\ IsSummation(f, T, P(T))
  BY <1>1, SummationExists
<1>3. P(S)[T] = P(T)[T]
  <2> HIDE DEF P, T
  <2> QED BY <1>1, <1>2, SummationUnique
<1>4. P(S)[S] = f[First(S)] + P(S)[T]
  <2> HIDE DEF P
  <2> QED BY <1>2 DEF IsSummation
<1>5. QED
  BY <1>3, <1>4, SumFunctionDef

(* A sum of integers is an integer.                                         *)
LEMMA SumInteger ==
  ASSUME NEW f, NEW S, IsFiniteSet(S), \A x \in S : f[x] \in Int
  PROVE  SumFunctionOnSet(f, S) \in Int
<1> DEFINE C == {T \in SUBSET S : SumFunctionOnSet(f, T) \notin Int}
<1>1. SUFFICES ASSUME C # {} PROVE FALSE
  OBVIOUS
<1>2. PICK T \in C : \A U \in C : U \subseteq T => U = T
  <2>1. C \in SUBSET SUBSET S
    OBVIOUS
  <2> HIDE DEF C
  <2> QED BY <1>1, <2>1, MinimalSet
<1>3. IsFiniteSet(T) /\ T # {}
  <2>1. T # {}
    <3>1. SUFFICES ASSUME T = {} PROVE FALSE
      OBVIOUS
    <3>2. SumFunctionOnSet(f, T) = 0
      BY <3>1, SumEmpty
    <3>3. QED
      BY <1>2, <3>2
  <2>2. QED
    BY <1>2, <2>1, FS_Subset
<1>4. First(T) \in T
  BY <1>3 DEF First
<1>5. SumFunctionOnSet(f, T \ {First(T)}) \in Int
  BY <1>2, <1>4
<1>6. SumFunctionOnSet(f, T) \in Int
  BY <1>3, <1>4, <1>5, SumFirst
<1>7. QED
  BY <1>6

(* Any element may be taken away.                                           *)
LEMMA SumWithout ==
  ASSUME NEW f, NEW S, IsFiniteSet(S), \A x \in S : f[x] \in Int, NEW x \in S
  PROVE  SumFunctionOnSet(f, S) = f[x] + SumFunctionOnSet(f, S \ {x})
<1> DEFINE Sum(T) == SumFunctionOnSet(f, T)
           C == {T \in SUBSET S : \E y \in T : Sum(T) # f[y] + Sum(T \ {y})}
<1>1. SUFFICES ASSUME C # {} PROVE FALSE
  OBVIOUS
<1>2. PICK T \in C : \A U \in C : U \subseteq T => U = T
  <2>1. C \in SUBSET SUBSET S
    OBVIOUS
  <2> HIDE DEF C
  <2> QED BY <1>1, <2>1, MinimalSet
<1>3. PICK y \in T : Sum(T) # f[y] + Sum(T \ {y})
  BY <1>2
<1> DEFINE z == First(T)
<1>4. z \in T /\ IsFiniteSet(T)
  BY <1>2, FS_Subset DEF First
<1>5. Sum(T) = f[z] + Sum(T \ {z})
  BY <1>4, SumFirst
<1>6. y # z
  BY <1>3, <1>5
<1>7. ASSUME NEW v \in T, NEW w \in T \ {v}
      PROVE  Sum(T \ {v}) = f[w] + Sum((T \ {v}) \ {w})
  <2>1. T \ {v} \notin C
    <3> HIDE DEF C
    <3> QED BY <1>2, <1>7
  <2> HIDE DEF Sum
  <2> QED BY <1>2, <1>7, <2>1
<1>8. /\ Sum(T \ {z}) = f[y] + Sum((T \ {z}) \ {y})
      /\ Sum(T \ {y}) = f[z] + Sum((T \ {y}) \ {z})
  <2> HIDE DEF Sum, z
  <2> QED BY <1>4, <1>6, <1>7
<1>9. (T \ {z}) \ {y} = (T \ {y}) \ {z}
  OBVIOUS
<1>10. Sum((T \ {y}) \ {z}) \in Int /\ f[y] \in Int /\ f[z] \in Int
  <2>1. IsFiniteSet((T \ {y}) \ {z})
    BY <1>4, FS_Subset
  <2> QED BY <1>2, <1>4, <2>1, SumInteger
<1>11. QED
  <2> DEFINE a == Sum((T \ {y}) \ {z})
             b == Sum(T \ {z})
             c == Sum(T \ {y})
  <2>1. Sum(T) = f[z] + b /\ b = f[y] + a /\ c = f[z] + a /\ a \in Int
    BY <1>5, <1>8, <1>9, <1>10
  <2>2. Sum(T) # f[y] + c
    BY <1>3
  <2> HIDE DEF Sum, z, a, b, c
  <2> QED BY <1>10, <2>1, <2>2

(* Only the summands count.                                                 *)
LEMMA SumEqual ==
  ASSUME NEW f, NEW g, NEW S, IsFiniteSet(S), \A x \in S : f[x] = g[x]
  PROVE  SumFunctionOnSet(f, S) = SumFunctionOnSet(g, S)
<1> DEFINE C == {T \in SUBSET S : SumFunctionOnSet(f, T) # SumFunctionOnSet(g, T)}
<1>1. SUFFICES ASSUME C # {} PROVE FALSE
  OBVIOUS
<1>2. PICK T \in C : \A U \in C : U \subseteq T => U = T
  <2>1. C \in SUBSET SUBSET S
    OBVIOUS
  <2> HIDE DEF C
  <2> QED BY <1>1, <2>1, MinimalSet
<1>3. IsFiniteSet(T) /\ T # {}
  BY <1>2, FS_Subset, SumEmpty
<1>4. First(T) \in T
  BY <1>3 DEF First
<1>5. SumFunctionOnSet(f, T \ {First(T)}) = SumFunctionOnSet(g, T \ {First(T)})
  BY <1>2, <1>4
<1>6. QED
  BY <1>2, <1>3, <1>4, <1>5, SumFirst

(* A sum of natural numbers grows with its summands ...                     *)
LEMMA SumBounded ==
  ASSUME NEW f, NEW g, NEW S, IsFiniteSet(S),
         \A x \in S : f[x] \in Int /\ g[x] \in Int /\ f[x] <= g[x]
  PROVE  SumFunctionOnSet(f, S) <= SumFunctionOnSet(g, S)
<1> DEFINE C == {T \in SUBSET S : ~ (SumFunctionOnSet(f, T) <= SumFunctionOnSet(g, T))}
<1>1. SUFFICES ASSUME C # {} PROVE FALSE
  OBVIOUS
<1>2. PICK T \in C : \A U \in C : U \subseteq T => U = T
  <2>1. C \in SUBSET SUBSET S
    OBVIOUS
  <2> HIDE DEF C
  <2> QED BY <1>1, <2>1, MinimalSet
<1>3. IsFiniteSet(T) /\ T # {}
  <2>1. T # {}
    <3>1. SUFFICES ASSUME T = {} PROVE FALSE
      OBVIOUS
    <3>2. SumFunctionOnSet(f, T) = 0 /\ SumFunctionOnSet(g, T) = 0
      BY <3>1, SumEmpty
    <3>3. QED
      BY <1>2, <3>2
  <2>2. QED
    BY <1>2, <2>1, FS_Subset
<1> DEFINE U == T \ {First(T)}
<1>4. First(T) \in T /\ IsFiniteSet(U)
  BY <1>3, FS_Subset DEF First
<1>5. SumFunctionOnSet(f, U) <= SumFunctionOnSet(g, U)
  BY <1>2, <1>4
<1>6. SumFunctionOnSet(f, U) \in Int /\ SumFunctionOnSet(g, U) \in Int
  BY <1>4, SumInteger
<1>7. /\ SumFunctionOnSet(f, T) = f[First(T)] + SumFunctionOnSet(f, U)
      /\ SumFunctionOnSet(g, T) = g[First(T)] + SumFunctionOnSet(g, U)
  BY <1>3, SumFirst
<1>8. QED
  BY <1>2, <1>4, <1>5, <1>6, <1>7

(* ... and one summand changes it by as much as it changes itself.          *)
LEMMA SumChanged ==
  ASSUME NEW f, NEW g, NEW S, IsFiniteSet(S), NEW x \in S,
         \A y \in S : f[y] \in Int /\ g[y] \in Int,
         \A y \in S \ {x} : f[y] = g[y]
  PROVE  SumFunctionOnSet(g, S) = SumFunctionOnSet(f, S) - f[x] + g[x]
<1> DEFINE T == S \ {x}
<1>1. IsFiniteSet(T)
  BY FS_Subset
<1>2. SumFunctionOnSet(f, T) = SumFunctionOnSet(g, T) /\ SumFunctionOnSet(f, T) \in Int
  BY <1>1, SumEqual, SumInteger
<1>3. /\ SumFunctionOnSet(f, S) = f[x] + SumFunctionOnSet(f, T)
      /\ SumFunctionOnSet(g, S) = g[x] + SumFunctionOnSet(g, T)
  BY SumWithout
<1>4. QED
  BY <1>2, <1>3

(* A sum of zeros is zero, and a sum of natural numbers is one.             *)
LEMMA SumOfZeros ==
  ASSUME NEW f, NEW S, IsFiniteSet(S), \A x \in S : f[x] = 0
  PROVE  SumFunctionOnSet(f, S) = 0
<1> DEFINE C == {T \in SUBSET S : SumFunctionOnSet(f, T) # 0}
<1>1. SUFFICES ASSUME C # {} PROVE FALSE
  OBVIOUS
<1>2. PICK T \in C : \A U \in C : U \subseteq T => U = T
  <2>1. C \in SUBSET SUBSET S
    OBVIOUS
  <2> HIDE DEF C
  <2> QED BY <1>1, <2>1, MinimalSet
<1>3. IsFiniteSet(T) /\ T # {}
  BY <1>2, FS_Subset, SumEmpty
<1>4. First(T) \in T
  BY <1>3 DEF First
<1>5. SumFunctionOnSet(f, T \ {First(T)}) = 0
  BY <1>2, <1>4
<1>6. QED
  BY <1>2, <1>3, <1>4, <1>5, SumFirst

LEMMA SumNatural ==
  ASSUME NEW f, NEW S, IsFiniteSet(S), \A x \in S : f[x] \in Nat
  PROVE  SumFunctionOnSet(f, S) \in Nat
<1> DEFINE zero == [x \in S |-> 0]
<1>1. SumFunctionOnSet(zero, S) = 0
  BY SumOfZeros
<1>2. SumFunctionOnSet(zero, S) <= SumFunctionOnSet(f, S)
  <2>1. \A x \in S : zero[x] \in Int /\ f[x] \in Int /\ zero[x] <= f[x]
    OBVIOUS
  <2> HIDE DEF zero
  <2> QED BY <2>1, SumBounded
<1>3. SumFunctionOnSet(f, S) \in Int
  BY SumInteger
<1>4. QED
  BY <1>1, <1>2, <1>3

(* A sum over more natural numbers is not less.                             *)
LEMMA SumOfMore ==
  ASSUME NEW f, NEW S, IsFiniteSet(S), \A x \in S : f[x] \in Nat, NEW T \in SUBSET S
  PROVE  SumFunctionOnSet(f, T) <= SumFunctionOnSet(f, S)
<1> DEFINE C == {U \in SUBSET S : /\ T \subseteq U
                                 /\ ~ (SumFunctionOnSet(f, T) <= SumFunctionOnSet(f, U))}
<1>1. SUFFICES ASSUME C # {} PROVE FALSE
  OBVIOUS
<1>2. PICK U \in C : \A V \in C : V \subseteq U => V = U
  <2>1. C \in SUBSET SUBSET S
    OBVIOUS
  <2> HIDE DEF C
  <2> QED BY <1>1, <2>1, MinimalSet
<1>3. IsFiniteSet(T) /\ IsFiniteSet(U)
  BY <1>2, FS_Subset
<1>4. SumFunctionOnSet(f, T) \in Int
  BY <1>3, SumInteger
<1>5. PICK x \in U : x \notin T
  <2>1. SUFFICES ASSUME U = T PROVE FALSE
    BY <1>2
  <2>2. QED
    BY <1>2, <1>4, <2>1
<1>6. SumFunctionOnSet(f, T) <= SumFunctionOnSet(f, U \ {x})
  BY <1>2, <1>5
<1>7. SumFunctionOnSet(f, U) = f[x] + SumFunctionOnSet(f, U \ {x})
  BY <1>2, <1>3, <1>5, SumWithout
<1>8. SumFunctionOnSet(f, U \ {x}) \in Int
  <2>1. IsFiniteSet(U \ {x})
    BY <1>3, FS_Subset
  <2> QED BY <1>2, <2>1, SumInteger
<1>9. QED
  BY <1>2, <1>4, <1>5, <1>6, <1>7, <1>8

(* What is zero does not count.                                             *)
LEMMA SumSupport ==
  ASSUME NEW f, NEW S, IsFiniteSet(S), NEW T \in SUBSET S,
         \A x \in S : f[x] \in Int, \A x \in S \ T : f[x] = 0
  PROVE  SumFunctionOnSet(f, S) = SumFunctionOnSet(f, T)
<1> DEFINE C == {U \in SUBSET S : T \subseteq U /\ SumFunctionOnSet(f, U) # SumFunctionOnSet(f, T)}
<1>1. SUFFICES ASSUME C # {} PROVE FALSE
  OBVIOUS
<1>2. PICK U \in C : \A V \in C : V \subseteq U => V = U
  <2>1. C \in SUBSET SUBSET S
    OBVIOUS
  <2> HIDE DEF C
  <2> QED BY <1>1, <2>1, MinimalSet
<1>3. PICK x \in U : x \notin T
  OBVIOUS
<1>4. IsFiniteSet(U) /\ IsFiniteSet(U \ {x})
  BY FS_Subset
<1>5. SumFunctionOnSet(f, U) = f[x] + SumFunctionOnSet(f, U \ {x})
  BY <1>4, SumWithout
<1>6. f[x] = 0 /\ SumFunctionOnSet(f, U \ {x}) \in Int
  BY <1>3, <1>4, SumInteger
<1>7. U \ {x} \in C
  BY <1>3, <1>5, <1>6
<1>8. QED
  BY <1>2, <1>7
===============================================================================

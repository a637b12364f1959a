-------------------------------- MODULE Sums --------------------------------
(***************************************************************************)
(* Sums over finite sets, and counting up: what the proofs about stocks,   *)
(* stamps, balances, waits and calendars need to know of the folds and the *)
(* recursive functions in the specifications.                              *)
(*                                                                         *)
(* SumFunctionOnSet is a fold, defined by choosing a recursive function    *)
(* over the subsets of its set.  AddsExist and AddsAgree say that there is *)
(* one and that it does not depend on the set it is defined over; the rest *)
(* follows, each by SetInduction over the subsets of the set that is       *)
(* summed.                                                                 *)
(*                                                                         *)
(* A recursive function on Nat is likewise a choice: Stepwise says that    *)
(* there is one to choose, CountingUp what holds of its values.            *)
(***************************************************************************)
EXTENDS FiniteSetsExt, FiniteSetTheorems, NaturalsInduction, WellFoundedInduction,
        TLAPS

-----------------------------------------------------------------------------
(* The fold. *)

\* What holds of a subset of S when it holds of all smaller ones holds of S and of
\* every subset.
LEMMA SetInduction ==
  ASSUME NEW S, IsFiniteSet(S), NEW Q,
         \A T \in SUBSET S : (\A U \in SUBSET T : U # T => U \in Q) => T \in Q
  PROVE  \A T \in SUBSET S : T \in Q
<1> DEFINE Bad == {T \in SUBSET S : T \notin Q}
<1>1. SUFFICES ASSUME Bad # {} PROVE FALSE
  OBVIOUS
<1>2. Bad \subseteq FiniteSubsetsOf(S)
  BY FS_FiniteSubsetsOfFinite
<1>3. PICK T \in Bad : \A U \in Bad : ~(<<U, T>> \in StrictSubsetOrdering(S))
  <2>1. IsWellFoundedOn(StrictSubsetOrdering(S), FiniteSubsetsOf(S))
    BY FS_StrictSubsetOrderingWellFounded
  <2> HIDE DEF Bad
  <2> QED BY <1>1, <1>2, <2>1, WFMin
<1>4. \A U \in SUBSET T : U # T => U \in Q
  BY <1>3 DEF StrictSubsetOrdering
<1> QED BY <1>3, <1>4

\* One element at a time.
One(s) == CHOOSE x \in s : TRUE

\* g is the sums of f over all subsets of S.
Adds(f, S, g) ==
  g = [s \in SUBSET S |-> IF s = {} THEN 0 ELSE f[One(s)] + g[s \ {One(s)}]]

\* SumFunctionOnSet, by the names above.
LEMMA SumUnfolded ==
  ASSUME NEW f, NEW S
  PROVE  SumFunctionOnSet(f, S) = (CHOOSE g : Adds(f, S, g))[S]
BY DEF SumFunctionOnSet, FoldFunctionOnSet, MapThenFoldSet, Adds, One

\* There is one to take.
LEMMA OneOf ==
  ASSUME NEW s, s # {}
  PROVE  One(s) \in s
BY DEF One

\* The function at one subset.
LEMMA AddsFacts ==
  ASSUME NEW f, NEW S, NEW g, Adds(f, S, g), NEW U \in SUBSET S
  PROVE  g[U] = IF U = {} THEN 0 ELSE f[One(U)] + g[U \ {One(U)}]
BY DEF Adds

\* Two such functions agree wherever both are defined.
LEMMA AddsAgree ==
  ASSUME NEW f, NEW S, NEW T, NEW g, NEW h, Adds(f, S, g), Adds(f, T, h),
         NEW R \in SUBSET (S \cap T), IsFiniteSet(R)
  PROVE  g[R] = h[R]
<1> DEFINE Q == {U \in SUBSET R : g[U] = h[U]}
<1>1. ASSUME NEW U \in SUBSET R, \A V \in SUBSET U : V # U => V \in Q
      PROVE  U \in Q
  <2>1. CASE U = {}
    BY <2>1, AddsFacts
  <2>2. CASE U # {}
    <3>1. U \ {One(U)} \in SUBSET U /\ U \ {One(U)} # U
      BY <2>2, OneOf
    <3>2. g[U \ {One(U)}] = h[U \ {One(U)}]
      BY <1>1, <3>1
    <3>3. U \in SUBSET S /\ U \in SUBSET T
      OBVIOUS
    <3>4. g[U] = f[One(U)] + g[U \ {One(U)}]
      BY <2>2, <3>3, AddsFacts
    <3>5. h[U] = f[One(U)] + h[U \ {One(U)}]
      BY <2>2, <3>3, AddsFacts
    <3> QED BY <3>2, <3>4, <3>5
  <2> QED BY <2>1, <2>2
<1> HIDE DEF Q
<1>2. R \in Q
  BY <1>1, SetInduction
<1> QED BY <1>2 DEF Q

\* There is such a function over every finite set.
LEMMA AddsExist ==
  ASSUME NEW f, NEW S, IsFiniteSet(S)
  PROVE  \E g : Adds(f, S, g)
<1> DEFINE Q == {T \in SUBSET S : \E g : Adds(f, T, g)}
<1>1. ASSUME NEW T \in SUBSET S, \A U \in SUBSET T : U # T => U \in Q
      PROVE  T \in Q
  <2> DEFINE G(U) == CHOOSE g : Adds(f, U, g)
             h == [U \in SUBSET T |->
                     IF U = {} THEN 0 ELSE f[One(U)] + G(U \ {One(U)})[U \ {One(U)}]]
  <2>1. ASSUME NEW U \in SUBSET T, U # T
        PROVE  Adds(f, U, G(U)) /\ IsFiniteSet(U)
    BY <1>1, <2>1, FS_Subset
  <2> HIDE DEF G
  <2>2. ASSUME NEW U \in SUBSET T, U # T
        PROVE  G(U)[U] = h[U]
    <3>1. CASE U = {}
      BY <2>1, <2>2, <3>1, AddsFacts
    <3>2. CASE U # {}
      <4> DEFINE V == U \ {One(U)}
      <4>1. V \in SUBSET U /\ V # U /\ V \in SUBSET T /\ V # T
        BY <2>2, <3>2, OneOf
      <4>2. G(U)[U] = f[One(U)] + G(U)[V]
        BY <2>1, <2>2, <3>2, AddsFacts
      <4>3. V \in SUBSET (U \cap V)
        BY <4>1
      <4>4. G(U)[V] = G(V)[V]
        BY <2>1, <2>2, <4>1, <4>3, AddsAgree
      <4> QED BY <3>2, <4>2, <4>4
    <3> QED BY <3>1, <3>2
  <2>3. ASSUME NEW U \in SUBSET T
        PROVE  h[U] = IF U = {} THEN 0 ELSE f[One(U)] + h[U \ {One(U)}]
    <3>1. CASE U = {}
      BY <3>1
    <3>2. CASE U # {}
      <4> DEFINE V == U \ {One(U)}
      <4>1. V \in SUBSET T /\ V # T
        BY <3>2, OneOf
      <4>2. G(V)[V] = h[V]
        BY <2>2, <4>1
      <4>3. h[U] = f[One(U)] + G(V)[V]
        BY <3>2
      <4> HIDE DEF h, V
      <4>4. h[U] = f[One(U)] + h[V]
        BY <4>2, <4>3
      <4> QED BY <3>2, <4>4 DEF V
    <3> QED BY <3>1, <3>2
  <2>4. h = [U \in SUBSET T |-> h[U]]
    OBVIOUS
  <2> HIDE DEF h
  <2>5. Adds(f, T, h)
    BY <2>3, <2>4 DEF Adds
  <2> QED BY <2>5
<1> HIDE DEF Q
<1>2. S \in Q
  BY <1>1, SetInduction
<1> QED BY <1>2 DEF Q

\* One of them gives the sums over all subsets of its set.
LEMMA SumOfSubset ==
  ASSUME NEW f, NEW S, IsFiniteSet(S)
  PROVE  \E g : Adds(f, S, g) /\ \A U \in SUBSET S : SumFunctionOnSet(f, U) = g[U]
<1> DEFINE G(U) == CHOOSE g : Adds(f, U, g)
<1>1. ASSUME NEW U \in SUBSET S
      PROVE  Adds(f, U, G(U)) /\ IsFiniteSet(U) /\ SumFunctionOnSet(f, U) = G(U)[U]
  <2>1. IsFiniteSet(U)
    BY FS_Subset
  <2>2. \E g : Adds(f, U, g)
    BY <2>1, AddsExist
  <2>3. SumFunctionOnSet(f, U) = G(U)[U]
    BY SumUnfolded
  <2> QED BY <2>1, <2>2, <2>3
<1> HIDE DEF G
<1>2. ASSUME NEW U \in SUBSET S
      PROVE  SumFunctionOnSet(f, U) = G(S)[U]
  <2>1. U \in SUBSET (U \cap S)
    OBVIOUS
  <2>2. G(U)[U] = G(S)[U]
    BY <1>1, <2>1, AddsAgree
  <2> QED BY <1>1, <2>2
<1> QED BY <1>1, <1>2

-----------------------------------------------------------------------------
(* Sums. *)

\* The sum of nothing.
LEMMA SumEmpty == ASSUME NEW f PROVE SumFunctionOnSet(f, {}) = 0
<1>1. IsFiniteSet({})
  BY FS_EmptySet
<1>2. PICK g : Adds(f, {}, g) /\ \A U \in SUBSET {} : SumFunctionOnSet(f, U) = g[U]
  BY <1>1, SumOfSubset
<1> QED BY <1>2, AddsFacts

\* The recursion, on the element that is taken first.
LEMMA SumStep ==
  ASSUME NEW f, NEW S, IsFiniteSet(S), S # {}
  PROVE  SumFunctionOnSet(f, S) = f[One(S)] + SumFunctionOnSet(f, S \ {One(S)})
<1>1. PICK g : Adds(f, S, g) /\ \A U \in SUBSET S : SumFunctionOnSet(f, U) = g[U]
  BY SumOfSubset
<1>2. g[S] = f[One(S)] + g[S \ {One(S)}]
  BY <1>1, AddsFacts
<1> QED BY <1>1, <1>2

\* A sum of integers is an integer.
LEMMA SumInt ==
  ASSUME NEW f, NEW S, IsFiniteSet(S), \A x \in S : f[x] \in Int
  PROVE  SumFunctionOnSet(f, S) \in Int
<1> DEFINE Q == {T \in SUBSET S : SumFunctionOnSet(f, T) \in Int}
<1>1. ASSUME NEW T \in SUBSET S, \A U \in SUBSET T : U # T => U \in Q
      PROVE  T \in Q
  <2>1. CASE T = {}
    BY <2>1, SumEmpty
  <2>2. CASE T # {}
    <3>1. IsFiniteSet(T)
      BY FS_Subset
    <3>2. One(T) \in T
      BY <2>2, OneOf
    <3>3. SumFunctionOnSet(f, T \ {One(T)}) \in Int
      BY <1>1, <3>2
    <3> QED BY <2>2, <3>1, <3>2, <3>3, SumStep
  <2> QED BY <2>1, <2>2
<1> HIDE DEF Q
<1>2. S \in Q
  BY <1>1, SetInduction
<1> QED BY <1>2 DEF Q

\* In whatever order.
LEMMA SumTake ==
  ASSUME NEW f, NEW S, IsFiniteSet(S), \A x \in S : f[x] \in Int, NEW y \in S
  PROVE  SumFunctionOnSet(f, S) = f[y] + SumFunctionOnSet(f, S \ {y})
<1> DEFINE Sum(T) == SumFunctionOnSet(f, T)
           Q == {T \in SUBSET S : \A z \in T : Sum(T) = f[z] + Sum(T \ {z})}
<1>1. ASSUME NEW T \in SUBSET S PROVE Sum(T) \in Int /\ IsFiniteSet(T)
  BY FS_Subset, SumInt
<1>2. ASSUME NEW T \in SUBSET S, T # {}
      PROVE  One(T) \in T /\ Sum(T) = f[One(T)] + Sum(T \ {One(T)})
  BY <1>1, <1>2, OneOf, SumStep
<1> HIDE DEF Sum
<1>3. ASSUME NEW T \in SUBSET S, \A U \in SUBSET T : U # T => U \in Q
      PROVE  T \in Q
  <2>1. SUFFICES ASSUME NEW z \in T PROVE Sum(T) = f[z] + Sum(T \ {z})
    OBVIOUS
  <2>2. PICK x \in T : Sum(T) = f[x] + Sum(T \ {x})
    BY <1>2
  <2>3. CASE x = z
    BY <2>2, <2>3
  <2>4. CASE x # z
    <3>1. Sum(T \ {x}) = f[z] + Sum((T \ {x}) \ {z})
      <4>1. T \ {x} \in SUBSET T /\ T \ {x} # T /\ z \in T \ {x}
        BY <2>4
      <4> QED BY <1>3, <4>1
    <3>2. Sum(T \ {z}) = f[x] + Sum((T \ {z}) \ {x})
      <4>1. T \ {z} \in SUBSET T /\ T \ {z} # T /\ x \in T \ {z}
        BY <2>4
      <4> QED BY <1>3, <4>1
    <3>3. Sum((T \ {x}) \ {z}) = Sum((T \ {z}) \ {x})
      <4>1. (T \ {x}) \ {z} = (T \ {z}) \ {x}
        OBVIOUS
      <4> QED BY <4>1, Zenon
    <3>4. Sum((T \ {z}) \ {x}) \in Int /\ f[x] \in Int /\ f[z] \in Int
      BY <1>1
    <3> QED BY <2>2, <3>1, <3>2, <3>3, <3>4
  <2> QED BY <2>3, <2>4
<1> HIDE DEF Q
<1>4. S \in Q
  BY <1>3, SetInduction
<1> QED BY <1>4 DEF Q, Sum

\* What is added to the set is added to the sum.
LEMMA SumAdd ==
  ASSUME NEW f, NEW S, IsFiniteSet(S), \A x \in S : f[x] \in Int,
         NEW y, y \notin S, f[y] \in Int
  PROVE  SumFunctionOnSet(f, S \cup {y}) = SumFunctionOnSet(f, S) + f[y]
<1>1. IsFiniteSet(S \cup {y}) /\ (S \cup {y}) \ {y} = S
  BY FS_AddElement
<1>2. SumFunctionOnSet(f, S \cup {y}) = f[y] + SumFunctionOnSet(f, S)
  <2>1. SumFunctionOnSet(f, S \cup {y}) = f[y] + SumFunctionOnSet(f, (S \cup {y}) \ {y})
    BY <1>1, SumTake
  <2> QED BY <1>1, <2>1, Zenon
<1>3. SumFunctionOnSet(f, S) \in Int
  BY SumInt
<1> QED BY <1>1, <1>2, <1>3

\* Functions that agree have the same sum.
LEMMA SumSame ==
  ASSUME NEW f, NEW g, NEW S, IsFiniteSet(S), \A x \in S : f[x] = g[x]
  PROVE  SumFunctionOnSet(f, S) = SumFunctionOnSet(g, S)
<1> DEFINE Q == {T \in SUBSET S : SumFunctionOnSet(f, T) = SumFunctionOnSet(g, T)}
<1>1. ASSUME NEW T \in SUBSET S, \A U \in SUBSET T : U # T => U \in Q
      PROVE  T \in Q
  <2>1. CASE T = {}
    BY <2>1, SumEmpty
  <2>2. CASE T # {}
    <3>1. IsFiniteSet(T)
      BY FS_Subset
    <3>2. One(T) \in T /\ T \ {One(T)} # T
      BY <2>2, OneOf
    <3>3. SumFunctionOnSet(f, T \ {One(T)}) = SumFunctionOnSet(g, T \ {One(T)})
      BY <1>1, <3>2
    <3>4. SumFunctionOnSet(f, T) = f[One(T)] + SumFunctionOnSet(f, T \ {One(T)})
      BY <2>2, <3>1, SumStep
    <3>5. SumFunctionOnSet(g, T) = g[One(T)] + SumFunctionOnSet(g, T \ {One(T)})
      BY <2>2, <3>1, SumStep
    <3> QED BY <3>2, <3>3, <3>4, <3>5
  <2> QED BY <2>1, <2>2
<1> HIDE DEF Q
<1>2. S \in Q
  BY <1>1, SetInduction
<1> QED BY <1>2 DEF Q

\* A function that differs at one place only.
LEMMA SumChange ==
  ASSUME NEW f, NEW g, NEW S, IsFiniteSet(S), NEW y \in S,
         \A x \in S : f[x] \in Int /\ g[x] \in Int,
         \A x \in S : x # y => f[x] = g[x]
  PROVE  SumFunctionOnSet(g, S) = SumFunctionOnSet(f, S) - f[y] + g[y]
<1>1. IsFiniteSet(S \ {y})
  BY FS_RemoveElement
<1>2. SumFunctionOnSet(f, S \ {y}) = SumFunctionOnSet(g, S \ {y})
  BY <1>1, SumSame
<1>3. SumFunctionOnSet(f, S) = f[y] + SumFunctionOnSet(f, S \ {y})
  BY SumTake
<1>4. SumFunctionOnSet(g, S) = g[y] + SumFunctionOnSet(g, S \ {y})
  BY SumTake
<1>5. SumFunctionOnSet(f, S \ {y}) \in Int
  BY <1>1, SumInt
<1> QED BY <1>2, <1>3, <1>4, <1>5

\* Nothing adds up to nothing.
LEMMA SumZero ==
  ASSUME NEW f, NEW S, IsFiniteSet(S), \A x \in S : f[x] = 0
  PROVE  SumFunctionOnSet(f, S) = 0
<1> DEFINE Q == {T \in SUBSET S : SumFunctionOnSet(f, T) = 0}
<1>1. ASSUME NEW T \in SUBSET S, \A U \in SUBSET T : U # T => U \in Q
      PROVE  T \in Q
  <2>1. CASE T = {}
    BY <2>1, SumEmpty
  <2>2. CASE T # {}
    <3>1. IsFiniteSet(T)
      BY FS_Subset
    <3>2. One(T) \in T /\ T \ {One(T)} # T
      BY <2>2, OneOf
    <3>3. SumFunctionOnSet(f, T \ {One(T)}) = 0
      BY <1>1, <3>2
    <3> QED BY <2>2, <3>1, <3>2, <3>3, SumStep
  <2> QED BY <2>1, <2>2
<1> HIDE DEF Q
<1>2. S \in Q
  BY <1>1, SetInduction
<1> QED BY <1>2 DEF Q

\* A sum of naturals is a natural.
LEMMA SumNat ==
  ASSUME NEW f, NEW S, IsFiniteSet(S), \A x \in S : f[x] \in Nat
  PROVE  SumFunctionOnSet(f, S) \in Nat
<1> DEFINE Q == {T \in SUBSET S : SumFunctionOnSet(f, T) \in Nat}
<1>1. ASSUME NEW T \in SUBSET S, \A U \in SUBSET T : U # T => U \in Q
      PROVE  T \in Q
  <2>1. CASE T = {}
    BY <2>1, SumEmpty
  <2>2. CASE T # {}
    <3>1. IsFiniteSet(T)
      BY FS_Subset
    <3>2. One(T) \in T /\ T \ {One(T)} # T
      BY <2>2, OneOf
    <3>3. SumFunctionOnSet(f, T \ {One(T)}) \in Nat
      BY <1>1, <3>2
    <3> QED BY <2>2, <3>1, <3>2, <3>3, SumStep
  <2> QED BY <2>1, <2>2
<1> HIDE DEF Q
<1>2. S \in Q
  BY <1>1, SetInduction
<1> QED BY <1>2 DEF Q

\* The sum of two sets that share nothing.
LEMMA SumUnion ==
  ASSUME NEW f, NEW S, NEW R, IsFiniteSet(S), IsFiniteSet(R), S \cap R = {},
         \A x \in S \cup R : f[x] \in Int
  PROVE  SumFunctionOnSet(f, S \cup R) = SumFunctionOnSet(f, S) + SumFunctionOnSet(f, R)
<1> DEFINE Sum(T) == SumFunctionOnSet(f, T)
           Q == {T \in SUBSET R : Sum(S \cup T) = Sum(S) + Sum(T)}
<1>1. ASSUME NEW T \in SUBSET R PROVE Sum(T) \in Int /\ IsFiniteSet(T) /\ IsFiniteSet(S \cup T)
  <2>1. IsFiniteSet(T)
    BY FS_Subset
  <2> QED BY <2>1, SumInt, FS_Union
<1>2. Sum(S) \in Int /\ Sum({}) = 0
  BY SumInt, SumEmpty
<1>3. ASSUME NEW T \in SUBSET R, NEW y \in T
      PROVE  /\ Sum(T) = f[y] + Sum(T \ {y})
             /\ Sum(S \cup T) = f[y] + Sum(S \cup (T \ {y}))
  <2> DEFINE X == S \cup T
  <2>a. /\ IsFiniteSet(T) /\ IsFiniteSet(X) /\ y \in X /\ y \in T
        /\ \A x \in T : f[x] \in Int
        /\ \A x \in X : f[x] \in Int
    BY <1>1, <1>3
  <2>1. Sum(T) = f[y] + Sum(T \ {y})
    BY <2>a, SumTake
  <2>2. Sum(S \cup T) = f[y] + Sum((S \cup T) \ {y})
    <3> HIDE DEF X
    <3>1. Sum(X) = f[y] + Sum(X \ {y})
      BY <2>a, SumTake
    <3> QED BY <3>1 DEF X
  <2>3. (S \cup T) \ {y} = S \cup (T \ {y})
    OBVIOUS
  <2>4. Sum((S \cup T) \ {y}) = Sum(S \cup (T \ {y}))
    BY <2>3, Zenon
  <2> QED BY <2>1, <2>2, <2>4
<1> HIDE DEF Sum
<1>4. ASSUME NEW T \in SUBSET R, \A U \in SUBSET T : U # T => U \in Q
      PROVE  T \in Q
  <2>1. CASE T = {}
    <3>1. S \cup T = S
      BY <2>1
    <3>2. Sum(S \cup T) = Sum(S)
      BY <3>1, Zenon
    <3> QED BY <1>2, <2>1, <3>2
  <2>2. CASE T # {}
    <3>1. PICK y \in T : TRUE
      BY <2>2
    <3>2. T \ {y} \in Q
      BY <1>4, <3>1
    <3>3. Sum(S \cup (T \ {y})) = Sum(S) + Sum(T \ {y})
      BY <3>2
    <3>4. f[y] \in Int /\ Sum(T \ {y}) \in Int
      BY <1>1
    <3>5. Sum(T) = f[y] + Sum(T \ {y}) /\ Sum(S \cup T) = f[y] + Sum(S \cup (T \ {y}))
      BY <1>3, <3>1
    <3>6. Sum(S \cup T) = Sum(S) + Sum(T)
      <4> DEFINE a == Sum(S \cup (T \ {y}))
                 b == Sum(T \ {y})
                 c == Sum(S)
      <4> HIDE DEF a, b, c
      <4>1. a = c + b /\ f[y] \in Int /\ b \in Int /\ c \in Int
        BY <1>2, <3>3, <3>4 DEF a, b, c
      <4>2. Sum(T) = f[y] + b /\ Sum(S \cup T) = f[y] + a
        BY <3>5 DEF a, b
      <4>3. Sum(S \cup T) = c + Sum(T)
        BY <4>1, <4>2
      <4> QED BY <4>3 DEF c
    <3> QED BY <3>6
  <2> QED BY <2>1, <2>2
<1> HIDE DEF Q
<1>5. R \in Q
  BY <1>4, SetInduction
<1> QED BY <1>5 DEF Q, Sum

\* No less over a larger set.
LEMMA SumSubset ==
  ASSUME NEW f, NEW S, IsFiniteSet(S), \A x \in S : f[x] \in Nat, NEW R \in SUBSET S
  PROVE  SumFunctionOnSet(f, R) \in Nat /\ SumFunctionOnSet(f, S) \in Nat
         /\ SumFunctionOnSet(f, R) <= SumFunctionOnSet(f, S)
<1>1. IsFiniteSet(R) /\ IsFiniteSet(S \ R) /\ R \cap (S \ R) = {} /\ R \cup (S \ R) = S
  BY FS_Subset
<1>2. /\ SumFunctionOnSet(f, R) \in Nat /\ SumFunctionOnSet(f, S \ R) \in Nat
      /\ SumFunctionOnSet(f, S) \in Nat
  BY <1>1, SumNat
<1>3. SumFunctionOnSet(f, R \cup (S \ R))
        = SumFunctionOnSet(f, R) + SumFunctionOnSet(f, S \ R)
  BY <1>1, SumUnion
<1>4. SumFunctionOnSet(f, R \cup (S \ R)) = SumFunctionOnSet(f, S)
  BY <1>1, Zenon
<1> QED BY <1>2, <1>3, <1>4

\* The same values under other names: g over R is f over S, n further on.
Shifted(f, S, g, R, n) ==
  /\ IsFiniteSet(S) /\ n \in Int
  /\ \A x \in S : x \in Int /\ x + n \in R /\ f[x] \in Int /\ g[x + n] = f[x]
  /\ \A z \in R : \E x \in S : x + n = z

LEMMA SumShifted ==
  ASSUME NEW f, NEW S, NEW g, NEW R, NEW n, Shifted(f, S, g, R, n)
  PROVE  SumFunctionOnSet(g, R) = SumFunctionOnSet(f, S)
<1>0. /\ IsFiniteSet(S) /\ n \in Int
      /\ \A x \in S : x \in Int /\ x + n \in R /\ f[x] \in Int /\ g[x + n] = f[x]
      /\ \A z \in R : \E x \in S : x + n = z
  BY DEF Shifted
<1> USE <1>0
<1> DEFINE Im(T) == {x + n : x \in T}
           Q == {T \in SUBSET S : /\ IsFiniteSet(Im(T))
                                  /\ SumFunctionOnSet(g, Im(T)) = SumFunctionOnSet(f, T)}
<1>1. ASSUME NEW T \in SUBSET S, \A U \in SUBSET T : U # T => U \in Q
      PROVE  T \in Q
  <2>1. CASE T = {}
    <3>1. Im(T) = {}
      BY <2>1
    <3>2. IsFiniteSet(Im(T)) /\ SumFunctionOnSet(g, Im(T)) = 0
      BY <3>1, SumEmpty, FS_EmptySet, Zenon
    <3> QED BY <2>1, <3>2, SumEmpty
  <2>2. CASE T # {}
    <3>1. PICK y \in T : TRUE
      BY <2>2
    <3> DEFINE U == T \ {y}
    <3>2. U \in Q /\ y \notin U /\ IsFiniteSet(T)
      BY <1>1, FS_Subset
    <3>3. y + n \notin Im(U) /\ Im(T) = Im(U) \cup {y + n}
      BY <3>2
    <3>4. \A z \in Im(U) : g[z] \in Int
      OBVIOUS
    <3>5. SumFunctionOnSet(f, T) = f[y] + SumFunctionOnSet(f, U)
      BY <3>2, SumTake
    <3>6. IsFiniteSet(Im(U)) /\ SumFunctionOnSet(g, Im(U)) = SumFunctionOnSet(f, U)
      BY <3>2
    <3> HIDE DEF Im, Q, U
    <3>7. IsFiniteSet(Im(U) \cup {y + n})
      BY <3>6, FS_AddElement
    <3>8. SumFunctionOnSet(g, Im(U) \cup {y + n}) = SumFunctionOnSet(g, Im(U)) + g[y + n]
      <4>1. g[y + n] \in Int
        OBVIOUS
      <4> QED BY <3>3, <3>4, <3>6, <4>1, SumAdd
    <3>9. IsFiniteSet(Im(T))
          /\ SumFunctionOnSet(g, Im(T)) = SumFunctionOnSet(g, Im(U) \cup {y + n})
      BY <3>3, <3>7, Zenon
    <3>10. SumFunctionOnSet(f, U) \in Int
      <4>1. IsFiniteSet(U) /\ U \subseteq S
        BY <3>2, FS_RemoveElement DEF U
      <4> QED BY <4>1, SumInt
    <3> QED BY <3>5, <3>6, <3>8, <3>9, <3>10 DEF Q
  <2> QED BY <2>1, <2>2
<1> HIDE DEF Q, Im
<1>2. S \in Q
  BY <1>1, SetInduction
<1>3. Im(S) = R
  BY DEF Im
<1>4. SumFunctionOnSet(g, Im(S)) = SumFunctionOnSet(g, R)
  BY <1>3, Zenon
<1> QED BY <1>2, <1>4 DEF Q

\* One element more, and one element less, of a function that may have changed
\* elsewhere.
LEMMA SumGrown ==
  ASSUME NEW f, NEW g, NEW S, IsFiniteSet(S), \A x \in S : f[x] \in Int /\ g[x] = f[x],
         NEW y, y \notin S, g[y] \in Int
  PROVE  /\ IsFiniteSet(S \cup {y})
         /\ SumFunctionOnSet(f, S) \in Int
         /\ SumFunctionOnSet(g, S \cup {y}) = SumFunctionOnSet(f, S) + g[y]
<1>1. IsFiniteSet(S \cup {y}) /\ SumFunctionOnSet(f, S) \in Int
  BY FS_AddElement, SumInt
<1>2. SumFunctionOnSet(f, S) = SumFunctionOnSet(g, S)
  BY SumSame
<1>3. SumFunctionOnSet(g, S \cup {y}) = SumFunctionOnSet(g, S) + g[y]
  <2>1. \A x \in S : g[x] \in Int
    OBVIOUS
  <2> QED BY <2>1, SumAdd
<1> QED BY <1>1, <1>2, <1>3

LEMMA SumShrunk ==
  ASSUME NEW f, NEW g, NEW S, IsFiniteSet(S), \A x \in S : f[x] \in Int,
         NEW y \in S, NEW n \in Int, f[y] = n, \A x \in S : x # y => g[x] = f[x]
  PROVE  SumFunctionOnSet(g, S \ {y}) = SumFunctionOnSet(f, S) - n
<1>1. IsFiniteSet(S \ {y}) /\ SumFunctionOnSet(f, S) \in Int
  BY FS_RemoveElement, SumInt
<1>2. SumFunctionOnSet(g, S \ {y}) = SumFunctionOnSet(f, S \ {y})
  BY <1>1, SumSame
<1>3. SumFunctionOnSet(f, S) = f[y] + SumFunctionOnSet(f, S \ {y})
  BY SumTake
<1>4. SumFunctionOnSet(f, S \ {y}) \in Int /\ f[y] \in Int
  BY <1>1, SumInt
<1> QED BY <1>1, <1>2, <1>3, <1>4

\* Term by term.
LEMMA SumPlus ==
  ASSUME NEW f, NEW g, NEW h, NEW S, IsFiniteSet(S),
         \A x \in S : f[x] \in Int /\ g[x] \in Int /\ h[x] = f[x] + g[x]
  PROVE  SumFunctionOnSet(h, S) = SumFunctionOnSet(f, S) + SumFunctionOnSet(g, S)
<1> DEFINE Q == {T \in SUBSET S : SumFunctionOnSet(h, T) =
                                    SumFunctionOnSet(f, T) + SumFunctionOnSet(g, T)}
<1>1. ASSUME NEW T \in SUBSET S, \A U \in SUBSET T : U # T => U \in Q
      PROVE  T \in Q
  <2>1. CASE T = {}
    BY <2>1, SumEmpty
  <2>2. CASE T # {}
    <3>1. IsFiniteSet(T)
      BY FS_Subset
    <3>2. PICK y \in T : y = One(T)
      BY <2>2, OneOf
    <3> DEFINE U == T \ {y}
    <3>3. U \in SUBSET T /\ U # T
      OBVIOUS
    <3>4. SumFunctionOnSet(h, U) = SumFunctionOnSet(f, U) + SumFunctionOnSet(g, U)
      BY <1>1, <3>3
    <3>5. IsFiniteSet(U) /\ U \in SUBSET S
      BY <3>1, <3>3, FS_Subset
    <3>6. SumFunctionOnSet(f, U) \in Int /\ SumFunctionOnSet(g, U) \in Int
      BY <3>5, SumInt
    <3>7. /\ SumFunctionOnSet(h, T) = h[y] + SumFunctionOnSet(h, U)
          /\ SumFunctionOnSet(f, T) = f[y] + SumFunctionOnSet(f, U)
          /\ SumFunctionOnSet(g, T) = g[y] + SumFunctionOnSet(g, U)
      BY <2>2, <3>1, <3>2, SumStep
    <3>8. f[y] \in Int /\ g[y] \in Int /\ h[y] = f[y] + g[y]
      OBVIOUS
    <3> HIDE DEF U
    <3>9. SumFunctionOnSet(h, T) = SumFunctionOnSet(f, T) + SumFunctionOnSet(g, T)
      BY <3>4, <3>6, <3>7, <3>8
    <3> QED BY <3>9
  <2> QED BY <2>1, <2>2
<1> HIDE DEF Q
<1>2. S \in Q
  BY <1>1, SetInduction
<1> QED BY <1>2 DEF Q

\* A sum over a part, as one over the whole with nothing elsewhere.
LEMMA SumWithin ==
  ASSUME NEW f, NEW g, NEW S, IsFiniteSet(S), NEW R \in SUBSET S,
         \A x \in R : f[x] \in Int /\ g[x] = f[x],
         \A x \in S \ R : g[x] = 0
  PROVE  SumFunctionOnSet(g, S) = SumFunctionOnSet(f, R)
<1>1. IsFiniteSet(R) /\ IsFiniteSet(S \ R) /\ R \cap (S \ R) = {} /\ S = R \cup (S \ R)
  <2>1. S \ R \in SUBSET S
    OBVIOUS
  <2> QED BY <2>1, FS_Subset
<1>2. SumFunctionOnSet(g, S \ R) = 0
  BY <1>1, SumZero
<1>3. SumFunctionOnSet(g, R) = SumFunctionOnSet(f, R)
  BY <1>1, SumSame
<1>4. SumFunctionOnSet(f, R) \in Int
  BY <1>1, SumInt
<1>5. SumFunctionOnSet(g, R \cup (S \ R)) =
        SumFunctionOnSet(g, R) + SumFunctionOnSet(g, S \ R)
  <2>1. \A x \in R \cup (S \ R) : g[x] \in Int
    OBVIOUS
  <2> QED BY <1>1, <2>1, SumUnion
<1>6. SumFunctionOnSet(g, S) = SumFunctionOnSet(g, R \cup (S \ R))
  BY <1>1, Zenon
<1> QED BY <1>2, <1>3, <1>4, <1>5, <1>6

-----------------------------------------------------------------------------
(* Counting up. *)

\* What holds of nothing, and of one more whenever it holds, holds of every number.
LEMMA CountingUp ==
  ASSUME NEW Q, 0 \in Q, \A n \in Nat : n \in Q => n + 1 \in Q
  PROVE  \A n \in Nat : n \in Q
<1>1. SUFFICES ASSUME Nat \ Q # {} PROVE FALSE
  OBVIOUS
<1>2. PICK m \in Nat \ Q : \A y \in Nat \ Q : ~(<<y, m>> \in OpToRel(<, Nat))
  <2>1. Nat \ Q \subseteq Nat
    OBVIOUS
  <2> QED BY <1>1, <2>1, NatLessThanWellFounded, WFMin
<1>3. \A y \in Nat \ Q : ~(y < m)
  BY <1>2 DEF OpToRel
<1>4. m \in Nat /\ m \notin Q /\ m # 0
  BY <1>2
<1>5. m - 1 \in Nat /\ m - 1 < m /\ (m - 1) + 1 = m
  BY <1>4
<1>6. m - 1 \in Q
  BY <1>3, <1>5
<1> QED BY <1>4, <1>5, <1>6

\* The first m steps of g from a.
StepsTo(a, g, m, f) ==
  f = [k \in 0..m |-> IF k = 0 THEN a ELSE g[f[k - 1]]]

LEMMA StepsAgree ==
  ASSUME NEW a, NEW g, NEW m \in Nat, NEW n \in Nat, NEW f, NEW h,
         StepsTo(a, g, m, f), StepsTo(a, g, n, h)
  PROVE  \A k \in Nat : k <= m /\ k <= n => f[k] = h[k]
<1> DEFINE Q == {k \in Nat : k <= m /\ k <= n => f[k] = h[k]}
<1>1. ASSUME NEW k \in Nat, k <= m, k <= n
      PROVE  /\ f[k] = IF k = 0 THEN a ELSE g[f[k - 1]]
             /\ h[k] = IF k = 0 THEN a ELSE g[h[k - 1]]
  BY <1>1 DEF StepsTo
<1>2. 0 \in Q
  BY <1>1
<1>3. ASSUME NEW k \in Nat, k \in Q PROVE k + 1 \in Q
  <2>1. SUFFICES ASSUME k + 1 <= m, k + 1 <= n PROVE f[k + 1] = h[k + 1]
    OBVIOUS
  <2>2. f[k] = h[k] /\ (k + 1) - 1 = k
    BY <1>3, <2>1
  <2> QED BY <1>1, <2>1, <2>2
<1> HIDE DEF Q
<1>4. \A k \in Nat : k \in Q
  BY <1>2, <1>3, CountingUp
<1> QED BY <1>4 DEF Q

LEMMA StepsExist ==
  ASSUME NEW a, NEW g
  PROVE  \A m \in Nat : \E f : StepsTo(a, g, m, f)
<1> DEFINE Q == {m \in Nat : \E f : StepsTo(a, g, m, f)}
<1>1. 0 \in Q
  <2> DEFINE f == [k \in 0..0 |-> a]
  <2>1. StepsTo(a, g, 0, f)
    BY DEF StepsTo
  <2> HIDE DEF f
  <2> QED BY <2>1
<1>2. ASSUME NEW m \in Nat, m \in Q PROVE m + 1 \in Q
  <2>1. PICK f : StepsTo(a, g, m, f)
    BY <1>2
  <2>2. \A k \in 0..m : f[k] = IF k = 0 THEN a ELSE g[f[k - 1]]
    BY <2>1 DEF StepsTo
  <2>3. PICK h : h = [k \in 0..(m + 1) |-> IF k = 0 THEN a ELSE g[f[k - 1]]]
    OBVIOUS
  <2>4. \A k \in 0..m : h[k] = f[k]
    BY <2>2, <2>3
  <2>5. \A k \in 0..(m + 1) : k # 0 => h[k - 1] = f[k - 1]
    <3>1. \A k \in 0..(m + 1) : k # 0 => k - 1 \in 0..m
      OBVIOUS
    <3> QED BY <2>4, <3>1
  <2>6. StepsTo(a, g, m + 1, h)
    BY <2>3, <2>5 DEF StepsTo
  <2> QED BY <2>6
<1> HIDE DEF Q
<1>3. \A m \in Nat : m \in Q
  BY <1>1, <1>2, CountingUp
<1> QED BY <1>3 DEF Q

\* A function that starts at a and goes on as g says: there is one, and it stays
\* where g stays.
Stepping(f, a, g) == f = [k \in Nat |-> IF k = 0 THEN a ELSE g[f[k - 1]]]

LEMMA Stepwise ==
  ASSUME NEW S, NEW a \in S, NEW g, \A x \in S : g[x] \in S
  PROVE  \E f : Stepping(f, a, g) /\ \A k \in Nat : f[k] \in S
<1> DEFINE G(n) == CHOOSE f : StepsTo(a, g, n, f)
           w == [n \in Nat |-> G(n)[n]]
<1>1. \A n \in Nat : StepsTo(a, g, n, G(n))
  BY StepsExist
<1> HIDE DEF G
<1>2. ASSUME NEW n \in Nat
      PROVE  w[n] = IF n = 0 THEN a ELSE g[w[n - 1]]
  <2>1. G(n)[n] = IF n = 0 THEN a ELSE g[G(n)[n - 1]]
    BY <1>1 DEF StepsTo
  <2>2. ASSUME n # 0 PROVE G(n)[n - 1] = G(n - 1)[n - 1] /\ n - 1 \in Nat
    <3>1. n - 1 \in Nat /\ n - 1 <= n /\ n - 1 <= n - 1
      BY <2>2
    <3> QED BY <1>1, <3>1, StepsAgree
  <2> QED BY <2>1, <2>2
<1>3. w = [n \in Nat |-> w[n]]
  OBVIOUS
<1> HIDE DEF w
<1>4. Stepping(w, a, g)
  <2>1. [n \in Nat |-> w[n]] = [n \in Nat |-> IF n = 0 THEN a ELSE g[w[n - 1]]]
    BY <1>2
  <2> QED BY <1>3, <2>1 DEF Stepping
<1>5. \A k \in Nat : w[k] \in S
  <2> DEFINE Q == {k \in Nat : w[k] \in S}
  <2>1. 0 \in Q
    BY <1>2
  <2>2. ASSUME NEW k \in Nat, k \in Q PROVE k + 1 \in Q
    <3>1. k + 1 \in Nat /\ k + 1 # 0 /\ (k + 1) - 1 = k
      OBVIOUS
    <3>2. w[k + 1] = g[w[k]]
      BY <1>2, <3>1
    <3> QED BY <2>2, <3>1, <3>2
  <2> HIDE DEF Q
  <2>3. \A k \in Nat : k \in Q
    BY <2>1, <2>2, CountingUp
  <2> QED BY <2>3 DEF Q
<1> QED BY <1>4, <1>5

=============================================================================

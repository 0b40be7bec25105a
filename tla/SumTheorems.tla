---------------------------- MODULE SumTheorems ----------------------------
(***************************************************************************)
(* What SumFunctionOnSet of the community modules computes on a finite     *)
(* set.  It is a fold: the number of an element of the set, chosen, plus   *)
(* the sum of the others.  The order does not matter, and that is what     *)
(* the totals of the models rest on: a row that is added adds its amount.  *)
(*                                                                         *)
(* The fold is a recursive function on the subsets of the set.  That there *)
(* is one, and only one, is proved here, by induction on the subsets of a  *)
(* finite set: SubsetInduction takes the set of those the claim holds of   *)
(* where the library's theorem takes an operator.                          *)
(***************************************************************************)
EXTENDS Integers, FiniteSets, Functions, Folds, FiniteSetTheorems, WellFoundedInduction, TLAPS

\* Every subset of S is in G, if one is as soon as its proper subsets are.  Otherwise
\* there would be a smallest one that is not.
LEMMA SubsetInduction ==
  ASSUME NEW S, IsFiniteSet(S), NEW G,
         \A T \in SUBSET S : (\A U \in SUBSET T : U # T => U \in G) => T \in G
  PROVE  \A T \in SUBSET S : T \in G
<1> DEFINE C == (SUBSET S) \ G
<1> SUFFICES ASSUME C # {} PROVE FALSE
  OBVIOUS
<1>1. IsWellFoundedOn(StrictSubsetOrdering(S), FiniteSubsetsOf(S))
  BY FS_StrictSubsetOrderingWellFounded
<1>2. C \subseteq FiniteSubsetsOf(S)
  BY FS_Subset DEF FiniteSubsetsOf
<1>3. PICK T \in C : \A U \in C : ~ (<<U, T>> \in StrictSubsetOrdering(S))
  <2> HIDE DEF C
  <2> QED
    BY <1>1, <1>2, WFMin
<1>4. \A U \in SUBSET T : U # T => U \in G
  BY <1>3 DEF StrictSubsetOrdering
<1> QED
  BY <1>3, <1>4

-----------------------------------------------------------------------------
(* The recursion of the fold                                               *)

\* The element of a set that the fold takes first.
Picked(T) == CHOOSE x \in T : TRUE

Rest(T) == T \ {Picked(T)}

\* The recursion over the subsets of S.
Adds(sum, f, S) == sum = [T \in SUBSET S |-> IF T = {} THEN 0 ELSE f[Picked(T)] + sum[Rest(T)]]

LEMMA SumIsFold ==
  ASSUME NEW f, NEW S
  PROVE  SumFunctionOnSet(f, S) = (CHOOSE sum : Adds(sum, f, S))[S]
  BY Zenon DEF SumFunctionOnSet, FoldFunctionOnSet, MapThenFoldSet, Adds, Picked, Rest

LEMMA PickedInside ==
  ASSUME NEW T, T # {}
  PROVE  Picked(T) \in T /\ Rest(T) \subseteq T /\ Rest(T) # T
  BY DEF Picked, Rest

\* Two recursions agree where both are defined.
LEMMA AddsUnique ==
  ASSUME NEW f, NEW A, NEW B, B \subseteq A, NEW s, NEW t, IsFiniteSet(B), Adds(s, f, A), Adds(t, f, B)
  PROVE  \A T \in SUBSET B : s[T] = t[T]
<1> DEFINE G == {T \in SUBSET B : s[T] = t[T]}
<1>1. ASSUME NEW T \in SUBSET B, \A U \in SUBSET T : U # T => U \in G
      PROVE  T \in G
  <2>1. s[T] = IF T = {} THEN 0 ELSE f[Picked(T)] + s[Rest(T)]
    BY DEF Adds
  <2>2. t[T] = IF T = {} THEN 0 ELSE f[Picked(T)] + t[Rest(T)]
    BY DEF Adds
  <2>3. T # {} => Rest(T) \in G
    BY <1>1, PickedInside
  <2> QED
    BY <2>1, <2>2, <2>3
<1> HIDE DEF G
<1>2. \A T \in SUBSET B : T \in G
  BY <1>1, SubsetInduction
<1> QED
  BY <1>2 DEF G

\* A recursion on the subsets of S.
TheSum(f, S) == CHOOSE sum : Adds(sum, f, S)

\* There is one: it puts together those of the proper subsets.
LEMMA AddsExists ==
  ASSUME NEW f, NEW S, IsFiniteSet(S)
  PROVE  Adds(TheSum(f, S), f, S)
<1> DEFINE G == {T \in SUBSET S : Adds(TheSum(f, T), f, T)}
<1>1. ASSUME NEW T \in SUBSET S, \A U \in SUBSET T : U # T => U \in G
      PROVE  T \in G
  <2> DEFINE of(U) == TheSum(f, U)[U]
             sum == [U \in SUBSET T |-> IF U = {} THEN 0 ELSE f[Picked(U)] + of(Rest(U))]
  <2>1. ASSUME NEW U \in SUBSET T, U # T PROVE sum[U] = of(U)
    <3>1. Adds(TheSum(f, U), f, U)
      BY <1>1, <2>1
    <3>2. of(U) = IF U = {} THEN 0 ELSE f[Picked(U)] + TheSum(f, U)[Rest(U)]
      BY <3>1 DEF Adds
    <3>3. U # {} => TheSum(f, U)[Rest(U)] = of(Rest(U))
      <4> SUFFICES ASSUME U # {} PROVE TheSum(f, U)[Rest(U)] = TheSum(f, Rest(U))[Rest(U)]
        OBVIOUS
      <4>1. Rest(U) \subseteq U /\ Rest(U) \in SUBSET T /\ Rest(U) # T
        BY PickedInside
      <4>2. Adds(TheSum(f, Rest(U)), f, Rest(U)) /\ IsFiniteSet(Rest(U))
        BY <1>1, <4>1, FS_Subset
      <4> QED
        BY <3>1, <4>1, <4>2, AddsUnique
    <3> QED
      BY <3>2, <3>3
  <2>2. \A U \in SUBSET T : sum[U] = IF U = {} THEN 0 ELSE f[Picked(U)] + sum[Rest(U)]
    <3> SUFFICES ASSUME NEW U \in SUBSET T
                 PROVE  U # {} => sum[U] = f[Picked(U)] + sum[Rest(U)]
      OBVIOUS
    <3>1. U # {} => Rest(U) \in SUBSET T /\ Rest(U) # T
      BY PickedInside
    <3> QED
      BY <2>1, <3>1
  <2>3. sum = [U \in SUBSET T |-> sum[U]]
    OBVIOUS
  <2>4. Adds(sum, f, T)
    <3> HIDE DEF sum
    <3> QED
      BY <2>2, <2>3 DEF Adds
  <2>5. Adds(TheSum(f, T), f, T)
    <3> HIDE DEF sum
    <3> QED
      BY <2>4 DEF TheSum
  <2> QED
    BY <2>5
<1> HIDE DEF G
<1>2. \A T \in SUBSET S : T \in G
  BY <1>1, SubsetInduction
<1> QED
  BY <1>2 DEF G

\* The recursion holds of the sum.
LEMMA SumUnfolds ==
  ASSUME NEW f, NEW S, IsFiniteSet(S), S # {}
  PROVE  SumFunctionOnSet(f, S) = f[Picked(S)] + SumFunctionOnSet(f, Rest(S))
<1>1. Adds(TheSum(f, S), f, S)
  BY AddsExists
<1>2. TheSum(f, S)[S] = f[Picked(S)] + TheSum(f, S)[Rest(S)]
  BY <1>1 DEF Adds
<1>3. SumFunctionOnSet(f, S) = TheSum(f, S)[S] /\ SumFunctionOnSet(f, Rest(S)) = TheSum(f, Rest(S))[Rest(S)]
  BY SumIsFold DEF TheSum
<1>4. Rest(S) \subseteq S /\ IsFiniteSet(Rest(S))
  BY PickedInside, FS_Subset
<1>5. TheSum(f, S)[Rest(S)] = TheSum(f, Rest(S))[Rest(S)]
  BY <1>1, <1>4, AddsExists, AddsUnique
<1> QED
  BY <1>2, <1>3, <1>5

-----------------------------------------------------------------------------
(* What the other modules cite                                             *)

\* The empty sum.
THEOREM SumEmpty ==
  ASSUME NEW f
  PROVE  SumFunctionOnSet(f, {}) = 0
<1>1. Adds(TheSum(f, {}), f, {})
  BY AddsExists, FS_EmptySet
<1>2. TheSum(f, {})[{}] = 0
  BY <1>1 DEF Adds
<1> QED
  BY <1>2, SumIsFold DEF TheSum

\* The sum of a finite set of integers is one.
THEOREM SumInt ==
  ASSUME NEW f, NEW S, IsFiniteSet(S), \A x \in S : f[x] \in Int
  PROVE  SumFunctionOnSet(f, S) \in Int
<1> DEFINE G == {T \in SUBSET S : SumFunctionOnSet(f, T) \in Int}
<1>1. ASSUME NEW T \in SUBSET S, \A U \in SUBSET T : U # T => U \in G
      PROVE  SumFunctionOnSet(f, T) \in Int
  <2>1. CASE T = {}
    <3>1. SumFunctionOnSet(f, {}) = 0
      BY SumEmpty
    <3> QED
      BY <2>1, <3>1
  <2>2. CASE T # {}
    <3>1. Picked(T) \in T /\ Rest(T) \in G
      BY <1>1, <2>2, PickedInside
    <3>2. SumFunctionOnSet(f, T) = f[Picked(T)] + SumFunctionOnSet(f, Rest(T))
      BY <2>2, SumUnfolds, FS_Subset
    <3> QED
      BY <3>1, <3>2
  <2> QED
    BY <2>1, <2>2
<1>2. \A T \in SUBSET S : (\A U \in SUBSET T : U # T => U \in G) => T \in G
  BY <1>1
<1> HIDE DEF G
<1>3. S \in G
  BY <1>2, SubsetInduction
<1> QED
  BY <1>3 DEF G

\* The order does not matter: any element may be taken first.
THEOREM SumRemove ==
  ASSUME NEW f, NEW S, IsFiniteSet(S), \A x \in S : f[x] \in Int, NEW x \in S
  PROVE  SumFunctionOnSet(f, S) = f[x] + SumFunctionOnSet(f, S \ {x})
<1> DEFINE Takes(T, y) == SumFunctionOnSet(f, T) = f[y] + SumFunctionOnSet(f, T \ {y})
           G == {T \in SUBSET S : \A y \in T : Takes(T, y)}
<1>1. ASSUME NEW T \in SUBSET S, \A U \in SUBSET T : U # T => U \in G, NEW y \in T
      PROVE  Takes(T, y)
  <2> DEFINE z == Picked(T)
             both == T \ {y, z}
  <2>1. z \in T /\ Takes(T, z)
    BY FS_Subset, PickedInside, SumUnfolds DEF Rest
  <2>2. CASE y = z
    BY <2>1, <2>2
  <2>3. CASE y # z
    <3>1. T \ {z} \in G /\ y \in T \ {z} /\ (T \ {z}) \ {y} = both
      BY <1>1, <2>1, <2>3
    <3>2. T \ {y} \in G /\ z \in T \ {y} /\ (T \ {y}) \ {z} = both
      BY <1>1, <2>1, <2>3
    <3>3. SumFunctionOnSet(f, both) \in Int
      <4>1. IsFiniteSet(both) /\ \A w \in both : f[w] \in Int
        BY FS_Subset
      <4> HIDE DEF both
      <4> QED
        BY <4>1, SumInt
    <3>4. /\ SumFunctionOnSet(f, T \ {z}) = f[y] + SumFunctionOnSet(f, both)
          /\ SumFunctionOnSet(f, T \ {y}) = f[z] + SumFunctionOnSet(f, both)
      BY <3>1, <3>2
    <3> HIDE DEF z, both
    <3>5. f[y] \in Int /\ f[z] \in Int
      BY <2>1
    <3> QED
      BY <2>1, <3>3, <3>4, <3>5
  <2> QED
    BY <2>2, <2>3
<1>2. \A T \in SUBSET S : (\A U \in SUBSET T : U # T => U \in G) => T \in G
  BY <1>1
<1> HIDE DEF G
<1>3. S \in G
  BY <1>2, SubsetInduction
<1> QED
  BY <1>3 DEF G

\* A new element adds its number.
THEOREM SumAdd ==
  ASSUME NEW f, NEW S, IsFiniteSet(S), NEW x, x \notin S, f[x] \in Int, \A y \in S : f[y] \in Int
  PROVE  SumFunctionOnSet(f, S \cup {x}) = f[x] + SumFunctionOnSet(f, S)
<1>1. IsFiniteSet(S \cup {x}) /\ (S \cup {x}) \ {x} = S
  BY FS_AddElement
<1>2. \A y \in S \cup {x} : f[y] \in Int
  OBVIOUS
<1> QED
  BY <1>1, <1>2, SumRemove

\* The sum depends on the numbers of the elements of the set, and on no other.
THEOREM SumSame ==
  ASSUME NEW f, NEW g, NEW S, IsFiniteSet(S), \A x \in S : f[x] = g[x]
  PROVE  SumFunctionOnSet(f, S) = SumFunctionOnSet(g, S)
<1> DEFINE G == {T \in SUBSET S : SumFunctionOnSet(f, T) = SumFunctionOnSet(g, T)}
<1>1. ASSUME NEW T \in SUBSET S, \A U \in SUBSET T : U # T => U \in G
      PROVE  SumFunctionOnSet(f, T) = SumFunctionOnSet(g, T)
  <2>1. CASE T = {}
    BY <2>1, SumEmpty
  <2>2. CASE T # {}
    <3>1. Picked(T) \in S /\ Rest(T) \in G
      BY <1>1, <2>2, PickedInside
    <3>2. /\ SumFunctionOnSet(f, T) = f[Picked(T)] + SumFunctionOnSet(f, Rest(T))
          /\ SumFunctionOnSet(g, T) = g[Picked(T)] + SumFunctionOnSet(g, Rest(T))
      BY <2>2, SumUnfolds, FS_Subset
    <3> QED
      BY <3>1, <3>2
  <2> QED
    BY <2>1, <2>2
<1>2. \A T \in SUBSET S : (\A U \in SUBSET T : U # T => U \in G) => T \in G
  BY <1>1
<1> HIDE DEF G
<1>3. S \in G
  BY <1>2, SubsetInduction
<1> QED
  BY <1>3 DEF G

\* Two sets without a common element add up.
THEOREM SumUnion ==
  ASSUME NEW f, NEW A, NEW B, IsFiniteSet(A), IsFiniteSet(B), A \cap B = {},
         \A x \in A \cup B : f[x] \in Int
  PROVE  SumFunctionOnSet(f, A \cup B) = SumFunctionOnSet(f, A) + SumFunctionOnSet(f, B)
<1> DEFINE Splits(T) == SumFunctionOnSet(f, T \cup B) = SumFunctionOnSet(f, T) + SumFunctionOnSet(f, B)
           G == {T \in SUBSET A : Splits(T)}
<1>1. SumFunctionOnSet(f, B) \in Int
  BY SumInt
<1>2. ASSUME NEW T \in SUBSET A, \A U \in SUBSET T : U # T => U \in G
      PROVE  Splits(T)
  <2>1. CASE T = {}
    <3>1. T \cup B = B
      BY <2>1
    <3>2. SumFunctionOnSet(f, T) = 0 /\ SumFunctionOnSet(f, T \cup B) = SumFunctionOnSet(f, B)
      BY <2>1, <3>1, SumEmpty
    <3> QED
      BY <1>1, <3>2
  <2>2. CASE T # {}
    <3>1. PICK x : x \in T
      BY <2>2
    <3> DEFINE U == T \ {x}
    <3>2. Splits(U)
      BY <1>2, <3>1
    <3>3. IsFiniteSet(U) /\ IsFiniteSet(U \cup B) /\ U \subseteq A /\ x \in A
      BY <3>1, FS_Subset, FS_Union
    <3>4. T = U \cup {x} /\ T \cup B = (U \cup B) \cup {x} /\ x \notin U /\ x \notin U \cup B
      BY <3>1, <3>3
    <3> HIDE DEF U
    <3>5. SumFunctionOnSet(f, U) \in Int /\ f[x] \in Int
      BY <3>3, SumInt
    <3>6. /\ SumFunctionOnSet(f, T) = f[x] + SumFunctionOnSet(f, U)
          /\ SumFunctionOnSet(f, T \cup B) = f[x] + SumFunctionOnSet(f, U \cup B)
      BY <3>3, <3>4, SumAdd
    <3> QED
      BY <1>1, <3>2, <3>5, <3>6
  <2> QED
    BY <2>1, <2>2
<1>3. \A T \in SUBSET A : (\A U \in SUBSET T : U # T => U \in G) => T \in G
  BY <1>2
<1> HIDE DEF G
<1>4. A \in G
  BY <1>3, SubsetInduction
<1> QED
  BY <1>4 DEF G

\* A sum of zeros is zero.
THEOREM SumZero ==
  ASSUME NEW f, NEW S, IsFiniteSet(S), \A x \in S : f[x] = 0
  PROVE  SumFunctionOnSet(f, S) = 0
<1> DEFINE G == {T \in SUBSET S : SumFunctionOnSet(f, T) = 0}
<1>1. ASSUME NEW T \in SUBSET S, \A U \in SUBSET T : U # T => U \in G
      PROVE  SumFunctionOnSet(f, T) = 0
  <2>1. CASE T = {}
    BY <2>1, SumEmpty
  <2>2. CASE T # {}
    <3>1. Picked(T) \in S /\ Rest(T) \in G
      BY <1>1, <2>2, PickedInside
    <3>2. SumFunctionOnSet(f, T) = f[Picked(T)] + SumFunctionOnSet(f, Rest(T))
      BY <2>2, SumUnfolds, FS_Subset
    <3> QED
      BY <3>1, <3>2
  <2> QED
    BY <2>1, <2>2
<1>2. \A T \in SUBSET S : (\A U \in SUBSET T : U # T => U \in G) => T \in G
  BY <1>1
<1> HIDE DEF G
<1>3. S \in G
  BY <1>2, SubsetInduction
<1> QED
  BY <1>3 DEF G

\* A sum of natural numbers is one.
THEOREM SumNat ==
  ASSUME NEW f, NEW S, IsFiniteSet(S), \A x \in S : f[x] \in Nat
  PROVE  SumFunctionOnSet(f, S) \in Nat
<1> DEFINE G == {T \in SUBSET S : SumFunctionOnSet(f, T) \in Nat}
<1>1. ASSUME NEW T \in SUBSET S, \A U \in SUBSET T : U # T => U \in G
      PROVE  SumFunctionOnSet(f, T) \in Nat
  <2>1. CASE T = {}
    <3>1. SumFunctionOnSet(f, {}) = 0
      BY SumEmpty
    <3> QED
      BY <2>1, <3>1
  <2>2. CASE T # {}
    <3>1. Picked(T) \in T /\ Rest(T) \in G
      BY <1>1, <2>2, PickedInside
    <3>2. SumFunctionOnSet(f, T) = f[Picked(T)] + SumFunctionOnSet(f, Rest(T))
      BY <2>2, SumUnfolds, FS_Subset
    <3> QED
      BY <3>1, <3>2
  <2> QED
    BY <2>1, <2>2
<1>2. \A T \in SUBSET S : (\A U \in SUBSET T : U # T => U \in G) => T \in G
  BY <1>1
<1> HIDE DEF G
<1>3. S \in G
  BY <1>2, SubsetInduction
<1> QED
  BY <1>3 DEF G

=============================================================================

------------------------------- MODULE Totals -------------------------------
(***************************************************************************)
(* Totals of natural numbers over a finite set, as the proofs about money  *)
(* and minutes need them: a total is the size of a heap that has f[x]      *)
(* units for each x.  Adding a summand adds units, so that what is known   *)
(* of the cardinality of finite sets says what a total is, and the fold    *)
(* the models compute their sums with is shown to be that total.           *)
(***************************************************************************)
EXTENDS FiniteSetsExt, FiniteSetTheorems, TLAPS

Units(f, S) == UNION {{x} \X (1 .. f[x]) : x \in S}

Total(f, S) == Cardinality(Units(f, S))

(* What holds of the empty set, and of a set if it does without any one of *)
(* its elements, holds of every finite set.                                *)
LEMMA FiniteInduction ==
  ASSUME NEW S, IsFiniteSet(S), NEW Good, {} \in Good,
         \A T \in SUBSET S :
           T # {} /\ (\A x \in T : T \ {x} \in Good) => T \in Good
  PROVE  S \in Good
<1> DEFINE Bad == {T \in SUBSET S : T \notin Good}
<1> SUFFICES ASSUME Bad # {} PROVE FALSE
  OBVIOUS
<1>1. IsWellFoundedOn(StrictSubsetOrdering(S), FiniteSubsetsOf(S))
  BY FS_StrictSubsetOrderingWellFounded
<1>2. Bad \subseteq FiniteSubsetsOf(S)
  BY FS_FiniteSubsetsOfFinite
<1>3. \E T \in Bad : \A U \in Bad : ~ (<<U, T>> \in StrictSubsetOrdering(S))
  <2> HIDE DEF Bad
  <2>1. QED
    BY <1>1, <1>2, WFMin
<1>4. PICK T \in Bad : \A U \in Bad : ~ (<<U, T>> \in StrictSubsetOrdering(S))
  BY <1>3
<1>5. T # {}
  OBVIOUS
<1>6. ASSUME NEW x \in T
      PROVE  T \ {x} \in Good
  <2>1. T \ {x} \in SUBSET S /\ T \ {x} # T /\ T \ {x} \subseteq T
    OBVIOUS
  <2>2. <<T \ {x}, T>> \in StrictSubsetOrdering(S)
    BY <2>1 DEF StrictSubsetOrdering
  <2>3. QED
    BY <1>4, <2>1, <2>2
<1>7. QED
  BY <1>5, <1>6

-----------------------------------------------------------------------------
(* Heaps *)

(* A unit is an element with the number of the unit. *)
LEMMA UnitsMember ==
  ASSUME NEW f, NEW S, NEW x, NEW i
  PROVE  <<x, i>> \in Units(f, S) <=> x \in S /\ i \in 1 .. f[x]
BY DEF Units

(* Every unit is a pair. *)
LEMMA UnitsPairs ==
  ASSUME NEW f, NEW S, NEW u \in Units(f, S)
  PROVE  u = <<u[1], u[2]>> /\ u[1] \in S /\ u[2] \in 1 .. f[u[1]]
BY DEF Units

(* The units of one element are as many as its number says. *)
LEMMA Pile ==
  ASSUME NEW x, NEW n \in Nat
  PROVE  IsFiniteSet({x} \X (1 .. n)) /\ Cardinality({x} \X (1 .. n)) = n
<1>1. IsFiniteSet({x}) /\ Cardinality({x}) = 1
  BY FS_Singleton
<1>2. IsFiniteSet(1 .. n) /\ Cardinality(1 .. n) = n
  BY FS_Interval
<1>3. /\ IsFiniteSet({x} \X (1 .. n))
      /\ Cardinality({x} \X (1 .. n)) = Cardinality({x}) * Cardinality(1 .. n)
  BY <1>1, <1>2, FS_Product
<1>4. QED
  BY <1>1, <1>2, <1>3

(* Functions that agree on a set have the same heap on it. *)
LEMMA UnitsSame ==
  ASSUME NEW f, NEW g, NEW S, \A x \in S : f[x] = g[x]
  PROVE  Units(f, S) = Units(g, S) /\ Total(f, S) = Total(g, S)
<1>1. Units(f, S) = Units(g, S)
  BY DEF Units
<1>2. QED
  BY <1>1 DEF Total

(* No units at all. *)
LEMMA TotalZero ==
  ASSUME NEW f, NEW S, \A x \in S : f[x] = 0
  PROVE  IsFiniteSet(Units(f, S)) /\ Total(f, S) = 0
<1>1. Units(f, S) = {}
  BY DEF Units
<1>2. QED
  BY <1>1, FS_EmptySet DEF Total

(* One element apart from the rest. *)
LEMMA TotalSplit ==
  ASSUME NEW f, NEW S, NEW x \in S, f[x] \in Nat
  PROVE  /\ IsFiniteSet(Units(f, S)) <=> IsFiniteSet(Units(f, S \ {x}))
         /\ IsFiniteSet(Units(f, S)) =>
              /\ Total(f, S) \in Nat
              /\ Total(f, S \ {x}) \in Nat
              /\ Total(f, S) = Total(f, S \ {x}) + f[x]
<1> DEFINE P == {x} \X (1 .. f[x])
           R == Units(f, S \ {x})
<1>1. Units(f, S) = R \cup P
  BY DEF Units
<1>2. R \cap P = {}
  BY UnitsPairs
<1>3. IsFiniteSet(P) /\ Cardinality(P) = f[x]
  BY Pile
<1>4. IsFiniteSet(Units(f, S)) => IsFiniteSet(R)
  BY <1>1, FS_Subset
<1>5. ASSUME IsFiniteSet(R)
      PROVE  /\ IsFiniteSet(R \cup P)
             /\ Cardinality(R \cup P) = Cardinality(R) + f[x]
             /\ Cardinality(R) \in Nat
  <2>1. /\ IsFiniteSet(R \cup P)
        /\ Cardinality(R \cup P)
             = Cardinality(R) + Cardinality(P) - Cardinality(R \cap P)
    BY <1>3, <1>5, FS_Union
  <2>2. Cardinality(R \cap P) = 0
    BY <1>2, FS_EmptySet
  <2>3. Cardinality(R) \in Nat
    BY <1>5, FS_CardinalityType
  <2>4. QED
    BY <1>3, <2>1, <2>2, <2>3
<1>6. QED
  BY <1>1, <1>4, <1>5 DEF Total

(* One summand changes. *)
LEMMA TotalUpdate ==
  ASSUME NEW S, NEW f, NEW g, NEW x \in S, f[x] \in Nat, g[x] \in Nat,
         \A y \in S \ {x} : g[y] = f[y],
         IsFiniteSet(Units(f, S))
  PROVE  /\ IsFiniteSet(Units(g, S))
         /\ Total(f, S) \in Nat
         /\ Total(g, S) \in Nat
         /\ Total(g, S) + f[x] = Total(f, S) + g[x]
<1>1. /\ Units(f, S \ {x}) = Units(g, S \ {x})
      /\ Total(f, S \ {x}) = Total(g, S \ {x})
  BY UnitsSame
<1>2. /\ IsFiniteSet(Units(f, S \ {x}))
      /\ Total(f, S) \in Nat /\ Total(f, S \ {x}) \in Nat
      /\ Total(f, S) = Total(f, S \ {x}) + f[x]
  BY TotalSplit
<1>3. IsFiniteSet(Units(g, S))
  BY <1>1, <1>2, TotalSplit
<1>4. Total(g, S) \in Nat /\ Total(g, S) = Total(g, S \ {x}) + g[x]
  BY <1>3, TotalSplit
<1>5. QED
  BY <1>1, <1>2, <1>3, <1>4

-----------------------------------------------------------------------------
(* Over a finite set *)

(* A finite set of numbers has a finite heap. *)
LEMMA UnitsFinite ==
  ASSUME NEW S, IsFiniteSet(S), NEW f, \A x \in S : f[x] \in Nat
  PROVE  IsFiniteSet(Units(f, S)) /\ Total(f, S) \in Nat
<1> DEFINE Good == {T \in SUBSET S : IsFiniteSet(Units(f, T))}
<1>1. {} \in Good
  BY TotalZero
<1>2. ASSUME NEW T \in SUBSET S, T # {}, \A x \in T : T \ {x} \in Good
      PROVE  T \in Good
  <2>1. PICK x \in T : T \ {x} \in Good
    BY <1>2
  <2>2. QED
    BY <2>1, TotalSplit
<1> HIDE DEF Good
<1>3. S \in Good
  BY <1>1, <1>2, FiniteInduction
<1>4. QED
  BY <1>3, FS_CardinalityType DEF Good, Total

(* More of each is more in total. *)
LEMMA TotalMonotone ==
  ASSUME NEW S, IsFiniteSet(S), NEW f, NEW g,
         \A x \in S : f[x] \in Nat /\ g[x] \in Nat /\ f[x] <= g[x]
  PROVE  Total(f, S) <= Total(g, S)
<1>1. Units(f, S) \subseteq Units(g, S)
  <2>1. ASSUME NEW u \in Units(f, S)
        PROVE  u \in Units(g, S)
    <3>1. u = <<u[1], u[2]>> /\ u[1] \in S /\ u[2] \in 1 .. f[u[1]]
      BY UnitsPairs
    <3>2. u[2] \in 1 .. g[u[1]]
      BY <3>1
    <3>3. QED
      BY <3>1, <3>2, UnitsMember
  <2>2. QED
    BY <2>1
<1>2. QED
  BY <1>1, UnitsFinite, FS_Subset DEF Total

(* The total of sums is the sum of the totals. *)
LEMMA TotalPlus ==
  ASSUME NEW S, IsFiniteSet(S), NEW f, NEW g, NEW h,
         \A x \in S : f[x] \in Nat /\ g[x] \in Nat /\ h[x] = f[x] + g[x]
  PROVE  Total(h, S) = Total(f, S) + Total(g, S)
<1> DEFINE Good == {T \in SUBSET S : Total(h, T) = Total(f, T) + Total(g, T)}
<1>1. {} \in Good
  BY TotalZero
<1>2. ASSUME NEW T \in SUBSET S, T # {}, \A x \in T : T \ {x} \in Good
      PROVE  T \in Good
  <2>0. PICK x \in T : T \ {x} \in Good
    BY <1>2
  <2>1. IsFiniteSet(T)
    BY FS_Subset
  <2>2. /\ IsFiniteSet(Units(f, T)) /\ IsFiniteSet(Units(g, T))
        /\ IsFiniteSet(Units(h, T))
    BY <2>1, UnitsFinite
  <2>3. f[x] \in Nat /\ g[x] \in Nat /\ h[x] \in Nat /\ h[x] = f[x] + g[x]
    OBVIOUS
  <2>4. /\ Total(f, T) = Total(f, T \ {x}) + f[x] /\ Total(f, T \ {x}) \in Nat
        /\ Total(g, T) = Total(g, T \ {x}) + g[x] /\ Total(g, T \ {x}) \in Nat
        /\ Total(h, T) = Total(h, T \ {x}) + h[x] /\ Total(h, T \ {x}) \in Nat
    BY <2>2, <2>3, TotalSplit
  <2>5. Total(h, T \ {x}) = Total(f, T \ {x}) + Total(g, T \ {x})
    BY <2>0
  <2>6. QED
    BY <2>3, <2>4, <2>5
<1> HIDE DEF Good
<1>3. S \in Good
  BY <1>1, <1>2, FiniteInduction
<1>4. QED
  BY <1>3 DEF Good

(* The equation of the fold that adds up f: one(T) is the element it takes *)
(* out of T.                                                               *)
one(T) == CHOOSE x \in T : TRUE

AddsUp(sum, f, S) ==
  sum = [T \in SUBSET S |->
           IF T = {} THEN 0 ELSE f[one(T)] + sum[T \ {one(T)}]]

(* The element taken out is one of the set. *)
LEMMA OneIn ==
  ASSUME NEW T, T # {}
  PROVE  one(T) \in T
<1>1. \E x : x \in T
  OBVIOUS
<1>2. QED
  BY <1>1 DEF one

(* What is left, and what it adds up to. *)
LEMMA OneSplit ==
  ASSUME NEW S, IsFiniteSet(S), NEW f, \A x \in S : f[x] \in Nat,
         NEW T \in SUBSET S, T # {}
  PROVE  /\ one(T) \in T /\ f[one(T)] \in Nat
         /\ T \ {one(T)} \in SUBSET S
         /\ Total(f, T \ {one(T)}) \in Nat
         /\ Total(f, T) = f[one(T)] + Total(f, T \ {one(T)})
<1>1. one(T) \in T
  BY OneIn
<1>2. IsFiniteSet(Units(f, T))
  BY FS_Subset, UnitsFinite
<1>3. f[one(T)] \in Nat /\ T \ {one(T)} \in SUBSET S
  BY <1>1
<1>4. /\ Total(f, T \ {one(T)}) \in Nat
      /\ Total(f, T) = Total(f, T \ {one(T)}) + f[one(T)]
  BY <1>1, <1>2, <1>3, TotalSplit
<1>5. QED
  BY <1>1, <1>3, <1>4

(* The totals satisfy the equation of the fold ... *)
LEMMA TotalAddsUp ==
  ASSUME NEW S, IsFiniteSet(S), NEW f, \A x \in S : f[x] \in Nat
  PROVE  AddsUp([T \in SUBSET S |-> Total(f, T)], f, S)
<1> DEFINE sum == [T \in SUBSET S |-> Total(f, T)]
<1>1. ASSUME NEW T \in SUBSET S
      PROVE  sum[T] = IF T = {} THEN 0 ELSE f[one(T)] + sum[T \ {one(T)}]
  <2>1. CASE T = {}
    BY <2>1, TotalZero
  <2>2. CASE T # {}
    <3>1. sum[T] = Total(f, T) /\ sum[T \ {one(T)}] = Total(f, T \ {one(T)})
      BY <2>2, OneSplit
    <3> HIDE DEF sum
    <3>2. QED
      BY <2>2, <3>1, OneSplit
  <2>3. QED
    BY <2>1, <2>2
<1>2. QED
  BY <1>1 DEF AddsUp

(* ... and no other function does. *)
LEMMA AddsUpToTotal ==
  ASSUME NEW S, IsFiniteSet(S), NEW f, \A x \in S : f[x] \in Nat,
         NEW sum, AddsUp(sum, f, S)
  PROVE  sum[S] = Total(f, S)
<1> DEFINE Good == {T \in SUBSET S : sum[T] = Total(f, T)}
<1>1. {} \in Good
  BY TotalZero DEF AddsUp
<1>2. ASSUME NEW T \in SUBSET S, T # {}, \A x \in T : T \ {x} \in Good
      PROVE  T \in Good
  <2>1. sum[T \ {one(T)}] = Total(f, T \ {one(T)})
    <3>1. one(T) \in T
      BY <1>2, OneIn
    <3>2. QED
      BY <1>2, <3>1
  <2>2. sum[T] = f[one(T)] + sum[T \ {one(T)}]
    BY <1>2 DEF AddsUp
  <2>3. QED
    BY <1>2, <2>1, <2>2, OneSplit
<1> HIDE DEF Good
<1>3. S \in Good
  BY <1>1, <1>2, FiniteInduction
<1>4. QED
  BY <1>3 DEF Good

(* So the sum the models compute is the total. *)
LEMMA SumIsTotal ==
  ASSUME NEW S, IsFiniteSet(S), NEW f, \A x \in S : f[x] \in Nat
  PROVE  MapThenSumSet(LAMBDA x : f[x], S) = Total(f, S)
<1> DEFINE iter == CHOOSE i : AddsUp(i, f, S)
<1>1. AddsUp(iter, f, S)
  BY TotalAddsUp
<1>2. MapThenSumSet(LAMBDA x : f[x], S) = iter[S]
  BY DEF MapThenSumSet, MapThenFoldSet, AddsUp, one
<1> HIDE DEF iter
<1>3. QED
  BY <1>1, <1>2, AddsUpToTotal
=============================================================================

-------------------------------- MODULE Sums --------------------------------
(***************************************************************************)
(* Machine-checked facts about SumFunctionOnSet of the community modules,  *)
(* the sum of the values a function has on a finite set.                   *)
(***************************************************************************)
EXTENDS Functions, FiniteSets, FiniteSetTheorems, WellFoundedInduction, TLAPS

\* One unit for each that f counts at an element of S.
Units(f, S) == UNION {{x} \X (1..f[x]) : x \in S}

\* A non-empty set of subsets of a finite set has a least one: what does not hold of all subsets
\* fails first of one all of whose proper subsets have it.
LEMMA LeastSubset ==
  ASSUME NEW S, IsFiniteSet(S), NEW F \in SUBSET (SUBSET S), F # {}
  PROVE  \E T \in F : \A U \in SUBSET T : U # T => U \notin F
<1>1. IsWellFoundedOn(StrictSubsetOrdering(S), SUBSET S)
  BY FS_StrictSubsetOrderingWellFounded, FS_FiniteSubsetsOfFinite
<1>2. PICK T \in F : \A U \in F : <<U, T>> \notin StrictSubsetOrdering(S)
  BY <1>1, WFMin
<1> QED
  BY <1>2 DEF StrictSubsetOrdering

\* The units of one more element.
LEMMA UnitsAdd ==
  ASSUME NEW f, NEW S, NEW x, x \notin S, f[x] \in Nat, IsFiniteSet(Units(f, S))
  PROVE  /\ IsFiniteSet(Units(f, S \cup {x}))
         /\ Cardinality(Units(f, S \cup {x})) = Cardinality(Units(f, S)) + f[x]
<1> DEFINE new == {x} \X (1..f[x])
<1>1. Units(f, S \cup {x}) = Units(f, S) \cup new /\ Units(f, S) \cap new = {}
  BY DEF Units
<1>2. IsFiniteSet({x}) /\ Cardinality({x}) = 1
  BY FS_Singleton
<1>3. IsFiniteSet(1..f[x]) /\ Cardinality(1..f[x]) = f[x]
  BY FS_Interval
<1>4. IsFiniteSet(new) /\ Cardinality(new) = f[x]
  <2>1. IsFiniteSet(new) /\ Cardinality(new) = Cardinality({x}) * Cardinality(1..f[x])
    BY <1>2, <1>3, FS_Product
  <2> HIDE DEF new
  <2> QED
    BY <1>2, <1>3, <2>1
<1> HIDE DEF new
<1>5. /\ IsFiniteSet(Units(f, S) \cup new)
      /\ Cardinality(Units(f, S) \cup new)
           = Cardinality(Units(f, S)) + Cardinality(new) - Cardinality(Units(f, S) \cap new)
  BY <1>4, FS_Union
<1>6. Cardinality(Units(f, S) \cap new) = 0
  BY <1>1, FS_EmptySet
<1>7. Cardinality(Units(f, S)) \in Nat
  BY FS_CardinalityType
<1>8. Cardinality(Units(f, S) \cup new) = Cardinality(Units(f, S)) + f[x]
  BY <1>4, <1>5, <1>6, <1>7
<1> QED
  BY <1>1, <1>5, <1>8

\* The units of a finite set are finitely many.
LEMMA UnitsFinite ==
  ASSUME NEW S, IsFiniteSet(S), NEW f, \A x \in S : f[x] \in Nat
  PROVE  IsFiniteSet(Units(f, S)) /\ Cardinality(Units(f, S)) \in Nat
<1> DEFINE F == {T \in SUBSET S : ~IsFiniteSet(Units(f, T))}
<1>1. SUFFICES ASSUME F # {} PROVE FALSE
  BY <1>1, FS_CardinalityType
<1>2. PICK T \in F : \A U \in SUBSET T : U # T => U \notin F
  <2> HIDE DEF F
  <2>1. F \in SUBSET (SUBSET S)
    BY DEF F
  <2> QED
    BY <1>1, <2>1, LeastSubset
<1>3. T # {}
  <2>1. Units(f, {}) = {}
    BY DEF Units
  <2> QED
    BY <1>2, <2>1, FS_EmptySet
<1>4. PICK x \in T : TRUE
  BY <1>3
<1>5. T \ {x} \in SUBSET S /\ IsFiniteSet(Units(f, T \ {x}))
  BY <1>2, <1>4
<1>6. T = (T \ {x}) \cup {x} /\ f[x] \in Nat /\ x \notin T \ {x}
  BY <1>2, <1>4
<1>7. IsFiniteSet(Units(f, (T \ {x}) \cup {x}))
  BY <1>5, <1>6, UnitsAdd
<1> QED
  BY <1>2, <1>6, <1>7

\* The fold that SumFunctionOnSet stands for counts units.
LEMMA SumIsUnits ==
  ASSUME NEW S, IsFiniteSet(S), NEW f, \A x \in S : f[x] \in Nat
  PROVE  SumFunctionOnSet(f, S) = Cardinality(Units(f, S))
<1> DEFINE pick(s) == CHOOSE x \in s : TRUE
           IsFold(h) == h = [s \in SUBSET S |->
                               IF s = {} THEN 0 ELSE f[pick(s)] + h[s \ {pick(s)}]]
           count == [s \in SUBSET S |-> Cardinality(Units(f, s))]
           fold == CHOOSE h : IsFold(h)
<1>1. SumFunctionOnSet(f, S) = fold[S]
  BY DEF SumFunctionOnSet, FoldFunctionOnSet, MapThenFoldSet
<1>2. \A s \in SUBSET S : s # {} => pick(s) \in s
  OBVIOUS
<1>3. ASSUME NEW s \in SUBSET S, s # {}
      PROVE  count[s] = f[pick(s)] + count[s \ {pick(s)}]
  <2> DEFINE x == pick(s)
             t == s \ {x}
  <2>1. x \in s
    BY <1>2, <1>3
  <2> HIDE DEF x
  <2>2. t \in SUBSET S /\ s = t \cup {x} /\ x \notin t /\ f[x] \in Nat
    BY <2>1
  <2>3. IsFiniteSet(t)
    BY <2>2, FS_Subset
  <2>4. IsFiniteSet(Units(f, t)) /\ Cardinality(Units(f, t)) \in Nat
    BY <2>2, <2>3, UnitsFinite
  <2>5. Cardinality(Units(f, t \cup {x})) = Cardinality(Units(f, t)) + f[x]
    BY <2>2, <2>4, UnitsAdd
  <2>6. count[s] = Cardinality(Units(f, s)) /\ count[t] = Cardinality(Units(f, t))
    BY <2>2
  <2> HIDE DEF t, count
  <2>7. count[s] = f[x] + count[t]
    BY <2>2, <2>4, <2>5, <2>6
  <2> QED
    BY <2>7 DEF x, t
<1>4. count[{}] = 0
  <2>1. Units(f, {}) = {}
    BY DEF Units
  <2> QED
    BY <2>1, FS_EmptySet
<1>5. IsFold(count)
  BY <1>3, <1>4
<1>6. IsFold(fold)
  <2> HIDE DEF IsFold
  <2> QED
    BY <1>5
<1>7. \A s \in SUBSET S : fold[s] = count[s]
  <2> DEFINE F == {s \in SUBSET S : fold[s] # count[s]}
  <2>1. SUFFICES ASSUME F # {} PROVE FALSE
    OBVIOUS
  <2>2. PICK T \in F : \A U \in SUBSET T : U # T => U \notin F
    <3> HIDE DEF F
    <3>1. F \in SUBSET (SUBSET S)
      BY DEF F
    <3> QED
      BY <2>1, <3>1, LeastSubset
  <2> HIDE DEF count, fold
  <2>3. T # {}
    BY <1>4, <1>6, <2>2
  <2>4. pick(T) \in T
    BY <1>2, <2>2, <2>3
  <2>5. fold[T \ {pick(T)}] = count[T \ {pick(T)}]
    BY <2>2, <2>4
  <2> QED
    BY <1>3, <1>6, <2>2, <2>3, <2>5
<1> QED
  BY <1>1, <1>7

----------------------------------------------------------------------------
(* What the sum of natural numbers is, whatever order it is added up in *)

\* It is a natural number.
LEMMA SumType ==
  ASSUME NEW S, IsFiniteSet(S), NEW f, \A x \in S : f[x] \in Nat
  PROVE  SumFunctionOnSet(f, S) \in Nat
BY SumIsUnits, UnitsFinite

\* Over nothing it is zero.
LEMMA SumEmpty == ASSUME NEW f PROVE SumFunctionOnSet(f, {}) = 0
<1>1. Units(f, {}) = {}
  BY DEF Units
<1> QED
  BY <1>1, SumIsUnits, FS_EmptySet

\* One more element adds its value.
LEMMA SumAdd ==
  ASSUME NEW S, IsFiniteSet(S), NEW f, NEW x, x \notin S, f[x] \in Nat,
         \A y \in S : f[y] \in Nat
  PROVE  SumFunctionOnSet(f, S \cup {x}) = SumFunctionOnSet(f, S) + f[x]
<1>1. IsFiniteSet(S \cup {x}) /\ \A y \in S \cup {x} : f[y] \in Nat
  BY FS_AddElement
<1>2. /\ SumFunctionOnSet(f, S \cup {x}) = Cardinality(Units(f, S \cup {x}))
      /\ SumFunctionOnSet(f, S) = Cardinality(Units(f, S))
  BY <1>1, SumIsUnits
<1>3. IsFiniteSet(Units(f, S)) /\ f[x] \in Nat
  BY UnitsFinite
<1>4. Cardinality(Units(f, S \cup {x})) = Cardinality(Units(f, S)) + f[x]
  BY <1>3, UnitsAdd
<1> QED
  BY <1>2, <1>4

\* Its value is what an element adds to the rest.
LEMMA SumRemove ==
  ASSUME NEW S, IsFiniteSet(S), NEW f, \A y \in S : f[y] \in Nat, NEW x \in S
  PROVE  SumFunctionOnSet(f, S) = SumFunctionOnSet(f, S \ {x}) + f[x]
<1>1. IsFiniteSet(S \ {x}) /\ x \notin S \ {x} /\ f[x] \in Nat /\ S = (S \ {x}) \cup {x}
  BY FS_RemoveElement
<1>2. \A y \in S \ {x} : f[y] \in Nat
  OBVIOUS
<1>3. SumFunctionOnSet(f, (S \ {x}) \cup {x}) = SumFunctionOnSet(f, S \ {x}) + f[x]
  BY <1>1, <1>2, SumAdd
<1> QED
  BY <1>1, <1>3

\* It depends on the values at the elements alone.
LEMMA SumSame ==
  ASSUME NEW S, IsFiniteSet(S), NEW f, NEW g, \A x \in S : f[x] \in Nat /\ g[x] = f[x]
  PROVE  SumFunctionOnSet(g, S) = SumFunctionOnSet(f, S)
<1>1. Units(f, S) = Units(g, S)
  BY DEF Units
<1>2. SumFunctionOnSet(f, S) = Cardinality(Units(f, S))
  BY SumIsUnits
<1>3. SumFunctionOnSet(g, S) = Cardinality(Units(g, S))
  BY SumIsUnits
<1> QED
  BY <1>1, <1>2, <1>3

\* A larger set or larger values make it no smaller.
LEMMA SumMonotone ==
  ASSUME NEW S, IsFiniteSet(S), NEW T \in SUBSET S, NEW f, NEW g,
         \A x \in S : g[x] \in Nat, \A x \in T : f[x] \in Nat /\ f[x] <= g[x]
  PROVE  SumFunctionOnSet(f, T) <= SumFunctionOnSet(g, S)
<1>1. IsFiniteSet(T)
  BY FS_Subset
<1>2. /\ SumFunctionOnSet(f, T) = Cardinality(Units(f, T))
      /\ SumFunctionOnSet(g, S) = Cardinality(Units(g, S))
      /\ IsFiniteSet(Units(g, S))
  BY <1>1, SumIsUnits, UnitsFinite
<1>3. Units(f, T) \in SUBSET Units(g, S)
  <2>1. ASSUME NEW x \in T PROVE {x} \X (1..f[x]) \subseteq {x} \X (1..g[x])
    OBVIOUS
  <2> QED
    BY <2>1 DEF Units
<1> QED
  BY <1>2, <1>3, FS_Subset

\* One value that grows makes it grow as much.
LEMMA SumRaised ==
  ASSUME NEW S, IsFiniteSet(S), NEW f, NEW g, NEW x \in S, NEW d \in Nat,
         \A y \in S : f[y] \in Nat, \A y \in S \ {x} : g[y] = f[y], g[x] = f[x] + d
  PROVE  SumFunctionOnSet(g, S) = SumFunctionOnSet(f, S) + d
<1>1. IsFiniteSet(S \ {x}) /\ f[x] \in Nat /\ \A y \in S \ {x} : f[y] \in Nat /\ g[y] = f[y]
  BY FS_RemoveElement
<1>2. \A y \in S : g[y] \in Nat
  OBVIOUS
<1>3. SumFunctionOnSet(f, S) = SumFunctionOnSet(f, S \ {x}) + f[x]
  BY SumRemove
<1>4. SumFunctionOnSet(g, S) = SumFunctionOnSet(g, S \ {x}) + g[x]
  BY <1>2, SumRemove
<1>5. /\ SumFunctionOnSet(g, S \ {x}) = SumFunctionOnSet(f, S \ {x})
      /\ SumFunctionOnSet(f, S \ {x}) \in Nat
  BY <1>1, SumSame, SumType
<1> QED
  BY <1>1, <1>3, <1>4, <1>5
=============================================================================

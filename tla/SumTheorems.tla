----------------------------- MODULE SumTheorems -----------------------------
(***************************************************************************)
(* What SumFunctionOnSet computes.  The library defines it by a recursive  *)
(* function that takes the elements of the set in an order CHOOSE picks;   *)
(* here it is shown to be the number of units the set holds, from which    *)
(* follow the facts the proofs about stock and spend need: the sum of      *)
(* nothing is 0, and each element counts once, whatever the order.         *)
(***************************************************************************)
EXTENDS FiniteSetsExt, FiniteSetTheorems, TLAPS

\* One unit for each unit of f[x], for each x in S.
Units(f, S) == UNION {{x} \X (1..f[x]) : x \in S}

\* The equation the recursive function of the fold solves.
Sums(sum, f, S) ==
    sum = [s \in SUBSET S |->
              IF s = {} THEN 0
              ELSE f[CHOOSE x \in s : TRUE] + sum[s \ {CHOOSE x \in s : TRUE}]]

\* The fold, unfolded: the sum over S is the chosen function's value at S.
LEMMA SumIsChosen ==
    ASSUME NEW f, NEW S
    PROVE  SumFunctionOnSet(f, S) = (CHOOSE sum : Sums(sum, f, S))[S]
  BY DEF SumFunctionOnSet, FoldFunctionOnSet, MapThenFoldSet, Sums

\* Nothing holds no units.
LEMMA UnitsOfNothing == ASSUME NEW f PROVE Units(f, {}) = {}
  BY DEF Units

\* One element holds as many units as its number.
LEMMA UnitsOfOne ==
    ASSUME NEW x, NEW n \in Nat
    PROVE  IsFiniteSet({x} \X (1..n)) /\ Cardinality({x} \X (1..n)) = n
  <1> DEFINE one == {x}
             upTo == 1..n
  <1>1. IsFiniteSet(one) /\ Cardinality(one) = 1
    BY FS_Singleton
  <1>2. IsFiniteSet(upTo) /\ Cardinality(upTo) = n
    BY FS_Interval
  <1> HIDE DEF one, upTo
  <1>3. IsFiniteSet(one \X upTo) /\ Cardinality(one \X upTo) = Cardinality(one) * Cardinality(upTo)
    BY <1>1, <1>2, FS_Product
  <1>4. IsFiniteSet(one \X upTo) /\ Cardinality(one \X upTo) = n
    BY <1>1, <1>2, <1>3
  <1> QED BY <1>4 DEF one, upTo

\* The units of S are those of x and those of the rest, which are others.
LEMMA UnitsSplit ==
    ASSUME NEW f, NEW S, NEW x \in S
    PROVE  /\ Units(f, S) = Units(f, S \ {x}) \cup ({x} \X (1..f[x]))
           /\ Units(f, S \ {x}) \cap ({x} \X (1..f[x])) = {}
  <1>1. Units(f, S) = Units(f, S \ {x}) \cup ({x} \X (1..f[x]))
    BY DEF Units
  <1>2. \A u \in Units(f, S \ {x}) : u[1] # x
    BY DEF Units
  <1>3. \A u \in {x} \X (1..f[x]) : u[1] = x
    OBVIOUS
  <1> QED BY <1>1, <1>2, <1>3

\* Every non-empty set of finite subsets has one with no smaller one in it.
LEMMA SmallestSubset ==
    ASSUME NEW S, IsFiniteSet(S), NEW B \in SUBSET (SUBSET S), B # {}
    PROVE  \E s \in B : \A t \in B : ~ (t \subseteq s /\ t # s)
  <1>1. IsWellFoundedOn(StrictSubsetOrdering(S), SUBSET S)
    BY FS_FiniteSubsetsOfFinite, FS_StrictSubsetOrderingWellFounded
  <1>2. \E s \in B : \A t \in B : ~ (<<t, s>> \in StrictSubsetOrdering(S))
    BY <1>1, WFMin
  <1> QED BY <1>2 DEF StrictSubsetOrdering

\* There are finitely many units.
LEMMA UnitsFinite ==
    ASSUME NEW S, IsFiniteSet(S), NEW f, \A x \in S : f[x] \in Nat
    PROVE  \A s \in SUBSET S : IsFiniteSet(Units(f, s))
  <1> DEFINE Bad == {s \in SUBSET S : ~ IsFiniteSet(Units(f, s))}
  <1> SUFFICES ASSUME Bad # {} PROVE FALSE
    OBVIOUS
  <1>0. Bad \in SUBSET (SUBSET S)
    OBVIOUS
  <1>1. PICK s \in Bad : \A t \in Bad : ~ (t \subseteq s /\ t # s)
    <2> HIDE DEF Bad
    <2> QED BY <1>0, SmallestSubset
  <1>2. s # {}
    BY <1>1, UnitsOfNothing, FS_EmptySet
  <1>3. PICK x \in s : TRUE
    BY <1>2
  <1>4. IsFiniteSet(Units(f, s \ {x}))
    BY <1>1, <1>3
  <1>5. IsFiniteSet({x} \X (1..f[x]))
    BY <1>3, UnitsOfOne
  <1>6. IsFiniteSet(Units(f, s \ {x}) \cup ({x} \X (1..f[x])))
    BY <1>4, <1>5, FS_Union
  <1>7. Units(f, s) = Units(f, s \ {x}) \cup ({x} \X (1..f[x]))
    BY <1>3, UnitsSplit
  <1> QED BY <1>1, <1>6, <1>7

\* What an element adds to the number of units.
LEMMA UnitsAdd ==
    ASSUME NEW S, IsFiniteSet(S), NEW f, \A x \in S : f[x] \in Nat, NEW x \in S
    PROVE  Cardinality(Units(f, S)) = f[x] + Cardinality(Units(f, S \ {x}))
  <1> DEFINE rest == Units(f, S \ {x})
             own == {x} \X (1..f[x])
  <1>1. IsFiniteSet(rest)
    BY UnitsFinite
  <1>2. IsFiniteSet(own) /\ Cardinality(own) = f[x]
    BY UnitsOfOne
  <1>3. Units(f, S) = rest \cup own /\ rest \cap own = {}
    BY UnitsSplit
  <1> HIDE DEF rest, own
  <1>4. Cardinality(rest \cup own) = Cardinality(rest) + Cardinality(own) - Cardinality({})
    BY <1>1, <1>2, <1>3, FS_Union
  <1>5. Cardinality({}) = 0 /\ Cardinality(rest) \in Nat
    BY <1>1, FS_EmptySet, FS_CardinalityType
  <1>6. Cardinality(Units(f, S)) = f[x] + Cardinality(rest)
    BY <1>2, <1>3, <1>4, <1>5
  <1> QED BY <1>6 DEF rest

(* SumFunctionOnSet is the number of units: the fold's equation has a      *)
(* solution, and only this one.                                            *)
THEOREM SumIsUnits ==
    ASSUME NEW S, IsFiniteSet(S), NEW f, \A x \in S : f[x] \in Nat
    PROVE  SumFunctionOnSet(f, S) = Cardinality(Units(f, S))
  <1> DEFINE count == [s \in SUBSET S |-> Cardinality(Units(f, s))]
             sum == CHOOSE g : Sums(g, f, S)
  <1>1. \A s \in SUBSET S : \A x \in s :
            Cardinality(Units(f, s)) = f[x] + Cardinality(Units(f, s \ {x}))
    BY UnitsAdd, FS_Subset
  <1>2. Cardinality(Units(f, {})) = 0
    BY UnitsOfNothing, FS_EmptySet
  <1>3. Sums(count, f, S)
    <2>1. \A s \in SUBSET S : s # {} =>
              /\ (CHOOSE x \in s : TRUE) \in s
              /\ s \ {CHOOSE x \in s : TRUE} \in SUBSET S
      OBVIOUS
    <2>2. \A s \in SUBSET S :
              count[s] = IF s = {} THEN 0
                         ELSE f[CHOOSE x \in s : TRUE] + count[s \ {CHOOSE x \in s : TRUE}]
      BY <1>1, <1>2, <2>1
    <2> QED BY <2>2 DEF Sums
  <1>4. Sums(sum, f, S)
    BY <1>3
  <1>5. \A s \in SUBSET S : sum[s] = count[s]
    <2> DEFINE Bad == {s \in SUBSET S : sum[s] # count[s]}
    <2> SUFFICES ASSUME Bad # {} PROVE FALSE
      OBVIOUS
    <2>0. Bad \in SUBSET (SUBSET S)
      OBVIOUS
    <2>1. PICK s \in Bad : \A t \in Bad : ~ (t \subseteq s /\ t # s)
      <3> HIDE DEF Bad
      <3> QED BY <2>0, SmallestSubset
    <2> DEFINE x == CHOOSE y \in s : TRUE
    <2>2. /\ sum[s] = IF s = {} THEN 0 ELSE f[x] + sum[s \ {x}]
          /\ count[s] = IF s = {} THEN 0 ELSE f[x] + count[s \ {x}]
      BY <1>3, <1>4, <2>1 DEF Sums
    <2>3. s # {}
      BY <2>1, <2>2
    <2>4. x \in s
      BY <2>3
    <2>5. sum[s \ {x}] = count[s \ {x}]
      <3>1. /\ s \ {x} \in SUBSET S
            /\ s \ {x} \subseteq s
            /\ s \ {x} # s
        BY <2>4
      <3>2. s \ {x} \notin Bad
        <4> HIDE DEF Bad
        <4> QED BY <2>1, <3>1
      <3> QED BY <3>1, <3>2
    <2> QED BY <2>1, <2>2, <2>3, <2>5
  <1>6. SumFunctionOnSet(f, S) = sum[S]
    BY SumIsChosen
  <1> QED BY <1>5, <1>6

-----------------------------------------------------------------------------
(* The sum of nothing, and the sum with one element more.                  *)
THEOREM SumOfNothing == ASSUME NEW f PROVE SumFunctionOnSet(f, {}) = 0
  BY SumIsUnits, UnitsOfNothing, FS_EmptySet

\* A sum of natural numbers is a natural number.
THEOREM SumIsNat ==
    ASSUME NEW S, IsFiniteSet(S), NEW f, \A x \in S : f[x] \in Nat
    PROVE  SumFunctionOnSet(f, S) \in Nat
  BY SumIsUnits, UnitsFinite, FS_CardinalityType

\* An element more adds its number, whichever element CHOOSE takes first.
THEOREM SumWithOneMore ==
    ASSUME NEW S, IsFiniteSet(S), NEW x, x \notin S, NEW f,
           \A y \in S \cup {x} : f[y] \in Nat
    PROVE  SumFunctionOnSet(f, S \cup {x}) = SumFunctionOnSet(f, S) + f[x]
  <1> DEFINE more == S \cup {x}
  <1>1. IsFiniteSet(more)
    BY FS_AddElement
  <1>2. x \in more /\ more \ {x} = S /\ \A y \in more : f[y] \in Nat
    OBVIOUS
  <1>3. SumFunctionOnSet(f, S) \in Nat /\ SumFunctionOnSet(f, S) = Cardinality(Units(f, S))
    BY SumIsUnits, SumIsNat
  <1> HIDE DEF more
  <1>4. Cardinality(Units(f, more)) = f[x] + Cardinality(Units(f, S))
    BY <1>1, <1>2, UnitsAdd
  <1>5. SumFunctionOnSet(f, more) = f[x] + SumFunctionOnSet(f, S)
    BY <1>1, <1>2, <1>3, <1>4, SumIsUnits
  <1> QED BY <1>2, <1>3, <1>5 DEF more

(* Only the values on the set count.                                       *)
THEOREM SumAgrees ==
    ASSUME NEW S, IsFiniteSet(S), NEW f, NEW g, \A x \in S : f[x] \in Nat /\ g[x] = f[x]
    PROVE  SumFunctionOnSet(g, S) = SumFunctionOnSet(f, S)
  <1>1. Units(g, S) = Units(f, S)
    BY DEF Units
  <1> QED BY <1>1, SumIsUnits

(* A part never sums to more than the whole.                               *)
THEOREM SumOfAPart ==
    ASSUME NEW S, IsFiniteSet(S), NEW f, \A x \in S : f[x] \in Nat, NEW T \in SUBSET S
    PROVE  SumFunctionOnSet(f, T) <= SumFunctionOnSet(f, S)
  <1>1. Units(f, T) \in SUBSET Units(f, S)
    BY DEF Units
  <1>2. Cardinality(Units(f, T)) <= Cardinality(Units(f, S))
    BY <1>1, UnitsFinite, FS_Subset
  <1>3. IsFiniteSet(T)
    BY FS_Subset
  <1> QED BY <1>2, <1>3, SumIsUnits

(* A sum without one of its elements.                                      *)
THEOREM SumWithout ==
    ASSUME NEW S, IsFiniteSet(S), NEW f, \A y \in S : f[y] \in Nat, NEW x \in S
    PROVE  SumFunctionOnSet(f, S) = SumFunctionOnSet(f, S \ {x}) + f[x]
  <1> DEFINE rest == S \ {x}
  <1>1. IsFiniteSet(rest)
    BY FS_Subset
  <1>2. x \notin rest /\ rest \cup {x} = S
    OBVIOUS
  <1> HIDE DEF rest
  <1>3. SumFunctionOnSet(f, rest \cup {x}) = SumFunctionOnSet(f, rest) + f[x]
    BY <1>1, <1>2, SumWithOneMore
  <1> QED BY <1>2, <1>3 DEF rest

(* The sum of numbers of which one is put in, or put in place of another.  *)
THEOREM SumReplaced ==
    ASSUME NEW S, IsFiniteSet(S), NEW f, \A y \in S : f[y] \in Nat,
           NEW x, NEW g, g[x] \in Nat, \A y \in S \ {x} : g[y] = f[y]
    PROVE  SumFunctionOnSet(g, S \cup {x}) + (IF x \in S THEN f[x] ELSE 0)
               = SumFunctionOnSet(f, S) + g[x]
  <1> DEFINE rest == S \ {x}
  <1>1. IsFiniteSet(rest) /\ x \notin rest /\ S \cup {x} = rest \cup {x}
    BY FS_Subset
  <1>2. SumFunctionOnSet(g, rest) = SumFunctionOnSet(f, rest)
    BY <1>1, SumAgrees
  <1>3. \A y \in rest \cup {x} : g[y] \in Nat
    OBVIOUS
  <1>4. SumFunctionOnSet(f, rest) \in Nat
    BY <1>1, SumIsNat
  <1>5. SumFunctionOnSet(g, S \cup {x}) = SumFunctionOnSet(f, rest) + g[x]
    <2> HIDE DEF rest
    <2> QED BY <1>1, <1>2, <1>3, SumWithOneMore
  <1>6. x \in S => SumFunctionOnSet(f, S) = SumFunctionOnSet(f, rest) + f[x]
    BY SumWithout
  <1>7. x \notin S => SumFunctionOnSet(f, S) = SumFunctionOnSet(f, rest)
    <2>1. x \notin S => rest = S
      OBVIOUS
    <2> QED BY <2>1
  <1>8. SumFunctionOnSet(f, S) \in Nat /\ (x \in S => f[x] \in Nat)
    BY SumIsNat
  <1> HIDE DEF rest
  <1> QED BY <1>4, <1>5, <1>6, <1>7, <1>8

(* Elements that have others to stand for them, each another one, and no   *)
(* smaller, do not sum to more.                                            *)
THEOREM SumMapped ==
    ASSUME NEW S, NEW T, IsFiniteSet(S), IsFiniteSet(T), NEW f, NEW g,
           \A x \in S : f[x] \in Nat, \A y \in T : g[y] \in Nat,
           NEW m \in [S -> T], \A x, y \in S : m[x] = m[y] => x = y,
           \A x \in S : f[x] <= g[m[x]]
    PROVE  SumFunctionOnSet(f, S) <= SumFunctionOnSet(g, T)
  <1> DEFINE A == Units(f, S)
             B == Units(g, T)
             move == [u \in A |-> <<m[u[1]], u[2]>>]
  <1>1. \A u \in A : u[1] \in S /\ u[2] \in 1 .. f[u[1]] /\ u = <<u[1], u[2]>>
    BY DEF Units
  <1>2. \A y \in T : \A j \in 1 .. g[y] : <<y, j>> \in B
    BY DEF Units
  <1>3. IsFiniteSet(A) /\ IsFiniteSet(B)
    BY UnitsFinite
  <1>4. SumFunctionOnSet(f, S) = Cardinality(A) /\ SumFunctionOnSet(g, T) = Cardinality(B)
    BY SumIsUnits
  <1> HIDE DEF A, B
  <1>5. \A u \in A : move[u] \in B
    <2> SUFFICES ASSUME NEW u \in A PROVE move[u] \in B
      OBVIOUS
    <2>1. m[u[1]] \in T /\ u[2] \in 1 .. g[m[u[1]]]
      BY <1>1
    <2> QED BY <1>2, <2>1
  <1>6. \A u, v \in A : move[u] = move[v] => u = v
    BY <1>1
  <1>7. move \in Injection(A, B)
    BY <1>5, <1>6 DEF Injection, IsInjective
  <1>8. Cardinality(A) <= Cardinality(B)
    <2> HIDE DEF move
    <2> QED BY <1>3, <1>7, FS_Injection
  <1> QED BY <1>4, <1>8
=============================================================================

-------------------------------- MODULE Sums --------------------------------
(***************************************************************************)
(* Lemmas about SumFunctionOnSet of the community modules, which sums a    *)
(* function over a finite set. It is defined by recursion over sets, so    *)
(* its facts need induction, over the natural numbers first and over       *)
(* finite sets next. Both are proved here from the library's theorem that  *)
(* < is well-founded; the induction theorems of the library take an        *)
(* operator and cannot be used.                                            *)
(***************************************************************************)
EXTENDS Integers, Functions, FiniteSetTheorems, TLAPS

-----------------------------------------------------------------------------
(* The order of the natural numbers as a set of pairs, so that the         *)
(* library's theorem on it can be used.                                    *)
LessThan == {pair \in Nat \X Nat : pair[1] < pair[2]}

(* Natural numbers have a smallest one among them. *)
LEMMA SmallestElement ==
  ASSUME NEW T \in SUBSET Nat, T # {}
  PROVE  \E x \in T : \A y \in T : x <= y
<1>1. IsWellFoundedOn(LessThan, Nat)
  BY NatLessThanWellFounded DEF OpToRel, LessThan
<1>2. PICK x \in T : \A y \in T : ~ (<<y, x>> \in LessThan)
  BY <1>1, WFMin
<1>3. ASSUME NEW y \in T PROVE x <= y
  <2>1. <<y, x>> \in Nat \X Nat
    OBVIOUS
  <2>2. ~ (y < x)
    BY <1>2, <2>1 DEF LessThan
  <2> QED
    BY <2>2
<1> QED
  BY <1>3

(* Induction over the natural numbers. What is to be proved is a set, so   *)
(* that nothing has to be instantiated with an operator: the smallest      *)
(* number that is not in it would have a predecessor that is.              *)
LEMMA SetInduction ==
  ASSUME NEW S, 0 \in S, \A n \in Nat : n \in S => n + 1 \in S
  PROVE  Nat \subseteq S
<1> DEFINE T == Nat \ S
<1> SUFFICES ASSUME T # {} PROVE FALSE
  OBVIOUS
<1>1. PICK x \in T : \A y \in T : x <= y
  <2>1. T \in SUBSET Nat
    OBVIOUS
  <2> HIDE DEF T
  <2> QED
    BY <2>1, SmallestElement
<1>2. x # 0 /\ x - 1 \in Nat
  OBVIOUS
<1>3. x - 1 \in S
  BY <1>1, <1>2
<1> QED
  BY <1>2, <1>3

(* Induction over a finite set: a family of subsets that has the empty     *)
(* set, and every set all of whose one-element-smaller sets it has, has    *)
(* them all.                                                               *)
LEMMA SubsetInduction ==
  ASSUME NEW S, IsFiniteSet(S), NEW Good \in SUBSET (SUBSET S), {} \in Good,
         \A T \in SUBSET S : T # {} /\ (\A x \in T : T \ {x} \in Good) => T \in Good
  PROVE  Good = SUBSET S
<1> DEFINE Sizes == {n \in Nat : \A T \in SUBSET S : Cardinality(T) = n => T \in Good}
<1>0. \A T \in SUBSET S : IsFiniteSet(T) /\ Cardinality(T) \in Nat
  BY FS_Subset, FS_CardinalityType
<1>1. 0 \in Sizes
  BY <1>0, FS_EmptySet
<1>2. ASSUME NEW n \in Nat, n \in Sizes PROVE n + 1 \in Sizes
  <2> SUFFICES ASSUME NEW T \in SUBSET S, Cardinality(T) = n + 1 PROVE T \in Good
    OBVIOUS
  <2>1. T # {}
    BY FS_EmptySet
  <2>2. ASSUME NEW x \in T PROVE T \ {x} \in Good
    <3>1. Cardinality(T \ {x}) = n
      BY <1>0, FS_RemoveElement
    <3> QED
      BY <1>2, <3>1
  <2> QED
    BY <2>1, <2>2
<1>3. Nat \subseteq Sizes
  <2> HIDE DEF Sizes
  <2> QED
    BY <1>1, <1>2, SetInduction
<1> QED
  BY <1>0, <1>3

(* The numbers up to n are n numbers. *)
LEMMA FirstNumbers == \A n \in Nat : IsFiniteSet(1 .. n) /\ Cardinality(1 .. n) = n
<1> SUFFICES ASSUME NEW n \in Nat PROVE IsFiniteSet(1 .. n) /\ Cardinality(1 .. n) = n
  OBVIOUS
<1>1. Cardinality(1 .. n) = IF 1 > n THEN 0 ELSE n - 1 + 1
  BY FS_Interval
<1>2. (IF 1 > n THEN 0 ELSE n - 1 + 1) = n
  OBVIOUS
<1>3. IsFiniteSet(1 .. n)
  BY FS_Interval
<1> QED
  BY <1>1, <1>2, <1>3

-----------------------------------------------------------------------------
(* The element that the fold of the community modules takes next. *)
Pick(s) == CHOOSE x \in s : TRUE

(* SumFunctionOnSet is f[x] + g[s without x], where g is the table of the  *)
(* smaller sets that CHOOSE takes for the recursive function.              *)
SumStep(f, g, s) == IF s = {} THEN 0 ELSE f[Pick(s)] + g[s \ {Pick(s)}]
SumTable(f, S) == CHOOSE g : g = [s \in SUBSET S |-> SumStep(f, g, s)]

(* The sum is an entry of that table. *)
LEMMA SumIsTable ==
  ASSUME NEW f, NEW S
  PROVE  SumFunctionOnSet(f, S) = SumTable(f, S)[S]
BY DEF SumFunctionOnSet, FoldFunctionOnSet, MapThenFoldSet, SumTable, SumStep, Pick

(* A set that is not empty has an element to take. *)
LEMMA PickIn == \A s : s # {} => Pick(s) \in s
BY DEF Pick

(* The table exists, hence is what CHOOSE takes: there is one for the sets *)
(* up to n elements, for every n.                                          *)
LEMMA TableExists ==
  ASSUME NEW f, NEW S, IsFiniteSet(S)
  PROVE  SumTable(f, S) = [s \in SUBSET S |-> SumStep(f, SumTable(f, S), s)]
<1> DEFINE Small(n) == {s \in SUBSET S : Cardinality(s) <= n}
           Sizes == {n \in Nat : \E g : g = [s \in Small(n) |-> SumStep(f, g, s)]}
<1>0. \A T \in SUBSET S : IsFiniteSet(T) /\ Cardinality(T) \in Nat
  BY FS_Subset, FS_CardinalityType
<1>4. \A s \in SUBSET S : s # {} => /\ Pick(s) \in s
                                    /\ s \ {Pick(s)} \in SUBSET S
                                    /\ Cardinality(s \ {Pick(s)}) = Cardinality(s) - 1
    BY <1>0, PickIn, FS_RemoveElement
<1>1. 0 \in Sizes
  <2> DEFINE g == [s \in Small(0) |-> 0]
  <2>1. \A s \in Small(0) : s = {}
    BY <1>0, FS_EmptySet
  <2>2. g = [s \in Small(0) |-> SumStep(f, g, s)]
    BY <2>1 DEF SumStep
  <2> QED
    BY <2>2
<1>2. ASSUME NEW n \in Nat, n \in Sizes PROVE n + 1 \in Sizes
  <2>1. PICK g : g = [s \in Small(n) |-> SumStep(f, g, s)]
    BY <1>2
  <2> DEFINE h == [s \in Small(n + 1) |-> SumStep(f, g, s)]
  <2>2. \A s \in Small(n) : h[s] = g[s]
    BY <2>1, <1>0
  <2>3. ASSUME NEW s \in Small(n + 1) PROVE SumStep(f, g, s) = SumStep(f, h, s)
    <3>1. CASE s = {}
      BY <3>1 DEF SumStep
    <3>2. CASE s # {}
      <4>1. s \ {Pick(s)} \in Small(n)
        BY <3>2, <1>4, <1>0
      <4>2. h[s \ {Pick(s)}] = g[s \ {Pick(s)}]
        BY <4>1, <2>2
      <4> QED
        BY <4>2, <3>2 DEF SumStep
    <3> QED BY <3>1, <3>2
  <2>4. h = [s \in Small(n + 1) |-> SumStep(f, h, s)]
    BY <2>3
  <2>5. \E g1 : g1 = [s \in Small(n + 1) |-> SumStep(f, g1, s)]
    <3> HIDE DEF h, Small
    <3> QED
      BY <2>4
  <2>6. n + 1 \in Nat
    OBVIOUS
  <2> HIDE DEF Small
  <2> QED
    BY <2>5, <2>6, Zenon
<1>3. Nat \subseteq Sizes
  <2> HIDE DEF Sizes
  <2> QED
    BY <1>1, <1>2, SetInduction
<1>5. Cardinality(S) \in Sizes
  BY <1>0, <1>3
<1>6. Small(Cardinality(S)) = SUBSET S
  BY <1>0, FS_Subset
<1>7. \E g : g = [s \in SUBSET S |-> SumStep(f, g, s)]
  BY <1>5, <1>6
<1> QED
  BY <1>7 DEF SumTable

(* Numbers that are added up in these models are natural numbers. *)
Natural(f, S) == \A x \in S : f[x] \in Nat

(* What the sum is: nothing is 0, anything else the element taken first    *)
(* and the sum of the rest. The tables of a set and of a part of it agree  *)
(* on the part.                                                            *)
LEMMA SumUnfold ==
  ASSUME NEW f, NEW S, IsFiniteSet(S)
  PROVE  /\ SumFunctionOnSet(f, {}) = 0
         /\ S # {} => SumFunctionOnSet(f, S) = f[Pick(S)] + SumFunctionOnSet(f, S \ {Pick(S)})
<1>1. \A T : IsFiniteSet(T) =>
         SumTable(f, T) = [s \in SUBSET T |-> SumStep(f, SumTable(f, T), s)]
  BY TableExists
<1>2. SumFunctionOnSet(f, {}) = 0
  <2>1. SumTable(f, {})[{}] = SumStep(f, SumTable(f, {}), {})
    BY <1>1, FS_EmptySet
  <2> QED
    BY <2>1, SumIsTable DEF SumStep
<1>3. ASSUME S # {} PROVE SumFunctionOnSet(f, S) = f[Pick(S)] + SumFunctionOnSet(f, S \ {Pick(S)})
  <2> DEFINE T == S \ {Pick(S)}
             g == SumTable(f, S)
             h == SumTable(f, T)
  <2>1. Pick(S) \in S /\ T \in SUBSET S /\ IsFiniteSet(T)
    BY <1>3, PickIn, FS_Subset
  <2>2. /\ g = [s \in SUBSET S |-> SumStep(f, g, s)]
        /\ h = [s \in SUBSET T |-> SumStep(f, h, s)]
    BY <1>1, <2>1
  <2> DEFINE Good == {s \in SUBSET T : g[s] = h[s]}
  <2>3. Good = SUBSET T
    <3>1. {} \in Good
      <4>1. g[{}] = SumStep(f, g, {}) /\ h[{}] = SumStep(f, h, {})
        <5> HIDE DEF g, h, T
        <5> QED BY <2>2
      <4> QED BY <4>1 DEF SumStep
    <3>2. ASSUME NEW s \in SUBSET T, s # {}, \A x \in s : s \ {x} \in Good PROVE s \in Good
      <4>1. Pick(s) \in s /\ s \in SUBSET S
        BY <3>2, PickIn
      <4>2. g[s \ {Pick(s)}] = h[s \ {Pick(s)}]
        BY <3>2, <4>1
      <4>3. g[s] = SumStep(f, g, s) /\ h[s] = SumStep(f, h, s)
        <5> HIDE DEF g, h, T
        <5> QED BY <2>2, <4>1
      <4> QED BY <4>2, <4>3 DEF SumStep
    <3> HIDE DEF Good, T
    <3>3. Good \in SUBSET (SUBSET T)
      BY DEF Good
    <3> QED
      BY <2>1, <3>1, <3>2, <3>3, SubsetInduction
  <2>4. g[S] = f[Pick(S)] + g[T]
    <3>1. g[S] = SumStep(f, g, S)
      <4> HIDE DEF g, h
      <4> QED BY <2>2
    <3> QED BY <3>1, <1>3 DEF SumStep
  <2>5. g[T] = h[T]
    BY <2>3
  <2> QED
    BY <2>4, <2>5, SumIsTable
<1> QED
  BY <1>2, <1>3

(* A sum of nothing is 0, whatever is summed. *)
LEMMA SumEmpty == \A f : SumFunctionOnSet(f, {}) = 0
BY SumUnfold, FS_EmptySet

(* A sum of natural numbers is one. *)
LEMMA SumNatural ==
  ASSUME NEW S, IsFiniteSet(S), NEW f, Natural(f, S)
  PROVE  SumFunctionOnSet(f, S) \in Nat
<1> DEFINE Good == {T \in SUBSET S : SumFunctionOnSet(f, T) \in Nat}
<1>0. \A T \in SUBSET S : IsFiniteSet(T)
  BY FS_Subset
<1>1. {} \in Good
  <2>1. SumFunctionOnSet(f, {}) = 0
    BY SumUnfold, FS_EmptySet
  <2> QED BY <2>1
<1>2. ASSUME NEW T \in SUBSET S, T # {}, \A x \in T : T \ {x} \in Good PROVE T \in Good
  <2>1. Pick(T) \in T
    BY <1>2, PickIn
  <2>2. SumFunctionOnSet(f, T \ {Pick(T)}) \in Nat /\ f[Pick(T)] \in Nat
    BY <1>2, <2>1 DEF Natural
  <2>3. SumFunctionOnSet(f, T) = f[Pick(T)] + SumFunctionOnSet(f, T \ {Pick(T)})
    BY <1>0, <1>2, SumUnfold
  <2> QED BY <2>2, <2>3
<1>3. Good = SUBSET S
  <2>1. Good \in SUBSET (SUBSET S)
    OBVIOUS
  <2> HIDE DEF Good
  <2> QED
    BY <1>1, <1>2, <2>1, SubsetInduction
<1> QED
  BY <1>3

(* Any element may be taken first: the order in which the fold goes        *)
(* through the set does not matter.                                        *)
LEMMA SumRemove ==
  ASSUME NEW S, IsFiniteSet(S), NEW f, Natural(f, S), NEW x \in S
  PROVE  SumFunctionOnSet(f, S) = f[x] + SumFunctionOnSet(f, S \ {x})
<1> DEFINE Sum(T) == SumFunctionOnSet(f, T)
           Good == {T \in SUBSET S : \A y \in T : Sum(T) = f[y] + Sum(T \ {y})}
<1>0. \A T \in SUBSET S : IsFiniteSet(T) /\ Sum(T) \in Nat
  BY FS_Subset, SumNatural DEF Natural
<1>1. {} \in Good
  OBVIOUS
<1>2. ASSUME NEW T \in SUBSET S, T # {}, \A y \in T : T \ {y} \in Good PROVE T \in Good
  <2> SUFFICES ASSUME NEW y \in T PROVE Sum(T) = f[y] + Sum(T \ {y})
    OBVIOUS
  <2> DEFINE p == Pick(T)
  <2>1. p \in T
    BY <1>2, PickIn
  <2>2. Sum(T) = f[p] + Sum(T \ {p})
    BY <1>0, <1>2, SumUnfold
  <2>3. CASE y = p
    BY <2>2, <2>3
  <2>4. CASE y # p
    <3>1. Sum(T \ {p}) = f[y] + Sum((T \ {p}) \ {y})
      BY <1>2, <2>1, <2>4
    <3>2. Sum(T \ {y}) = f[p] + Sum((T \ {y}) \ {p})
      BY <1>2, <2>1, <2>4
    <3>3. (T \ {p}) \ {y} = (T \ {y}) \ {p}
      OBVIOUS
    <3>4. f[p] \in Nat /\ f[y] \in Nat /\ Sum((T \ {y}) \ {p}) \in Nat
      BY <1>0, <2>1 DEF Natural
    <3>5. Sum((T \ {p}) \ {y}) = Sum((T \ {y}) \ {p})
      BY <3>3
    <3>6. f[p] + (f[y] + Sum((T \ {y}) \ {p})) = f[y] + (f[p] + Sum((T \ {y}) \ {p}))
      BY <3>4
    <3> QED BY <2>2, <3>1, <3>2, <3>5, <3>6
  <2> QED
    BY <2>3, <2>4
<1>3. Good = SUBSET S
  <2>1. Good \in SUBSET (SUBSET S)
    OBVIOUS
  <2> HIDE DEF Good
  <2> QED
    BY <1>1, <1>2, <2>1, SubsetInduction
<1> QED
  BY <1>3

(* Functions that agree on a set have the same sum over it. *)
LEMMA SumEqual ==
  ASSUME NEW S, IsFiniteSet(S), NEW f, NEW g, \A x \in S : f[x] = g[x]
  PROVE  SumFunctionOnSet(f, S) = SumFunctionOnSet(g, S)
<1> DEFINE Good == {T \in SUBSET S : SumFunctionOnSet(f, T) = SumFunctionOnSet(g, T)}
<1>0. \A T \in SUBSET S : IsFiniteSet(T)
  BY FS_Subset
<1>1. {} \in Good
  <2>1. SumFunctionOnSet(f, {}) = 0 /\ SumFunctionOnSet(g, {}) = 0
    BY SumUnfold, FS_EmptySet
  <2> QED
    BY <2>1
<1>2. ASSUME NEW T \in SUBSET S, T # {}, \A x \in T : T \ {x} \in Good PROVE T \in Good
  <2>1. Pick(T) \in T
    BY <1>2, PickIn
  <2>2. /\ SumFunctionOnSet(f, T) = f[Pick(T)] + SumFunctionOnSet(f, T \ {Pick(T)})
        /\ SumFunctionOnSet(g, T) = g[Pick(T)] + SumFunctionOnSet(g, T \ {Pick(T)})
    BY <1>0, <1>2, SumUnfold
  <2> QED
    BY <1>2, <2>1, <2>2
<1>3. Good = SUBSET S
  <2>1. Good \in SUBSET (SUBSET S)
    OBVIOUS
  <2> HIDE DEF Good
  <2> QED
    BY <1>1, <1>2, <2>1, SubsetInduction
<1> QED
  BY <1>3

(* An element that joins the set joins the sum. *)
LEMMA SumInsert ==
  ASSUME NEW S, IsFiniteSet(S), NEW x, x \notin S, NEW f, Natural(f, S \union {x})
  PROVE  SumFunctionOnSet(f, S \union {x}) = f[x] + SumFunctionOnSet(f, S)
<1>1. IsFiniteSet(S \union {x}) /\ (S \union {x}) \ {x} = S
  BY FS_AddElement
<1> QED
  BY <1>1, SumRemove

(* When one value changes, the sum changes by the difference. *)
LEMMA SumChanged ==
  ASSUME NEW S, IsFiniteSet(S), NEW f, Natural(f, S), NEW g, Natural(g, S), NEW x \in S,
         \A y \in S \ {x} : f[y] = g[y]
  PROVE  SumFunctionOnSet(g, S) + f[x] = SumFunctionOnSet(f, S) + g[x]
<1>1. IsFiniteSet(S \ {x})
  BY FS_Subset
<1>2. SumFunctionOnSet(f, S \ {x}) = SumFunctionOnSet(g, S \ {x})
  BY <1>1, SumEqual
<1>3. /\ SumFunctionOnSet(f, S) = f[x] + SumFunctionOnSet(f, S \ {x})
      /\ SumFunctionOnSet(g, S) = g[x] + SumFunctionOnSet(g, S \ {x})
  BY SumRemove
<1>4. f[x] \in Nat /\ g[x] \in Nat /\ SumFunctionOnSet(f, S \ {x}) \in Nat
  BY <1>1, SumNatural DEF Natural
<1> QED
  BY <1>2, <1>3, <1>4

(* Zeros may be left out. *)
LEMMA SumZeros ==
  ASSUME NEW S, IsFiniteSet(S), NEW f, Natural(f, S), NEW T \in SUBSET S,
         \A x \in S \ T : f[x] = 0
  PROVE  SumFunctionOnSet(f, S) = SumFunctionOnSet(f, T)
<1> DEFINE Rest == S \ T
           Good == {U \in SUBSET Rest : SumFunctionOnSet(f, T \union U) = SumFunctionOnSet(f, T)}
<1>0. IsFiniteSet(Rest) /\ \A U \in SUBSET Rest : IsFiniteSet(T \union U)
  BY FS_Subset
<1>1. {} \in Good
  <2>1. T \union {} = T
    OBVIOUS
  <2> QED
    BY <2>1
<1>2. ASSUME NEW U \in SUBSET Rest, U # {}, \A x \in U : U \ {x} \in Good PROVE U \in Good
  <2>1. PICK x \in U : TRUE
    BY <1>2
  <2>2. (T \union U) \ {x} = T \union (U \ {x})
    BY <2>1
  <2>3. SumFunctionOnSet(f, T \union U) = f[x] + SumFunctionOnSet(f, (T \union U) \ {x})
    <3>1. Natural(f, T \union U) /\ x \in T \union U
      BY <2>1 DEF Natural
    <3> QED
      BY <1>0, <3>1, SumRemove
  <2>4. f[x] = 0 /\ SumFunctionOnSet(f, T) \in Nat
    BY <2>1, SumNatural, FS_Subset DEF Natural
  <2> QED
    BY <1>2, <2>1, <2>2, <2>3, <2>4
<1>3. Good = SUBSET Rest
  <2>1. Good \in SUBSET (SUBSET Rest)
    OBVIOUS
  <2> HIDE DEF Good, Rest
  <2> QED
    BY <1>0, <1>1, <1>2, <2>1, SubsetInduction
<1>4. T \union Rest = S
  OBVIOUS
<1> QED
  <2>1. Rest \in Good
    BY <1>3
  <2> QED
    BY <1>4, <2>1

(* A part sums up to at most the whole. *)
LEMMA SumMonotone ==
  ASSUME NEW S, IsFiniteSet(S), NEW f, Natural(f, S), NEW T \in SUBSET S
  PROVE  SumFunctionOnSet(f, T) <= SumFunctionOnSet(f, S)
<1> DEFINE Rest == S \ T
           Good == {U \in SUBSET Rest : SumFunctionOnSet(f, T) <= SumFunctionOnSet(f, T \union U)}
<1>0. IsFiniteSet(Rest) /\ \A U \in SUBSET Rest : IsFiniteSet(T \union U)
  BY FS_Subset
<1>1. {} \in Good
  <2>1. T \union {} = T /\ SumFunctionOnSet(f, T) \in Nat
    BY SumNatural, FS_Subset DEF Natural
  <2> QED
    BY <2>1
<1>2. ASSUME NEW U \in SUBSET Rest, U # {}, \A x \in U : U \ {x} \in Good PROVE U \in Good
  <2>1. PICK x \in U : TRUE
    BY <1>2
  <2>2. (T \union U) \ {x} = T \union (U \ {x})
    BY <2>1
  <2>3. SumFunctionOnSet(f, T \union U) = f[x] + SumFunctionOnSet(f, (T \union U) \ {x})
    <3>1. Natural(f, T \union U) /\ x \in T \union U
      BY <2>1 DEF Natural
    <3> QED
      BY <1>0, <3>1, SumRemove
  <2>4. /\ f[x] \in Nat /\ SumFunctionOnSet(f, T) \in Nat
        /\ SumFunctionOnSet(f, T \union (U \ {x})) \in Nat
    BY <1>0, <2>1, SumNatural, FS_Subset DEF Natural
  <2>5. SumFunctionOnSet(f, T) <= SumFunctionOnSet(f, T \union (U \ {x}))
    BY <1>2, <2>1
  <2>6. SumFunctionOnSet(f, T) <= SumFunctionOnSet(f, T \union U)
    BY <2>2, <2>3, <2>4, <2>5
  <2> QED
    BY <1>2, <2>6
<1>3. Good = SUBSET Rest
  <2>1. Good \in SUBSET (SUBSET Rest)
    OBVIOUS
  <2> HIDE DEF Good, Rest
  <2> QED
    BY <1>0, <1>1, <1>2, <2>1, SubsetInduction
<1>4. T \union Rest = S
  OBVIOUS
<1> QED
  <2>1. Rest \in Good
    BY <1>3
  <2> QED
    BY <1>4, <2>1

(* The elements of a set may be numbered, and their numbers summed over    *)
(* instead.                                                                *)
LEMMA SumReindexed ==
  ASSUME NEW S, IsFiniteSet(S), NEW T, NEW h \in Bijection(S, T),
         NEW f, Natural(f, S), NEW g, \A x \in S : f[x] = g[h[x]]
  PROVE  SumFunctionOnSet(f, S) = SumFunctionOnSet(g, T)
<1>a. /\ h \in [S -> T]
      /\ \A x, y \in S : h[x] = h[y] => x = y
      /\ \A t \in T : \E x \in S : h[x] = t
  BY DEF Bijection, Injection, Surjection, IsInjective
<1> DEFINE Image(U) == {h[x] : x \in U}
           Good == {U \in SUBSET S : SumFunctionOnSet(f, U) = SumFunctionOnSet(g, Image(U))}
<1>0. \A U \in SUBSET S : IsFiniteSet(U) /\ IsFiniteSet(Image(U))
  <2>1. ASSUME NEW U \in SUBSET S PROVE IsFiniteSet(U) /\ IsFiniteSet(Image(U))
    <3>1. IsFiniteSet(U)
      BY FS_Subset
    <3>2. [x \in U |-> h[x]] \in Surjection(U, Image(U))
      BY DEF Surjection
    <3> QED
      BY <3>1, <3>2, FS_Surjection
  <2> QED
    BY <2>1
<1>1. {} \in Good
  <2>1. SumFunctionOnSet(f, {}) = 0 /\ SumFunctionOnSet(g, {}) = 0
    BY SumUnfold, FS_EmptySet
  <2>2. Image({}) = {}
    OBVIOUS
  <2> QED
    BY <2>1, <2>2
<1>2. ASSUME NEW U \in SUBSET S, U # {}, \A x \in U : U \ {x} \in Good PROVE U \in Good
  <2>1. PICK x \in U : TRUE
    BY <1>2
  <2>2. Image(U \ {x}) = Image(U) \ {h[x]}
    BY <1>a, <2>1
  <2>3. SumFunctionOnSet(f, U) = f[x] + SumFunctionOnSet(f, U \ {x})
    <3>1. Natural(f, U)
      BY DEF Natural
    <3> QED
      BY <1>0, <2>1, <3>1, SumRemove
  <2>4. SumFunctionOnSet(g, Image(U)) = g[h[x]] + SumFunctionOnSet(g, Image(U) \ {h[x]})
    <3>1. Natural(g, Image(U)) /\ h[x] \in Image(U)
      BY <2>1 DEF Natural
    <3> HIDE DEF Image
    <3> QED
      BY <1>0, <3>1, SumRemove
  <2> QED
    BY <1>2, <2>1, <2>2, <2>3, <2>4
<1>3. Good = SUBSET S
  <2>1. Good \in SUBSET (SUBSET S)
    OBVIOUS
  <2>2. \A U \in SUBSET S : U # {} /\ (\A x \in U : U \ {x} \in Good) => U \in Good
    BY <1>2
  <2> HIDE DEF Good
  <2> QED
    BY <1>1, <2>1, <2>2, SubsetInduction
<1>4. Image(S) = T
  BY <1>a
<1> QED
  BY <1>3, <1>4

(* Multiplication distributes over addition; stated once, for the solver   *)
(* finds it only when it is alone.                                         *)
LEMMA Distributes == \A m, a, b \in Nat : m * (a + b) = m * a + m * b
OBVIOUS

(* Rounded shares: when each f[x] is k * g[x] / m rounded down, the sum of *)
(* the f[x] is at most, and less than one per element below, that of the   *)
(* exact shares.                                                           *)
LEMMA SumBounded ==
  ASSUME NEW S, IsFiniteSet(S), NEW f, Natural(f, S), NEW g, Natural(g, S),
         NEW m \in Nat, NEW k \in Nat,
         \A x \in S : m * f[x] <= k * g[x] /\ k * g[x] < m * (f[x] + 1)
  PROVE  /\ m * SumFunctionOnSet(f, S) <= k * SumFunctionOnSet(g, S)
         /\ S # {} => k * SumFunctionOnSet(g, S) < m * (SumFunctionOnSet(f, S) + Cardinality(S))
<1> DEFINE F(T) == SumFunctionOnSet(f, T)
           G(T) == SumFunctionOnSet(g, T)
           Good == {T \in SUBSET S :
                      /\ m * F(T) <= k * G(T)
                      /\ k * G(T) <= m * (F(T) + Cardinality(T))
                      /\ T # {} => k * G(T) < m * (F(T) + Cardinality(T))}
<1>0. \A T \in SUBSET S : /\ IsFiniteSet(T) /\ Cardinality(T) \in Nat
                          /\ F(T) \in Nat /\ G(T) \in Nat
  BY FS_Subset, FS_CardinalityType, SumNatural DEF Natural
<1>1. {} \in Good
  <2>1. F({}) = 0 /\ G({}) = 0 /\ Cardinality({}) = 0
    BY SumUnfold, FS_EmptySet
  <2> QED
    BY <2>1
<1>2. ASSUME NEW T \in SUBSET S, T # {}, \A x \in T : T \ {x} \in Good PROVE T \in Good
  <2>1. PICK x \in T : TRUE
    BY <1>2
  <2> DEFINE U == T \ {x}
  <2>2. F(T) = f[x] + F(U) /\ G(T) = g[x] + G(U) /\ Cardinality(T) = Cardinality(U) + 1
    <3>1. Natural(f, T) /\ Natural(g, T)
      BY DEF Natural
    <3>2. F(T) = f[x] + F(U)
      BY <1>0, <2>1, <3>1, SumRemove
    <3>3. G(T) = g[x] + G(U)
      BY <1>0, <2>1, <3>1, SumRemove
    <3>4. Cardinality(U) = Cardinality(T) - 1
      BY <1>0, <2>1, FS_RemoveElement
    <3> QED
      BY <1>0, <3>2, <3>3, <3>4
  <2>3. /\ m * f[x] <= k * g[x] /\ k * g[x] < m * (f[x] + 1)
        /\ m * F(U) <= k * G(U) /\ k * G(U) <= m * (F(U) + Cardinality(U))
    BY <1>2, <2>1
  <2>4. /\ f[x] \in Nat /\ g[x] \in Nat /\ F(U) \in Nat /\ G(U) \in Nat
        /\ Cardinality(U) \in Nat
    BY <1>0, <2>1 DEF Natural
  <2>5. /\ m * (f[x] + F(U)) = m * f[x] + m * F(U)
        /\ k * (g[x] + G(U)) = k * g[x] + k * G(U)
        /\ m * ((f[x] + F(U)) + (Cardinality(U) + 1))
              = m * (f[x] + 1) + m * (F(U) + Cardinality(U))
    <3>1. ((f[x] + F(U)) + (Cardinality(U) + 1)) = (f[x] + 1) + (F(U) + Cardinality(U))
      BY <2>4
    <3>2. f[x] + 1 \in Nat /\ F(U) + Cardinality(U) \in Nat
      BY <2>4
    <3> HIDE DEF F, G, U
    <3> QED
      BY <2>4, <3>1, <3>2, Distributes
  <2>6. /\ m * f[x] \in Nat /\ k * g[x] \in Nat /\ m * F(U) \in Nat /\ k * G(U) \in Nat
        /\ m * (f[x] + 1) \in Nat /\ m * (F(U) + Cardinality(U)) \in Nat
    BY <2>4
  <2>7. m * F(T) <= k * G(T) /\ k * G(T) < m * (F(T) + Cardinality(T))
    <3> HIDE DEF F, G, U
    <3> QED
      BY <2>2, <2>3, <2>5, <2>6
  <2>8. k * G(T) \in Nat /\ m * (F(T) + Cardinality(T)) \in Nat
    BY <1>0
  <2> QED
    BY <2>7, <2>8
<1>3. Good = SUBSET S
  <2>1. Good \in SUBSET (SUBSET S)
    OBVIOUS
  <2> HIDE DEF Good
  <2> QED
    BY <1>1, <1>2, <2>1, SubsetInduction
<1> QED
  BY <1>3
=============================================================================

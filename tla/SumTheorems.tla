----------------------------- MODULE SumTheorems -----------------------------
(***************************************************************************)
(* Facts about SumFunction over a finite set, which is how the models add  *)
(* up capital and contracts: RiskStateManager and BudgetReservationService *)
(* reduce over the reservations, the reconciliation over the positions,    *)
(* the reading of a pair's orders over the order rows.                     *)
(*                                                                         *)
(* The sum is a recursive function, so everything here is an induction.    *)
(* The library's induction theorems speak of an operator; FiniteInduction  *)
(* and NatInductionOnSets speak of a set instead, the set of arguments for *)
(* which the fact holds, and follow from the existence of minimal elements *)
(* of a well-founded relation.                                             *)
(*                                                                         *)
(* Then the least and the greatest element of a set of numbers, and the    *)
(* size of the image of a finite set, which the shortlists, the searches   *)
(* and the walk of an order book come back to.                             *)
(*                                                                         *)
(* Last, functions that at each place of an interval stop or go on, and    *)
(* the places a stable sort gives: what the searches and sorts of the data *)
(* of the past come to.                                                    *)
(***************************************************************************)
EXTENDS Integers, FiniteSets, Functions, FiniteSetsExt, FiniteSetTheorems, TLAPS

LEMMA NatInductionOnSets ==
    ASSUME NEW H, 0 \in H, \A n \in Nat : n \in H => n + 1 \in H
    PROVE  \A n \in Nat : n \in H
<1> SUFFICES ASSUME NEW n \in Nat, n \notin H PROVE FALSE
  OBVIOUS
<1> DEFINE Missing == {k \in Nat : k \notin H}
<1>1. \E k \in Missing : \A j \in Missing : ~ (<<j, k>> \in OpToRel(<, Nat))
  <2>1. Missing \subseteq Nat /\ Missing # {}
    OBVIOUS
  <2> HIDE DEF Missing
  <2> QED BY <2>1, NatLessThanWellFounded, WFMin
<1>2. PICK k \in Missing : \A j \in Nat : j < k => j \in H
  BY <1>1 DEF OpToRel
<1>3. k # 0 /\ k - 1 \in Nat
  BY <1>2
<1>4. k - 1 \in H
  BY <1>2, <1>3
<1> QED BY <1>2, <1>3, <1>4

(* A property of finite sets that the empty set has, and a set with one    *)
(* element more whenever the set has it, holds of every finite set.        *)
LEMMA FiniteInduction ==
    ASSUME NEW D, IsFiniteSet(D), NEW H,
           {} \in H,
           \A T \in SUBSET D : \A x \in T : T \ {x} \in H => T \in H
    PROVE  \A T \in SUBSET D : T \in H
<1> SUFFICES ASSUME NEW T \in SUBSET D, T \notin H PROVE FALSE
  OBVIOUS
<1> DEFINE Missing == {S \in SUBSET D : S \notin H}
<1>1. FiniteSubsetsOf(D) = SUBSET D
  BY FS_FiniteSubsetsOfFinite
<1>2. IsWellFoundedOn(StrictSubsetOrdering(D), SUBSET D)
  BY <1>1, FS_StrictSubsetOrderingWellFounded
<1>3. PICK S \in Missing : \A R \in Missing : ~ (<<R, S>> \in StrictSubsetOrdering(D))
  <2>1. Missing \subseteq SUBSET D /\ Missing # {}
    OBVIOUS
  <2> HIDE DEF Missing
  <2> QED BY <1>2, <2>1, WFMin
<1>4. S # {}
  BY <1>3
<1>5. PICK x \in S : TRUE
  BY <1>4
<1>6. S \ {x} \in H
  <2>1. S \ {x} \in SUBSET D /\ S \ {x} # S
    BY <1>3, <1>5
  <2>2. <<S \ {x}, S>> \in StrictSubsetOrdering(D)
    BY <1>3, <2>1 DEF StrictSubsetOrdering
  <2> QED BY <1>3, <2>1, <2>2
<1> QED BY <1>3, <1>5, <1>6

-----------------------------------------------------------------------------
(* The recursion behind SumFunction. *)

Chosen(s) == CHOOSE x \in s : TRUE
SumStep(f, g, s) == IF s = {} THEN 0 ELSE f[Chosen(s)] + g[s \ {Chosen(s)}]
PartialSums(f, D) == CHOOSE g : g = [s \in SUBSET D |-> SumStep(f, g, s)]

LEMMA SumByRecursion ==
    ASSUME NEW f PROVE SumFunction(f) = PartialSums(f, DOMAIN f)[DOMAIN f]
BY DEF SumFunction, SumFunctionOnSet, FoldFunctionOnSet, MapThenFoldSet, PartialSums, SumStep, Chosen

LEMMA ChosenIn == ASSUME NEW s, s # {} PROVE Chosen(s) \in s
BY DEF Chosen

(* The recursion is well defined, by induction on the size of the set.     *)
LEMMA PartialSumsExist ==
    ASSUME NEW D, IsFiniteSet(D), NEW f
    PROVE  PartialSums(f, D) = [s \in SUBSET D |-> SumStep(f, PartialSums(f, D), s)]
<1> DEFINE Small(n) == {s \in SUBSET D : Cardinality(s) <= n}
           H == {n \in Nat : \E g : g = [s \in Small(n) |-> SumStep(f, g, s)]}
<1>1. \A s \in SUBSET D : IsFiniteSet(s) /\ Cardinality(s) \in Nat /\ Cardinality(s) <= Cardinality(D)
  BY FS_Subset, FS_CardinalityType
<1>2. \A s \in SUBSET D : s # {} => /\ Chosen(s) \in s
                                    /\ Cardinality(s \ {Chosen(s)}) = Cardinality(s) - 1
  BY <1>1, ChosenIn, FS_RemoveElement
<1>3. 0 \in H
  <2>1. \A s \in Small(0) : s = {}
    BY <1>1, FS_EmptySet
  <2>2. [s \in Small(0) |-> 0] = [s \in Small(0) |-> SumStep(f, [r \in Small(0) |-> 0], s)]
    BY <2>1 DEF SumStep
  <2> QED BY <2>2
<1>4. ASSUME NEW n \in Nat, n \in H PROVE n + 1 \in H
  <2>1. PICK g : g = [s \in Small(n) |-> SumStep(f, g, s)]
    BY <1>4
  <2> DEFINE h == [s \in Small(n + 1) |-> SumStep(f, g, s)]
  <2>2. \A s \in Small(n + 1) : s # {} => s \ {Chosen(s)} \in Small(n)
    BY <1>1, <1>2
  <2>3. \A s \in Small(n) : s \in Small(n + 1)
    BY <1>1
  <2>4. \A s \in Small(n) : h[s] = g[s]
    BY <2>1, <2>3
  <2>5. \A s \in Small(n + 1) : SumStep(f, g, s) = SumStep(f, h, s)
    <3> HIDE DEF h, Small
    <3> QED BY <2>2, <2>4 DEF SumStep
  <2>6. h = [s \in Small(n + 1) |-> SumStep(f, h, s)]
    <3>1. h = [s \in Small(n + 1) |-> SumStep(f, g, s)]
      OBVIOUS
    <3> HIDE DEF h, Small
    <3> QED BY <2>5, <3>1
  <2> HIDE DEF h
  <2> QED BY <2>6
<1>5. \A n \in Nat : n \in H
  <2> HIDE DEF H
  <2> QED BY <1>3, <1>4, NatInductionOnSets
<1>6. Cardinality(D) \in Nat /\ Small(Cardinality(D)) = SUBSET D
  BY <1>1
<1>7. \E g : g = [s \in SUBSET D |-> SumStep(f, g, s)]
  BY <1>5, <1>6
<1> QED BY <1>7 DEF PartialSums

LEMMA PartialSumsUnfold ==
    ASSUME NEW D, IsFiniteSet(D), NEW f \in [D -> Int]
    PROVE  /\ PartialSums(f, D)[{}] = 0
           /\ \A s \in SUBSET D : s # {} =>
                PartialSums(f, D)[s] = f[Chosen(s)] + PartialSums(f, D)[s \ {Chosen(s)}]
           /\ PartialSums(f, D) \in [SUBSET D -> Int]
<1> DEFINE g == PartialSums(f, D)
           H == {s \in SUBSET D : g[s] \in Int}
<1>1. g = [s \in SUBSET D |-> SumStep(f, g, s)]
  BY PartialSumsExist
<1> HIDE DEF g
<1>2. g[{}] = 0
  BY <1>1 DEF SumStep
<1>3. \A s \in SUBSET D : s # {} => g[s] = f[Chosen(s)] + g[s \ {Chosen(s)}] /\ Chosen(s) \in s
  BY <1>1, ChosenIn DEF SumStep
<1>4. \A s \in SUBSET D : g[s] \in Int
  <2> SUFFICES ASSUME NEW s \in SUBSET D, g[s] \notin Int PROVE FALSE
    OBVIOUS
  <2> DEFINE Missing == {t \in SUBSET D : g[t] \notin Int}
  <2>1. PICK t \in Missing : \A r \in Missing : ~ (<<r, t>> \in StrictSubsetOrdering(D))
    <3>1. IsWellFoundedOn(StrictSubsetOrdering(D), SUBSET D)
      BY FS_FiniteSubsetsOfFinite, FS_StrictSubsetOrderingWellFounded, ZenonT(60)
    <3>2. Missing \subseteq SUBSET D /\ Missing # {}
      OBVIOUS
    <3> HIDE DEF Missing
    <3> QED BY <3>1, <3>2, WFMin
  <2>2. t \in SUBSET D /\ g[t] \notin Int
    BY <2>1
  <2>3. t # {}
    BY <1>2, <2>2
  <2>4. Chosen(t) \in t /\ g[t] = f[Chosen(t)] + g[t \ {Chosen(t)}]
    BY <1>3, <2>2, <2>3
  <2>5. <<t \ {Chosen(t)}, t>> \in StrictSubsetOrdering(D) /\ t \ {Chosen(t)} \in SUBSET D
    BY <2>2, <2>4 DEF StrictSubsetOrdering
  <2>6. g[t \ {Chosen(t)}] \in Int
    BY <2>1, <2>5
  <2>7. f[Chosen(t)] \in Int
    BY <2>2, <2>4
  <2> QED BY <2>2, <2>4, <2>6, <2>7
<1>5. g \in [SUBSET D -> Int]
  BY <1>1, <1>4
<1> QED BY <1>2, <1>3, <1>5 DEF g

(* Any element may be taken out first, not only the one the fold chooses.  *)
LEMMA PartialSumsRemove ==
    ASSUME NEW D, IsFiniteSet(D), NEW f \in [D -> Int]
    PROVE  \A s \in SUBSET D : \A x \in s :
              PartialSums(f, D)[s] = f[x] + PartialSums(f, D)[s \ {x}]
<1> DEFINE g == PartialSums(f, D)
           Good(s) == \A x \in s : g[s] = f[x] + g[s \ {x}]
           Missing == {s \in SUBSET D : ~Good(s)}
<1>1. /\ g \in [SUBSET D -> Int]
      /\ \A s \in SUBSET D : s # {} => g[s] = f[Chosen(s)] + g[s \ {Chosen(s)}] /\ Chosen(s) \in s
  BY PartialSumsUnfold, ChosenIn
<1> HIDE DEF g
<1> SUFFICES ASSUME Missing # {} PROVE FALSE
  BY DEF g
<1>2. PICK s \in Missing : \A r \in Missing : ~ (<<r, s>> \in StrictSubsetOrdering(D))
  <2>1. IsWellFoundedOn(StrictSubsetOrdering(D), SUBSET D)
    BY FS_FiniteSubsetsOfFinite, FS_StrictSubsetOrderingWellFounded
  <2>2. Missing \subseteq SUBSET D
    OBVIOUS
  <2> HIDE DEF Missing
  <2> QED BY <2>1, <2>2, WFMin
<1>3. ASSUME NEW y \in s PROVE Good(s \ {y})
  <2>1. <<s \ {y}, s>> \in StrictSubsetOrdering(D) /\ s \ {y} \in SUBSET D
    BY <1>2, <1>3 DEF StrictSubsetOrdering
  <2>2. s \ {y} \notin Missing
    BY <1>2, <2>1
  <2> HIDE DEF Good
  <2> QED BY <2>1, <2>2
<1>4. ASSUME NEW x \in s PROVE g[s] = f[x] + g[s \ {x}]
  <2> DEFINE c == Chosen(s)
  <2>1. c \in s /\ g[s] = f[c] + g[s \ {c}]
    BY <1>1, <1>2, <1>4
  <2>2. CASE x = c
    BY <2>1, <2>2
  <2>3. CASE x # c
    <3>1. g[s \ {c}] = f[x] + g[(s \ {c}) \ {x}]
      BY <1>3, <1>4, <2>1, <2>3
    <3>2. g[s \ {x}] = f[c] + g[(s \ {x}) \ {c}]
      BY <1>3, <1>4, <2>1, <2>3
    <3>3. (s \ {c}) \ {x} = (s \ {x}) \ {c} /\ (s \ {c}) \ {x} \in SUBSET D
      BY <1>2
    <3>4. f[x] \in Int /\ f[c] \in Int /\ g[(s \ {c}) \ {x}] \in Int
      BY <1>1, <1>2, <1>4, <2>1, <3>3
    <3>5. g[s] = f[c] + (f[x] + g[(s \ {c}) \ {x}])
      BY <2>1, <3>1
    <3>6. f[x] + g[s \ {x}] = f[x] + (f[c] + g[(s \ {c}) \ {x}])
      BY <3>2, <3>3
    <3> HIDE DEF c
    <3> QED BY <3>4, <3>5, <3>6
  <2> QED BY <2>2, <2>3
<1> QED BY <1>2, <1>4

(* The sum over a part is the partial sum of the whole.                    *)
LEMMA PartialSumsRestrict ==
    ASSUME NEW D, IsFiniteSet(D), NEW f \in [D -> Int], NEW E \in SUBSET D
    PROVE  SumFunction([x \in E |-> f[x]]) = PartialSums(f, D)[E]
<1> DEFINE e == [x \in E |-> f[x]]
           H == {s \in SUBSET E : PartialSums(e, E)[s] = PartialSums(f, D)[s]}
<1>1. IsFiniteSet(E) /\ e \in [E -> Int] /\ DOMAIN e = E
  BY FS_Subset
<1>2. {} \in H
  <2> HIDE DEF e
  <2>1. PartialSums(e, E)[{}] = 0 /\ PartialSums(f, D)[{}] = 0
    BY <1>1, PartialSumsUnfold
  <2> QED BY <2>1
<1>3. ASSUME NEW T \in SUBSET E, NEW x \in T, T \ {x} \in H PROVE T \in H
  <2>1. PartialSums(e, E)[T] = e[x] + PartialSums(e, E)[T \ {x}]
    <3> HIDE DEF e
    <3> QED BY <1>1, <1>3, PartialSumsRemove
  <2>2. T \in SUBSET D /\ PartialSums(f, D)[T] = f[x] + PartialSums(f, D)[T \ {x}]
    BY <1>3, PartialSumsRemove
  <2>3. e[x] = f[x] /\ PartialSums(e, E)[T \ {x}] = PartialSums(f, D)[T \ {x}]
    BY <1>3
  <2> QED BY <2>1, <2>2, <2>3
<1>4. E \in H
  <2> HIDE DEF H, e
  <2>1. \A T \in SUBSET E : T \in H
    BY <1>1, <1>2, <1>3, FiniteInduction
  <2> QED BY <2>1
<1>5. SumFunction(e) = PartialSums(e, E)[E]
  BY <1>1, SumByRecursion
<1> QED BY <1>4, <1>5

-----------------------------------------------------------------------------
(* What the models' proofs use. *)

LEMMA SumEmpty == ASSUME NEW f \in [{} -> Int] PROVE SumFunction(f) = 0
<1>1. IsFiniteSet({})
  BY FS_EmptySet
<1>2. SumFunction(f) = PartialSums(f, {})[{}]
  BY SumByRecursion
<1> QED BY <1>1, <1>2, PartialSumsUnfold

LEMMA SumInteger ==
    ASSUME NEW D, IsFiniteSet(D), NEW f \in [D -> Int]
    PROVE  SumFunction(f) \in Int
<1>1. DOMAIN f = D
  OBVIOUS
<1>2. PartialSums(f, D) \in [SUBSET D -> Int]
  BY PartialSumsUnfold
<1> QED BY <1>1, <1>2, SumByRecursion

LEMMA SumRemove ==
    ASSUME NEW D, IsFiniteSet(D), NEW f \in [D -> Int], NEW x \in D
    PROVE  SumFunction(f) = f[x] + SumFunction([y \in D \ {x} |-> f[y]])
<1>1. SumFunction(f) = PartialSums(f, D)[D]
  BY SumByRecursion
<1>2. PartialSums(f, D)[D] = f[x] + PartialSums(f, D)[D \ {x}]
  BY PartialSumsRemove
<1>3. SumFunction([y \in D \ {x} |-> f[y]]) = PartialSums(f, D)[D \ {x}]
  BY PartialSumsRestrict
<1> QED BY <1>1, <1>2, <1>3

(* Changing one summand changes the sum by as much.                        *)
LEMMA SumUpdate ==
    ASSUME NEW D, IsFiniteSet(D), NEW f \in [D -> Int], NEW g \in [D -> Int], NEW x \in D,
           \A y \in D \ {x} : g[y] = f[y]
    PROVE  SumFunction(g) = SumFunction(f) + g[x] - f[x]
<1>1. SumFunction(f) = f[x] + SumFunction([y \in D \ {x} |-> f[y]])
  BY SumRemove, ZenonT(60)
<1>2. SumFunction(g) = g[x] + SumFunction([y \in D \ {x} |-> g[y]])
  BY SumRemove, ZenonT(60)
<1> DEFINE others == [y \in D \ {x} |-> f[y]]
<1>3. [y \in D \ {x} |-> g[y]] = others
  OBVIOUS
<1>4. SumFunction(others) \in Int
  <2>1. IsFiniteSet(D \ {x}) /\ others \in [D \ {x} -> Int]
    BY FS_RemoveElement
  <2> HIDE DEF others
  <2> QED BY <2>1, SumInteger
<1>5. SumFunction(f) = f[x] + SumFunction(others)
  BY <1>1
<1>6. SumFunction(g) = g[x] + SumFunction(others)
  BY <1>2, <1>3
<1> HIDE DEF others
<1> QED BY <1>4, <1>5, <1>6

(* A sum of differences is the difference of the sums.                     *)
LEMMA SumDifference ==
    ASSUME NEW D, IsFiniteSet(D), NEW f \in [D -> Int], NEW g \in [D -> Int], NEW h \in [D -> Int],
           \A x \in D : f[x] = g[x] - h[x]
    PROVE  SumFunction(f) = SumFunction(g) - SumFunction(h)
<1> DEFINE Sum(e, T) == PartialSums(e, D)[T]
           H == {T \in SUBSET D : Sum(f, T) = Sum(g, T) - Sum(h, T)}
<1>1. \A e \in [D -> Int] : Sum(e, {}) = 0 /\ \A T \in SUBSET D : Sum(e, T) \in Int
  <2> SUFFICES ASSUME NEW e \in [D -> Int]
               PROVE  Sum(e, {}) = 0 /\ \A T \in SUBSET D : Sum(e, T) \in Int
    OBVIOUS
  <2>1. PartialSums(e, D) \in [SUBSET D -> Int] /\ PartialSums(e, D)[{}] = 0
    BY PartialSumsUnfold
  <2> QED BY <2>1
<1>2. {} \in H
  <2>1. Sum(f, {}) = 0 /\ Sum(g, {}) = 0 /\ Sum(h, {}) = 0
    BY <1>1
  <2> HIDE DEF Sum
  <2> QED BY <2>1
<1>3. ASSUME NEW T \in SUBSET D, NEW x \in T, T \ {x} \in H PROVE T \in H
  <2>1. Sum(f, T) = f[x] + Sum(f, T \ {x})
    BY PartialSumsRemove
  <2>2. Sum(g, T) = g[x] + Sum(g, T \ {x})
    BY PartialSumsRemove
  <2>3. Sum(h, T) = h[x] + Sum(h, T \ {x})
    BY PartialSumsRemove
  <2>4. f[x] = g[x] - h[x] /\ g[x] \in Int /\ h[x] \in Int
    OBVIOUS
  <2>5. Sum(f, T \ {x}) = Sum(g, T \ {x}) - Sum(h, T \ {x})
    BY <1>3
  <2>6. Sum(g, T \ {x}) \in Int /\ Sum(h, T \ {x}) \in Int
    BY <1>1
  <2> HIDE DEF Sum
  <2>7. Sum(f, T) = Sum(g, T) - Sum(h, T)
    BY <2>1, <2>2, <2>3, <2>4, <2>5, <2>6
  <2> QED BY <2>7
<1>4. D \in H
  <2> HIDE DEF H
  <2>1. \A T \in SUBSET D : T \in H
    BY <1>2, <1>3, FiniteInduction
  <2> QED BY <2>1
<1>5. SumFunction(f) = Sum(f, D)
  BY SumByRecursion
<1>6. SumFunction(g) = Sum(g, D)
  BY SumByRecursion
<1>7. SumFunction(h) = Sum(h, D)
  BY SumByRecursion
<1> HIDE DEF Sum
<1> QED BY <1>4, <1>5, <1>6, <1>7

(* Leaving out summands that are not negative does not add to the sum, nor *)
(* does making some of them smaller.                                       *)
LEMMA SumMonotone ==
    ASSUME NEW D, IsFiniteSet(D), NEW f \in [D -> Int], NEW E \in SUBSET D, NEW g \in [E -> Int],
           \A x \in E : g[x] <= f[x], \A x \in D \ E : 0 <= f[x]
    PROVE  SumFunction(g) <= SumFunction(f)
<1> DEFINE Part(T) == [x \in T |-> f[x]]
           Kept(T) == [x \in T \cap E |-> g[x]]
           H == {T \in SUBSET D : SumFunction(Kept(T)) <= SumFunction(Part(T))}
<1>1. \A T \in SUBSET D : /\ IsFiniteSet(T) /\ IsFiniteSet(T \cap E)
                          /\ Part(T) \in [T -> Int] /\ Kept(T) \in [T \cap E -> Int]
  BY FS_Subset
<1>2. \A T \in SUBSET D : SumFunction(Part(T)) \in Int /\ SumFunction(Kept(T)) \in Int
  BY <1>1, SumInteger
<1>3. {} \in H
  <2>1. Part({}) \in [{} -> Int] /\ Kept({}) \in [{} -> Int]
    OBVIOUS
  <2>2. SumFunction(Part({})) = 0 /\ SumFunction(Kept({})) = 0
    <3> HIDE DEF Part, Kept
    <3> QED BY <2>1, SumEmpty
  <2> QED BY <2>2
<1>4. ASSUME NEW T \in SUBSET D, NEW x \in T, T \ {x} \in H PROVE T \in H
  <2>1. SumFunction(Part(T)) = f[x] + SumFunction(Part(T \ {x}))
    <3>1. [y \in T \ {x} |-> Part(T)[y]] = Part(T \ {x}) /\ Part(T)[x] = f[x]
      OBVIOUS
    <3>2. IsFiniteSet(T) /\ Part(T) \in [T -> Int]
      BY <1>1
    <3> HIDE DEF Part
    <3>3. SumFunction(Part(T)) = Part(T)[x] + SumFunction([y \in T \ {x} |-> Part(T)[y]])
      BY <3>2, SumRemove
    <3> QED BY <3>1, <3>3
  <2>2. f[x] \in Int
    OBVIOUS
  <2>3. CASE x \in E
    <3>1. SumFunction(Kept(T)) = g[x] + SumFunction(Kept(T \ {x}))
      <4>1. [y \in (T \cap E) \ {x} |-> Kept(T)[y]] = Kept(T \ {x}) /\ Kept(T)[x] = g[x]
        BY <2>3
      <4>2. IsFiniteSet(T \cap E) /\ Kept(T) \in [T \cap E -> Int] /\ x \in T \cap E
        BY <1>1, <2>3
      <4> HIDE DEF Kept
      <4>3. SumFunction(Kept(T)) = Kept(T)[x] + SumFunction([y \in (T \cap E) \ {x} |-> Kept(T)[y]])
        BY <4>2, SumRemove
      <4> QED BY <4>1, <4>3
    <3> HIDE DEF Kept, Part
    <3> QED BY <1>2, <1>4, <2>1, <2>2, <2>3, <3>1
  <2>4. CASE x \notin E
    <3>1. Kept(T) = Kept(T \ {x})
      <4>1. T \cap E = (T \ {x}) \cap E
        BY <2>4
      <4> QED BY <4>1
    <3> HIDE DEF Kept, Part
    <3> QED BY <1>2, <1>4, <2>1, <2>2, <2>4, <3>1
  <2> QED BY <2>3, <2>4
<1>5. D \in H
  <2> HIDE DEF H
  <2>1. \A T \in SUBSET D : T \in H
    BY <1>3, <1>4, FiniteInduction
  <2> QED BY <2>1
<1>6. Part(D) = f /\ Kept(D) = g
  OBVIOUS
<1> QED BY <1>5, <1>6

LEMMA SumNatural ==
    ASSUME NEW D, IsFiniteSet(D), NEW f \in [D -> Nat]
    PROVE  SumFunction(f) \in Nat
<1> DEFINE z == [x \in {} |-> f[x]]
<1>1. f \in [D -> Int] /\ z \in [{} -> Int]
  OBVIOUS
<1>2. \A x \in {} : z[x] <= f[x]
  OBVIOUS
<1>3. {} \in SUBSET D /\ \A x \in D \ {} : 0 <= f[x]
  OBVIOUS
<1> HIDE DEF z
<1>4. SumFunction(z) <= SumFunction(f)
  BY <1>1, <1>2, <1>3, SumMonotone
<1>5. SumFunction(z) = 0 /\ SumFunction(f) \in Int
  BY <1>1, SumEmpty, SumInteger
<1> QED BY <1>4, <1>5

(* One summand more.                                                       *)
LEMMA SumInsert ==
    ASSUME NEW D, IsFiniteSet(D), NEW x, x \notin D, NEW f \in [D \cup {x} -> Int]
    PROVE  SumFunction(f) = f[x] + SumFunction([y \in D |-> f[y]])
<1>1. IsFiniteSet(D \cup {x}) /\ (D \cup {x}) \ {x} = D
  BY FS_AddElement
<1> QED BY <1>1, SumRemove

(* Summands that are zero may be left out.                                 *)
LEMMA SumSupport ==
    ASSUME NEW D, IsFiniteSet(D), NEW f \in [D -> Int], NEW E \in SUBSET D,
           \A x \in D \ E : f[x] = 0
    PROVE  SumFunction([x \in E |-> f[x]]) = SumFunction(f)
<1> DEFINE Sum(T) == PartialSums(f, D)[T]
           H == {T \in SUBSET D : Sum(T \cap E) = Sum(T)}
<1>1. \A T \in SUBSET D : Sum(T) \in Int
  <2>1. PartialSums(f, D) \in [SUBSET D -> Int]
    BY PartialSumsUnfold
  <2> QED BY <2>1
<1>2. {} \in H
  <2>1. {} \cap E = {}
    OBVIOUS
  <2> HIDE DEF Sum
  <2> QED BY <2>1
<1>3. ASSUME NEW T \in SUBSET D, NEW x \in T, T \ {x} \in H PROVE T \in H
  <2>1. Sum(T) = f[x] + Sum(T \ {x})
    BY PartialSumsRemove
  <2>2. Sum((T \ {x}) \cap E) = Sum(T \ {x}) /\ Sum(T \ {x}) \in Int
    BY <1>1, <1>3
  <2>3. CASE x \in E
    <3>1. (T \cap E) \ {x} = (T \ {x}) \cap E /\ x \in T \cap E
      BY <2>3
    <3>2. Sum(T \cap E) = f[x] + Sum((T \cap E) \ {x})
      BY <3>1, PartialSumsRemove
    <3> HIDE DEF Sum
    <3> QED BY <2>1, <2>2, <3>1, <3>2
  <2>4. CASE x \notin E
    <3>1. T \cap E = (T \ {x}) \cap E /\ f[x] = 0
      BY <2>4
    <3>2. Sum(T \cap E) = Sum((T \ {x}) \cap E)
      BY <3>1
    <3>3. Sum(T) = Sum(T \ {x})
      <4> HIDE DEF Sum
      <4> QED BY <2>1, <2>2, <3>1
    <3> QED BY <2>2, <3>2, <3>3
  <2> QED BY <2>3, <2>4
<1>4. D \in H
  <2> HIDE DEF H
  <2>1. \A T \in SUBSET D : T \in H
    BY <1>2, <1>3, FiniteInduction
  <2> QED BY <2>1
<1>5. D \cap E = E /\ DOMAIN f = D
  OBVIOUS
<1>6. SumFunction([x \in E |-> f[x]]) = Sum(E)
  BY PartialSumsRestrict
<1> HIDE DEF Sum
<1>7. Sum(E) = Sum(D)
  BY <1>4, <1>5
<1>8. SumFunction(f) = Sum(D)
  BY <1>5, SumByRecursion DEF Sum
<1> QED BY <1>6, <1>7, <1>8

(* A sum of ones and zeros counts the ones.                                 *)
LEMMA SumOfOnes ==
    ASSUME NEW D, IsFiniteSet(D), NEW f \in [D -> Int], NEW S \in SUBSET D,
           \A x \in D : f[x] = (IF x \in S THEN 1 ELSE 0)
    PROVE  SumFunction(f) = Cardinality(S)
<1> DEFINE Part(T) == [x \in T |-> f[x]]
           H == {T \in SUBSET D : SumFunction(Part(T)) = Cardinality(T \cap S)}
<1>1. {} \in H
  <2>1. Part({}) \in [{} -> Int] /\ {} \cap S = {}
    OBVIOUS
  <2>2. SumFunction(Part({})) = 0
    BY <2>1, SumEmpty
  <2> QED BY <2>1, <2>2, FS_EmptySet
<1>2. ASSUME NEW T \in SUBSET D, NEW x \in T, T \ {x} \in H PROVE T \in H
  <2>1. IsFiniteSet(T) /\ IsFiniteSet(T \cap S) /\ Part(T) \in [T -> Int]
    BY FS_Subset
  <2>2. [y \in T \ {x} |-> Part(T)[y]] = Part(T \ {x}) /\ Part(T)[x] = f[x]
    OBVIOUS
  <2>3. SumFunction(Part(T)) = f[x] + Cardinality((T \ {x}) \cap S)
    <3> HIDE DEF Part
    <3>1. SumFunction(Part(T)) = Part(T)[x] + SumFunction([y \in T \ {x} |-> Part(T)[y]])
      BY <2>1, SumRemove
    <3> QED BY <1>2, <2>2, <3>1
  <2>4. CASE x \in S
    <3>1. (T \ {x}) \cap S = (T \cap S) \ {x} /\ x \in T \cap S
      BY <2>4
    <3>2. Cardinality((T \cap S) \ {x}) = Cardinality(T \cap S) - 1 /\ Cardinality(T \cap S) \in Nat
      BY <2>1, <3>1, FS_RemoveElement, FS_CardinalityType
    <3>3. Cardinality((T \ {x}) \cap S) = Cardinality(T \cap S) - 1 /\ f[x] = 1
      BY <2>4, <3>1, <3>2
    <3> HIDE DEF Part
    <3>4. SumFunction(Part(T)) = Cardinality(T \cap S)
      BY <2>3, <3>2, <3>3
    <3> QED BY <3>4
  <2>5. CASE x \notin S
    <3>1. (T \ {x}) \cap S = T \cap S /\ Cardinality(T \cap S) \in Nat
      BY <2>1, <2>5, FS_CardinalityType
    <3> QED BY <2>3, <2>5, <3>1
  <2> QED BY <2>4, <2>5
<1>3. D \in H
  <2> HIDE DEF H
  <2>1. \A T \in SUBSET D : T \in H
    BY <1>1, <1>2, FiniteInduction
  <2> QED BY <2>1
<1>4. Part(D) = f /\ D \cap S = S
  OBVIOUS
<1> QED BY <1>3, <1>4

LEMMA SumScaled ==
    ASSUME NEW D, IsFiniteSet(D), NEW f \in [D -> Int], NEW c \in Int, NEW g \in [D -> Int],
           \A x \in D : g[x] = c * f[x]
    PROVE  SumFunction(g) = c * SumFunction(f)
<1> DEFINE F(T) == PartialSums(f, D)[T]
           G(T) == PartialSums(g, D)[T]
           H == {T \in SUBSET D : G(T) = c * F(T)}
<1>1. F({}) = 0 /\ G({}) = 0 /\ PartialSums(f, D) \in [SUBSET D -> Int] /\ PartialSums(g, D) \in [SUBSET D -> Int]
  BY PartialSumsUnfold
<1>2. {} \in H
  BY <1>1
<1>3. ASSUME NEW T \in SUBSET D, NEW x \in T, T \ {x} \in H PROVE T \in H
  <2>1. F(T) = f[x] + F(T \ {x}) /\ G(T) = g[x] + G(T \ {x})
    <3>1. \A u \in SUBSET D : \A y \in u : PartialSums(f, D)[u] = f[y] + PartialSums(f, D)[u \ {y}]
      BY PartialSumsRemove
    <3>2. \A u \in SUBSET D : \A y \in u : PartialSums(g, D)[u] = g[y] + PartialSums(g, D)[u \ {y}]
      BY PartialSumsRemove
    <3> QED BY <3>1, <3>2
  <2>2. G(T \ {x}) = c * F(T \ {x}) /\ g[x] = c * f[x]
    BY <1>3
  <2>3. F(T \ {x}) \in Int /\ f[x] \in Int
    BY <1>1
  <2>4. c * (f[x] + F(T \ {x})) = c * f[x] + c * F(T \ {x})
    BY <2>3
  <2> HIDE DEF F, G
  <2>5. G(T) = c * F(T)
    BY <2>1, <2>2, <2>4
  <2> QED BY <2>5
<1>4. D \in H
  <2> HIDE DEF H
  <2> QED BY <1>2, <1>3, FiniteInduction, ZenonT(60)
<1>5. SumFunction(f) = F(D) /\ SumFunction(g) = G(D)
  <2>1. DOMAIN f = D /\ DOMAIN g = D
    OBVIOUS
  <2> QED BY <2>1, SumByRecursion
<1> QED BY <1>4, <1>5

LEMMA SumOfBoth ==
    ASSUME NEW D, IsFiniteSet(D), NEW f \in [D -> Int], NEW g \in [D -> Int], NEW h \in [D -> Int],
           \A x \in D : f[x] = g[x] + h[x]
    PROVE  SumFunction(f) = SumFunction(g) + SumFunction(h)
<1>1. \A x \in D : g[x] = f[x] - h[x]
  OBVIOUS
<1>2. SumFunction(g) = SumFunction(f) - SumFunction(h)
  BY <1>1, SumDifference
<1>3. SumFunction(f) \in Int /\ SumFunction(g) \in Int /\ SumFunction(h) \in Int
  BY SumInteger
<1> QED BY <1>2, <1>3

LEMMA SumOfFirst ==
    ASSUME NEW k \in Nat, NEW f \in [1..(k + 1) -> Int], NEW g, g = [y \in 1..k |-> f[y]]
    PROVE  SumFunction(f) = f[k + 1] + SumFunction(g)
<1> DEFINE D == 1..(k + 1)
           last == k + 1
<1>1. IsFiniteSet(D)
  BY FS_Interval
<1>2. last \in D /\ f \in [D -> Int] /\ D \ {last} = 1..k
  OBVIOUS
<1> HIDE DEF D, last
<1>3. SumFunction(f) = f[last] + SumFunction([y \in D \ {last} |-> f[y]])
  BY <1>1, <1>2, SumRemove, ZenonT(60)
<1>4. [y \in D \ {last} |-> f[y]] = g
  BY <1>2
<1> QED BY <1>3, <1>4 DEF last

LEMMA SumAboveZero ==
    ASSUME NEW D, IsFiniteSet(D), NEW f \in [D -> Int], \A x \in D : f[x] >= 0
    PROVE  SumFunction(f) >= 0
<1>1. f \in [D -> Nat]
  OBVIOUS
<1>2. SumFunction(f) \in Nat
  BY <1>1, SumNatural
<1> QED BY <1>2

-----------------------------------------------------------------------------
(* Largest, smallest and counted.                                           *)

LEMMA MinOfTwo ==
    ASSUME NEW a \in Nat, NEW b \in Nat
    PROVE  Min({a, b}) \in {a, b} /\ Min({a, b}) <= a /\ Min({a, b}) <= b
<1>1. \E x \in {a, b} : \A y \in {a, b} : x =< y
  OBVIOUS
<1> QED BY <1>1 DEF Min

(* A set of naturals has a least element. *)
LEMMA LeastOf ==
    ASSUME NEW S \in SUBSET Nat, S # {}
    PROVE  Min(S) \in S /\ \A y \in S : Min(S) <= y
<1>1. PICK k \in S : \A j \in Nat : j < k => j \notin S
  <2>1. \E k \in S : \A j \in S : ~ (<<j, k>> \in OpToRel(<, Nat))
    BY NatLessThanWellFounded, WFMin
  <2> QED BY <2>1 DEF OpToRel
<1>2. \A y \in S : k <= y
  <2>1. \A y \in S : ~ (y < k)
    BY <1>1
  <2>2. k \in Nat /\ \A y \in S : y \in Nat
    OBVIOUS
  <2> QED BY <2>1, <2>2
<1>3. \E x \in S : \A y \in S : x =< y
  BY <1>1, <1>2
<1> QED BY <1>3 DEF Min

LEMMA MaxOfSet ==
    ASSUME NEW n \in Nat, NEW S \in SUBSET (1 .. n), S # {}
    PROVE  Max(S) \in S /\ \A y \in S : Max(S) >= y
<1> DEFINE H == {k \in Nat : \A R \in SUBSET (1 .. k) : R # {} => \E x \in R : \A y \in R : x >= y}
<1>1. 0 \in H
  <2>1. \A R \in SUBSET (1 .. 0) : R = {}
    OBVIOUS
  <2> QED BY <2>1
<1>2. ASSUME NEW k \in Nat, k \in H PROVE k + 1 \in H
  <2> SUFFICES ASSUME NEW R \in SUBSET (1 .. k + 1), R # {} PROVE \E x \in R : \A y \in R : x >= y
    BY <1>2
  <2>1. CASE k + 1 \in R
    BY <2>1
  <2>2. CASE k + 1 \notin R
    <3>1. R \in SUBSET (1 .. k)
      BY <2>2
    <3> QED BY <1>2, <3>1
  <2> QED BY <2>1, <2>2
<1>3. n \in H
  <2> HIDE DEF H
  <2> QED BY <1>1, <1>2, NatInductionOnSets
<1>4. \E x \in S : \A y \in S : x >= y
  BY <1>3
<1> QED BY <1>4 DEF Max

(* A finite set of integers has a greatest element.                         *)
LEMMA MaxOfFinite ==
    ASSUME NEW S \in SUBSET Int, IsFiniteSet(S), S # {}
    PROVE  Max(S) \in S /\ \A y \in S : Max(S) >= y
<1> DEFINE H == {R \in SUBSET S : R = {} \/ \E x \in R : \A y \in R : x >= y}
<1>1. {} \in H
  OBVIOUS
<1>2. ASSUME NEW R \in SUBSET S, NEW x \in R, R \ {x} \in H PROVE R \in H
  <2>1. CASE R \ {x} = {}
    <3>1. \A y \in R : y = x
      BY <2>1
    <3> QED BY <3>1
  <2>2. CASE R \ {x} # {}
    <3>1. PICK z \in R \ {x} : \A y \in R \ {x} : z >= y
      BY <1>2, <2>2
    <3>2. CASE x >= z
      BY <3>1, <3>2
    <3>3. CASE ~ (x >= z)
      <4>1. z >= x
        BY <3>3
      <4> QED BY <3>1, <4>1
    <3> QED BY <3>2, <3>3
  <2> QED BY <2>1, <2>2
<1>3. S \in H
  <2> HIDE DEF H
  <2>1. \A R \in SUBSET S : R \in H
    BY <1>1, <1>2, FiniteInduction
  <2> QED BY <2>1
<1>4. \E x \in S : \A y \in S : x >= y
  BY <1>3
<1> QED BY <1>4 DEF Max

LEMMA MaxOfTwo ==
    ASSUME NEW a \in Int, NEW b \in Int
    PROVE  Max({a, b}) \in Int /\ Max({a, b}) >= a /\ Max({a, b}) >= b /\ Max({a, b}) \in {a, b}
<1>1. \E x \in {a, b} : \A y \in {a, b} : x >= y
  OBVIOUS
<1> QED BY <1>1 DEF Max

LEMMA ImageFinite ==
    ASSUME NEW D, IsFiniteSet(D), NEW f PROVE IsFiniteSet({f[x] : x \in D})
<1> DEFINE T == {f[x] : x \in D}
           g == [x \in D |-> f[x]]
<1>1. g \in Surjection(D, T)
  BY DEF Surjection
<1> HIDE DEF T, g
<1>2. IsFiniteSet(T)
  BY <1>1, FS_Surjection
<1> QED BY <1>2 DEF T

(* As many as there were, where each has one of its own.                    *)
LEMMA ImageCounted ==
    ASSUME NEW D, IsFiniteSet(D), NEW f, \A x, y \in D : f[x] = f[y] => x = y
    PROVE  IsFiniteSet({f[x] : x \in D}) /\ Cardinality({f[x] : x \in D}) = Cardinality(D)
<1> DEFINE T == {f[x] : x \in D}
           g == [x \in D |-> f[x]]
<1>1. g \in Surjection(D, T) /\ g \in Injection(D, T)
  BY DEF Surjection, Injection, IsInjective
<1> HIDE DEF T, g
<1>2. g \in Bijection(D, T)
  BY <1>1 DEF Bijection
<1>3. ExistsBijection(D, T)
  BY <1>2 DEF ExistsBijection
<1>4. IsFiniteSet(T) /\ Cardinality(T) = Cardinality(D)
  BY <1>3, FS_Bijection
<1> QED BY <1>4 DEF T

(* The ceiling of a quotient.                                              *)
LEMMA Ceiling ==
    ASSUME NEW x \in Nat, NEW y \in Nat, NEW l \in Nat \ {0}, x < y
    PROVE  /\ x \div l \in Nat
           /\ (x \div l) * l <= x /\ x < (x \div l) * l + l
           /\ (x \div l) + 1 <= (y + l - 1) \div l
<1>1. x \div l \in Nat
  OBVIOUS
<1>2. (x \div l) * l <= x
  OBVIOUS
<1>3. x < (x \div l) * l + l
  OBVIOUS
<1>4. (x \div l) + 1 <= (y + l - 1) \div l
  OBVIOUS
<1> QED BY <1>1, <1>2, <1>3, <1>4

-----------------------------------------------------------------------------
(* A function on an interval that stops or goes on to a later place is      *)
(* there, and what holds where it stops and carries over from the place it  *)
(* goes on to holds everywhere.                                             *)
Onwards(lo, hi, stop) ==
    {next \in [lo..hi -> Int] : \A s \in lo..hi : s \notin stop => next[s] \in lo..hi /\ next[s] > s}
Downwards(lo, hi, S, stop, v, next) ==
    {f \in [lo..hi -> S] :
        \A s \in lo..hi : (s \in stop => f[s] = v[s]) /\ (s \notin stop => f[s] = f[next[s]])}

LEMMA RecursionDownward ==
    ASSUME NEW lo \in Int, NEW hi \in Int, NEW stop, NEW S, NEW v \in [lo..hi -> S],
           NEW next \in Onwards(lo, hi, stop)
    PROVE  Downwards(lo, hi, S, stop, v, next) # {}
<1>0. \A s \in lo..hi : s \notin stop => next[s] \in lo..hi /\ next[s] > s
  BY DEF Onwards
<1> DEFINE Step(f, s) == IF s \in stop THEN v[s] ELSE f[next[s]]
           H == {m \in Nat : \E f \in [lo..hi -> S] : \A s \in lo..hi : s > hi - m => f[s] = Step(f, s)}
<1>1. 0 \in H
  OBVIOUS
<1>2. ASSUME NEW m \in Nat, m \in H PROVE m + 1 \in H
  <2>1. PICK f \in [lo..hi -> S] : \A s \in lo..hi : s > hi - m => f[s] = Step(f, s)
    BY <1>2
  <2> PICK g : g = [s \in lo..hi |-> IF s = hi - m THEN Step(f, s) ELSE f[s]]
    OBVIOUS
  <2>0. g \in [lo..hi -> S]
    <3> SUFFICES ASSUME NEW s \in lo..hi PROVE Step(f, s) \in S
      OBVIOUS
    <3>1. v[s] \in S /\ (s \notin stop => next[s] \in lo..hi)
      BY <1>0
    <3> QED BY <3>1
  <2>2. ASSUME NEW s \in lo..hi, s > hi - (m + 1) PROVE g[s] = Step(g, s)
    <3>1. s >= hi - m
      BY <2>2
    <3>2. g[s] = Step(f, s)
      <4>1. CASE s = hi - m
        BY <4>1
      <4>2. CASE s # hi - m
        <5>1. s > hi - m
          BY <3>1, <4>2
        <5> QED BY <2>1, <4>2, <5>1
      <4> QED BY <4>1, <4>2
    <3>3. s \notin stop => g[next[s]] = f[next[s]]
      <4> SUFFICES ASSUME s \notin stop PROVE g[next[s]] = f[next[s]]
        OBVIOUS
      <4>1. next[s] \in lo..hi /\ next[s] > s
        BY <1>0
      <4>2. next[s] # hi - m
        BY <3>1, <4>1
      <4> QED BY <4>1, <4>2
    <3> QED BY <3>2, <3>3
  <2>3. \E e \in [lo..hi -> S] : \A s \in lo..hi : s > hi - (m + 1) => e[s] = Step(e, s)
    BY <2>0, <2>2
  <2>4. m + 1 \in Nat
    OBVIOUS
  <2> QED BY <2>3, <2>4, Zenon
<1>3. \A m \in Nat : m \in H
  <2> HIDE DEF H
  <2> QED BY <1>1, <1>2, NatInductionOnSets
<1>4. ASSUME lo <= hi PROVE \E f \in [lo..hi -> S] : \A s \in lo..hi : f[s] = Step(f, s)
  <2>1. hi - lo + 1 \in H
    <3> HIDE DEF H
    <3>1. hi - lo + 1 \in Nat
      BY <1>4
    <3> QED BY <1>3, <3>1
  <2>2. PICK f \in [lo..hi -> S] : \A s \in lo..hi : f[s] = Step(f, s)
    <3>1. \A s \in lo..hi : s > hi - (hi - lo + 1)
      OBVIOUS
    <3> QED BY <2>1, <3>1
  <2> QED BY <2>2
<1>5. ASSUME lo > hi PROVE \E f \in [lo..hi -> S] : \A s \in lo..hi : f[s] = Step(f, s)
  <2>1. lo..hi = {}
    BY <1>5
  <2> QED BY <2>1
<1>6. PICK f \in [lo..hi -> S] : \A s \in lo..hi : f[s] = Step(f, s)
  BY <1>4, <1>5
<1>7. f \in Downwards(lo, hi, S, stop, v, next)
  BY <1>6 DEF Downwards
<1> QED BY <1>7

LEMMA DownwardInduction ==
    ASSUME NEW lo \in Int, NEW hi \in Int, NEW stop, NEW next, NEW H,
           \A s \in lo..hi : s \notin stop => next[s] \in lo..hi /\ next[s] > s,
           \A s \in lo..hi : s \in stop => s \in H,
           \A s \in lo..hi : s \notin stop /\ next[s] \in H => s \in H
    PROVE  \A s \in lo..hi : s \in H
<1> DEFINE K == {m \in Nat : \A s \in lo..hi : s > hi - m => s \in H}
<1>1. 0 \in K
  OBVIOUS
<1>2. ASSUME NEW m \in Nat, m \in K PROVE m + 1 \in K
  <2> SUFFICES ASSUME NEW s \in lo..hi, s > hi - (m + 1) PROVE s \in H
    OBVIOUS
  <2>1. s >= hi - m
    OBVIOUS
  <2>2. ASSUME s \notin stop PROVE next[s] \in H
    <3>1. next[s] \in lo..hi /\ next[s] > hi - m
      BY <2>1, <2>2
    <3> QED BY <1>2, <3>1
  <2> QED BY <2>2
<1>3. \A m \in Nat : m \in K
  <2> HIDE DEF K
  <2> QED BY <1>1, <1>2, NatInductionOnSets
<1> SUFFICES ASSUME NEW s \in lo..hi PROVE s \in H
  OBVIOUS
<1>4. hi - s + 1 \in K
  BY <1>3
<1> QED BY <1>4

(* A function on 0..n that is given its first value and each from the one   *)
(* before.                                                                  *)
Upwards(n, S, a, step) ==
    {f \in [0..n -> S] : f[0] = a /\ \A i \in 1..n : f[i] = step[i][f[i - 1]]}

LEMMA RecursionUpward ==
    ASSUME NEW n \in Nat, NEW S, NEW a \in S, NEW step \in [1..n -> [S -> S]]
    PROVE  Upwards(n, S, a, step) # {}
<1> DEFINE Step(f, i) == IF i = 0 THEN a ELSE step[i][f[i - 1]]
           H == {m \in Nat : \E f \in [0..n -> S] : \A i \in 0..n : i <= m => f[i] = Step(f, i)}
<1>1. 0 \in H
  <2> PICK f : f = [i \in 0..n |-> a]
    OBVIOUS
  <2>1. f \in [0..n -> S] /\ \A i \in 0..n : i <= 0 => f[i] = Step(f, i)
    OBVIOUS
  <2> QED BY <2>1
<1>2. ASSUME NEW m \in Nat, m \in H PROVE m + 1 \in H
  <2>1. PICK f \in [0..n -> S] : \A i \in 0..n : i <= m => f[i] = Step(f, i)
    BY <1>2
  <2> PICK g : g = [i \in 0..n |-> IF i = m + 1 THEN Step(f, i) ELSE f[i]]
    OBVIOUS
  <2>2. g \in [0..n -> S]
    <3> SUFFICES ASSUME NEW i \in 0..n, i = m + 1 PROVE Step(f, i) \in S
      OBVIOUS
    <3>1. i \in 1..n /\ i - 1 \in 0..n
      OBVIOUS
    <3> QED BY <3>1
  <2>3. ASSUME NEW i \in 0..n, i <= m + 1 PROVE g[i] = Step(g, i)
    <3>1. g[i] = Step(f, i)
      <4>1. CASE i = m + 1
        BY <4>1
      <4>2. CASE i # m + 1
        <5>1. i <= m
          BY <2>3, <4>2
        <5> QED BY <2>1, <4>2, <5>1
      <4> QED BY <4>1, <4>2
    <3>2. i # 0 => g[i - 1] = f[i - 1]
      <4> SUFFICES ASSUME i # 0 PROVE g[i - 1] = f[i - 1]
        OBVIOUS
      <4>1. i - 1 \in 0..n /\ i - 1 # m + 1
        BY <2>3
      <4> QED BY <4>1
    <3> QED BY <3>1, <3>2
  <2>4. \E e \in [0..n -> S] : \A i \in 0..n : i <= m + 1 => e[i] = Step(e, i)
    BY <2>2, <2>3
  <2> QED BY <2>4
<1>3. n \in H
  <2> HIDE DEF H
  <2> QED BY <1>1, <1>2, NatInductionOnSets
<1>4. PICK f \in [0..n -> S] : \A i \in 0..n : f[i] = Step(f, i)
  BY <1>3
<1>5. f[0] = a /\ \A i \in 1..n : f[i] = step[i][f[i - 1]]
  <2>1. 0 \in 0..n /\ \A i \in 1..n : i \in 0..n /\ i # 0
    OBVIOUS
  <2> QED BY <1>4, <2>1, Zenon
<1>6. f \in Upwards(n, S, a, step)
  BY <1>5 DEF Upwards
<1> QED BY <1>6

-----------------------------------------------------------------------------
(* Ranks: places counted by the keys before, and by the order they came in  *)
(* where keys are equal.                                                    *)
LEMMA Ranked ==
    ASSUME NEW n \in Nat, NEW key \in [1..n -> Int], NEW place,
           \A i \in 1..n : place[i] =
               Cardinality({j \in 1..n : key[j] < key[i] \/ (key[j] = key[i] /\ j <= i)})
    PROVE  /\ \A k \in 1..n : \E i \in 1..n : place[i] = k
           /\ \A i, j \in 1..n : place[i] = place[j] => i = j
           /\ \A i \in 1..n : place[i] \in 1..n
           /\ \A i, j \in 1..n : place[i] < place[j] => key[i] <= key[j]
<1> DEFINE upTo(i) == {j \in 1..n : key[j] < key[i] \/ (key[j] = key[i] /\ j <= i)}
<1>0. IsFiniteSet(1..n) /\ Cardinality(1..n) = n
  <2>1. n = 0 => 1..n = {}
    OBVIOUS
  <2>2. n # 0 => Cardinality(1..n) = n - 1 + 1
    BY FS_Interval
  <2>3. Cardinality({}) = 0
    BY FS_EmptySet
  <2>4. IsFiniteSet(1..n)
    BY FS_Interval
  <2> QED BY <2>1, <2>2, <2>3, <2>4
<1>1. \A i \in 1..n : i \in upTo(i) /\ upTo(i) \in SUBSET (1..n) /\ place[i] = Cardinality(upTo(i))
  OBVIOUS
<1>2. \A i, j \in 1..n : i = j \/ (upTo(i) \subseteq upTo(j) /\ j \notin upTo(i) /\ key[i] <= key[j])
                              \/ (upTo(j) \subseteq upTo(i) /\ i \notin upTo(j) /\ key[j] <= key[i])
  <2> SUFFICES ASSUME NEW i \in 1..n, NEW j \in 1..n, key[i] < key[j] \/ (key[i] = key[j] /\ i < j)
               PROVE  upTo(i) \subseteq upTo(j) /\ j \notin upTo(i) /\ key[i] <= key[j]
    <3>1. \A i, j \in 1..n : i = j \/ (key[i] < key[j] \/ (key[i] = key[j] /\ i < j))
                                  \/ (key[j] < key[i] \/ (key[j] = key[i] /\ j < i))
      OBVIOUS
    <3> HIDE DEF upTo
    <3> QED BY <3>1
  <2>1. \A k \in 1..n : key[k] \in Int
    OBVIOUS
  <2> QED BY <2>1
<1> HIDE DEF upTo
<1>3. \A i \in 1..n : IsFiniteSet(upTo(i)) /\ Cardinality(upTo(i)) \in 1..n
  <2> SUFFICES ASSUME NEW i \in 1..n PROVE IsFiniteSet(upTo(i)) /\ Cardinality(upTo(i)) \in 1..n
    OBVIOUS
  <2>1. i \in upTo(i) /\ upTo(i) \subseteq 1..n
    BY <1>1
  <2>2. IsFiniteSet(upTo(i)) /\ Cardinality(upTo(i)) <= Cardinality(1..n)
    BY <1>0, <2>1, FS_Subset
  <2>3. Cardinality(upTo(i)) \in Nat
    BY <2>2, FS_CardinalityType
  <2>4. Cardinality(upTo(i)) # 0
    BY <2>1, <2>2, FS_EmptySet
  <2> QED BY <1>0, <2>2, <2>3, <2>4
<1>4. ASSUME NEW i \in 1..n, NEW j \in 1..n, upTo(i) \subseteq upTo(j), j \notin upTo(i)
      PROVE  place[i] < place[j]
  <2>1. upTo(i) # upTo(j)
    BY <1>1, <1>4
  <2>2. Cardinality(upTo(i)) <= Cardinality(upTo(j)) /\ Cardinality(upTo(i)) # Cardinality(upTo(j))
    BY <1>3, <1>4, <2>1, FS_Subset
  <2>3. place[i] = Cardinality(upTo(i)) /\ place[j] = Cardinality(upTo(j))
    BY <1>1
  <2>4. Cardinality(upTo(i)) \in Nat /\ Cardinality(upTo(j)) \in Nat
    BY <1>3
  <2> QED BY <2>2, <2>3, <2>4
<1>5. \A i \in 1..n : place[i] \in 1..n
  BY <1>1, <1>3
<1>6. \A i, j \in 1..n : i # j => \/ place[i] < place[j] /\ key[i] <= key[j]
                                  \/ place[j] < place[i] /\ key[j] <= key[i]
  BY <1>2, <1>4
<1>7. \A i, j \in 1..n : place[i] = place[j] => i = j
  BY <1>5, <1>6
<1>8. \A i, j \in 1..n : place[i] < place[j] => key[i] <= key[j]
  BY <1>5, <1>6
<1>9. {place[i] : i \in 1..n} = 1..n
  <2> DEFINE T == {place[i] : i \in 1..n}
  <2>1. T \subseteq 1..n
    BY <1>5
  <2>2. Cardinality(T) = Cardinality(1..n)
    <3>r. PICK rank : rank = [i \in 1..n |-> place[i]]
      OBVIOUS
    <3>d. PICK D : D = 1..n
      OBVIOUS
    <3>1. \A x, y \in D : rank[x] = rank[y] => x = y
      BY <1>7, <3>r, <3>d
    <3>2. IsFiniteSet(D)
      BY <1>0, <3>d
    <3>3. Cardinality({rank[x] : x \in D}) = Cardinality(D)
      BY <3>1, <3>2, ImageCounted
    <3>4. {rank[x] : x \in D} = T
      BY <3>r, <3>d
    <3> HIDE DEF T
    <3> QED BY <3>3, <3>4, <3>d
  <2> HIDE DEF T
  <2>3. T = 1..n
    BY <1>0, <2>1, <2>2, FS_Subset
  <2> QED BY <2>3 DEF T
<1>10. \A k \in 1..n : \E i \in 1..n : place[i] = k
  BY <1>9
<1> QED BY <1>5, <1>7, <1>8, <1>10
=============================================================================

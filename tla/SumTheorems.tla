----------------------------- MODULE SumTheorems -----------------------------
(***************************************************************************)
(* Facts about SumFunctionOnSet, the sum of the values f[i] for i in a      *)
(* finite set, which the ledgers of this project are stated with.           *)
(*                                                                         *)
(* Induction is first-order here: a property of the subsets of S is the set *)
(* of the subsets that have it, so an induction principle takes a set where *)
(* the library's takes an operator.                                         *)
(***************************************************************************)
EXTENDS Functions, FiniteSetTheorems, TLAPS

\* Induction over a finite set, for the set Good of the subsets that are good.
LEMMA SetInduction ==
    ASSUME NEW S, IsFiniteSet(S), NEW Good, {} \in Good,
           \A T \in SUBSET S, x \in S : T \in Good /\ x \notin T => T \cup {x} \in Good
    PROVE  S \in Good
<1> DEFINE Bad == {T \in FiniteSubsetsOf(S) : T \notin Good}
<1>0. FiniteSubsetsOf(S) = SUBSET S
  BY FS_FiniteSubsetsOfFinite
<1> SUFFICES ASSUME S \notin Good PROVE FALSE
  OBVIOUS
<1>1. S \in Bad
  BY <1>0
<1>2. PICK T \in Bad : \A U \in Bad : ~(<<U, T>> \in StrictSubsetOrdering(S))
  <2>1. IsWellFoundedOn(StrictSubsetOrdering(S), FiniteSubsetsOf(S))
    BY FS_StrictSubsetOrderingWellFounded
  <2> HIDE DEF Bad
  <2>2. Bad \subseteq FiniteSubsetsOf(S)
    BY DEF Bad
  <2> QED
    BY <1>1, <2>1, <2>2, WFMin
<1>3. PICK x \in T : TRUE
  OBVIOUS
<1>4. T \ {x} \in SUBSET S /\ x \in S
  BY <1>0
<1>5. <<T \ {x}, T>> \in StrictSubsetOrdering(S)
  BY <1>0, <1>3, <1>4 DEF StrictSubsetOrdering
<1>6. T \ {x} \in Good
  BY <1>0, <1>2, <1>4, <1>5
<1>7. (T \ {x}) \cup {x} = T
  BY <1>3
<1> QED
  BY <1>4, <1>6, <1>7

\* Induction over the naturals, for the set Good of the numbers that are good.
LEMMA NumberInduction ==
    ASSUME NEW Good, 0 \in Good, \A n \in Nat : n \in Good => n + 1 \in Good
    PROVE  \A n \in Nat : n \in Good
<1> SUFFICES ASSUME NEW n \in Nat PROVE n \in Good
  OBVIOUS
<1> DEFINE Sets == {T \in SUBSET (1..n) : Cardinality(T) \in Good}
<1>1. IsFiniteSet(1..n) /\ Cardinality(1..n) = n
  BY FS_Interval
<1>2. {} \in Sets
  BY FS_EmptySet
<1>3. ASSUME NEW T \in SUBSET (1..n), NEW x \in 1..n, T \in Sets, x \notin T
      PROVE  T \cup {x} \in Sets
  <2>1. IsFiniteSet(T)
    BY <1>1, FS_Subset
  <2>2. Cardinality(T) \in Nat /\ Cardinality(T \cup {x}) = Cardinality(T) + 1
    BY <1>3, <2>1, FS_AddElement, FS_CardinalityType
  <2> QED
    BY <1>3, <2>2
<1>4. 1..n \in Sets
  <2> HIDE DEF Sets
  <2> QED
    BY <1>1, <1>2, <1>3, SetInduction
<1> QED
  BY <1>1, <1>4

-----------------------------------------------------------------------------
(* The recursion behind SumFunctionOnSet.                                   *)

SomeOf(s) == CHOOSE x \in s : TRUE
SumStep(g, fun, s) == IF s = {} THEN 0 ELSE fun[SomeOf(s)] + g[s \ {SomeOf(s)}]
IsSum(g, fun, S) == g = [s \in SUBSET S |-> SumStep(g, fun, s)]

LEMMA SumIsChosen ==
    ASSUME NEW fun, NEW S
    PROVE  SumFunctionOnSet(fun, S) = (CHOOSE g : IsSum(g, fun, S))[S]
BY DEF SumFunctionOnSet, FoldFunctionOnSet, MapThenFoldSet, IsSum, SumStep, SomeOf

\* The recursion has a solution: below every cardinality, hence on all of S.
LEMMA SumExists ==
    ASSUME NEW fun, NEW S, IsFiniteSet(S)
    PROVE  \E g : IsSum(g, fun, S)
<1> DEFINE Upto(n) == {s \in SUBSET S : Cardinality(s) <= n}
           Solves(g, n) == DOMAIN g = SUBSET S /\ \A s \in Upto(n) : g[s] = SumStep(g, fun, s)
           Good == {n \in Nat : \E g : Solves(g, n)}
<1>0. \A s \in SUBSET S : IsFiniteSet(s) /\ Cardinality(s) \in Nat /\ Cardinality(s) <= Cardinality(S)
  BY FS_Subset, FS_CardinalityType
<1>1. 0 \in Good
  <2> DEFINE g == [s \in SUBSET S |-> 0]
  <2>1. \A s \in Upto(0) : s = {}
    BY <1>0, FS_EmptySet
  <2>2. Solves(g, 0)
    BY <2>1 DEF SumStep
  <2> QED
    BY <2>2
<1>2. ASSUME NEW n \in Nat, n \in Good PROVE n + 1 \in Good
  <2>1. PICK g : Solves(g, n)
    BY <1>2
  <2> DEFINE h == [s \in SUBSET S |-> SumStep(g, fun, s)]
  <2>2. \A s \in Upto(n) : h[s] = g[s]
    BY <2>1
  <2>3. ASSUME NEW s \in Upto(n + 1) PROVE h[s] = SumStep(h, fun, s)
    <3>1. CASE s = {}
      BY <3>1 DEF SumStep
    <3>2. CASE s # {}
      <4>1. SomeOf(s) \in s
        BY <3>2 DEF SomeOf
      <4>2. Cardinality(s \ {SomeOf(s)}) = Cardinality(s) - 1
        BY <1>0, <4>1, FS_RemoveElement
      <4>3. s \ {SomeOf(s)} \in Upto(n)
        BY <1>0, <4>2
      <4>4. h[s \ {SomeOf(s)}] = g[s \ {SomeOf(s)}]
        BY <2>2, <4>3
      <4> QED
        BY <3>2, <4>4 DEF SumStep
    <3> QED
      BY <3>1, <3>2
  <2>4. Solves(h, n + 1)
    BY <2>3
  <2> HIDE DEF h
  <2> QED
    BY <2>4
<1>3. Cardinality(S) \in Good
  <2> HIDE DEF Good
  <2> QED
    BY <1>0, <1>1, <1>2, NumberInduction
<1>4. PICK g : Solves(g, Cardinality(S))
  BY <1>3
<1>5. \A s \in SUBSET S : g[s] = SumStep(g, fun, s)
  BY <1>0, <1>4
<1>6. DEFINE h == [s \in SUBSET S |-> g[s]]
<1>7. h = [s \in SUBSET S |-> SumStep(h, fun, s)]
  <2>1. \A s \in SUBSET S : SumStep(h, fun, s) = SumStep(g, fun, s)
    BY DEF SumStep
  <2> QED
    BY <1>5, <2>1
<1> QED
  BY <1>7 DEF IsSum

\* Two solutions agree wherever both are defined.
LEMMA SumUnique ==
    ASSUME NEW fun, NEW S, IsFiniteSet(S), NEW T \in SUBSET S, NEW g, NEW h,
           IsSum(g, fun, S), IsSum(h, fun, T)
    PROVE  \A s \in SUBSET T : g[s] = h[s]
<1> DEFINE Good == {n \in Nat : \A s \in SUBSET T : Cardinality(s) <= n => g[s] = h[s]}
<1>0. \A s \in SUBSET T : IsFiniteSet(s) /\ Cardinality(s) \in Nat
  BY FS_Subset, FS_CardinalityType
<1>a. /\ \A s \in SUBSET T : g[s] = SumStep(g, fun, s)
      /\ \A s \in SUBSET T : h[s] = SumStep(h, fun, s)
  BY DEF IsSum
<1>1. 0 \in Good
  <2>1. \A s \in SUBSET T : Cardinality(s) <= 0 => s = {}
    BY <1>0, FS_EmptySet
  <2> QED
    BY <1>a, <2>1 DEF SumStep
<1>2. ASSUME NEW n \in Nat, n \in Good PROVE n + 1 \in Good
  <2> SUFFICES ASSUME NEW s \in SUBSET T, Cardinality(s) <= n + 1 PROVE g[s] = h[s]
    OBVIOUS
  <2>1. CASE s = {}
    BY <1>a, <2>1 DEF SumStep
  <2>2. CASE s # {}
    <3>1. SomeOf(s) \in s
      BY <2>2 DEF SomeOf
    <3>2. Cardinality(s \ {SomeOf(s)}) = Cardinality(s) - 1
      BY <1>0, <3>1, FS_RemoveElement
    <3>3. g[s \ {SomeOf(s)}] = h[s \ {SomeOf(s)}]
      BY <1>0, <1>2, <3>2
    <3> QED
      BY <1>a, <2>2, <3>3 DEF SumStep
  <2> QED
    BY <2>1, <2>2
<1>3. \A n \in Nat : n \in Good
  <2> HIDE DEF Good
  <2> QED
    BY <1>1, <1>2, NumberInduction
<1> QED
  BY <1>0, <1>3

LEMMA SumUnfold ==
    ASSUME NEW fun, NEW S, IsFiniteSet(S)
    PROVE  SumFunctionOnSet(fun, S) =
             IF S = {} THEN 0 ELSE fun[SomeOf(S)] + SumFunctionOnSet(fun, S \ {SomeOf(S)})
<1> DEFINE g == CHOOSE g : IsSum(g, fun, S)
           R == S \ {SomeOf(S)}
           h == CHOOSE h : IsSum(h, fun, R)
<1>1. IsSum(g, fun, S)
  BY SumExists
<1>2. IsFiniteSet(R)
  BY FS_RemoveElement
<1>3. IsSum(h, fun, R)
  BY <1>2, SumExists
<1>4. SumFunctionOnSet(fun, S) = g[S] /\ SumFunctionOnSet(fun, R) = h[R]
  BY SumIsChosen
<1> HIDE DEF g, h
<1>5. g[R] = h[R]
  BY <1>1, <1>3, SumUnique
<1>6. g[S] = SumStep(g, fun, S)
  BY <1>1 DEF IsSum
<1> QED
  BY <1>4, <1>5, <1>6 DEF SumStep

-----------------------------------------------------------------------------
(* What the other modules use.                                              *)

\* The sum over no index.
LEMMA SumEmpty == \A fun : SumFunctionOnSet(fun, {}) = 0
BY FS_EmptySet, SumUnfold

\* A sum of integers is an integer, and any of its terms can be taken out.
LEMMA SumPick ==
    ASSUME NEW fun, NEW S, IsFiniteSet(S), \A i \in S : fun[i] \in Int
    PROVE  /\ SumFunctionOnSet(fun, S) \in Int
           /\ \A i \in S : SumFunctionOnSet(fun, S) = fun[i] + SumFunctionOnSet(fun, S \ {i})
<1> DEFINE Sum(s) == SumFunctionOnSet(fun, s)
           Holds(s) == Sum(s) \in Int /\ \A i \in s : Sum(s) = fun[i] + Sum(s \ {i})
           Good == {n \in Nat : \A s \in SUBSET S : Cardinality(s) <= n => Holds(s)}
<1>0. \A s \in SUBSET S : IsFiniteSet(s) /\ Cardinality(s) \in Nat
  BY FS_Subset, FS_CardinalityType
<1>a. Sum({}) = 0
  BY SumEmpty
<1>b. \A s \in SUBSET S : s # {} => Sum(s) = fun[SomeOf(s)] + Sum(s \ {SomeOf(s)})
  BY <1>0, SumUnfold
<1> HIDE DEF Sum
<1>1. 0 \in Good
  <2>1. \A s \in SUBSET S : Cardinality(s) <= 0 => s = {}
    BY <1>0, FS_EmptySet
  <2>2. Holds({})
    BY <1>a
  <2> HIDE DEF Holds
  <2> QED
    BY <2>1, <2>2
<1>2. ASSUME NEW n \in Nat, n \in Good PROVE n + 1 \in Good
  <2> SUFFICES ASSUME NEW s \in SUBSET S, Cardinality(s) <= n + 1 PROVE Holds(s)
    OBVIOUS
  <2>0. \A t \in SUBSET s : t # s => Holds(t)
    <3> SUFFICES ASSUME NEW t \in SUBSET s, t # s PROVE Holds(t)
      OBVIOUS
    <3>1. Cardinality(t) <= Cardinality(s) /\ Cardinality(t) # Cardinality(s)
      BY <1>0, FS_Subset
    <3>2. t \in SUBSET S /\ Cardinality(t) <= n
      BY <1>0, <3>1
    <3> QED
      BY <1>2, <3>2
  <2>1. CASE s = {}
    BY <1>a, <2>1
  <2>2. CASE s # {}
    <3> DEFINE c == SomeOf(s)
    <3>1. c \in s
      BY <2>2 DEF SomeOf
    <3> HIDE DEF c
    <3>2. Sum(s) = fun[c] + Sum(s \ {c})
      BY <1>b, <2>2 DEF c
    <3>3. Sum(s) \in Int
      BY <2>0, <3>1, <3>2
    <3>4. ASSUME NEW i \in s, i # c PROVE Sum(s) = fun[i] + Sum(s \ {i})
      <4>1. Sum(s \ {c}) = fun[i] + Sum((s \ {c}) \ {i})
        BY <2>0, <3>1, <3>4
      <4>2. Sum(s \ {i}) = fun[c] + Sum((s \ {i}) \ {c})
        BY <2>0, <3>1, <3>4
      <4>3. (s \ {c}) \ {i} = (s \ {i}) \ {c}
        OBVIOUS
      <4>4. fun[i] \in Int /\ fun[c] \in Int /\ Sum(s \ {c}) \in Int /\ Sum(s \ {i}) \in Int
        BY <2>0, <3>1
      <4>5. Sum((s \ {i}) \ {c}) \in Int
        BY <2>0, <3>1
      <4>6. Sum(s \ {c}) = fun[i] + Sum((s \ {i}) \ {c})
        BY <4>1, <4>3
      <4> QED
        BY <3>2, <4>2, <4>4, <4>5, <4>6
    <3> QED
      BY <3>2, <3>3, <3>4
  <2> QED
    BY <2>1, <2>2
<1>3. \A n \in Nat : n \in Good
  <2> HIDE DEF Good
  <2> QED
    BY <1>1, <1>2, NumberInduction
<1>4. Holds(S)
  BY <1>0, <1>3
<1> QED
  BY <1>4 DEF Sum

\* One more index adds its value.
LEMMA SumAdd ==
    ASSUME NEW fun, NEW S, IsFiniteSet(S), NEW i, i \notin S, \A j \in S \cup {i} : fun[j] \in Int
    PROVE  SumFunctionOnSet(fun, S \cup {i}) = SumFunctionOnSet(fun, S) + fun[i]
<1>1. IsFiniteSet(S \cup {i}) /\ (S \cup {i}) \ {i} = S
  BY FS_AddElement
<1>2. SumFunctionOnSet(fun, S \cup {i}) = fun[i] + SumFunctionOnSet(fun, (S \cup {i}) \ {i})
  BY <1>1, SumPick
<1>3. SumFunctionOnSet(fun, S) \in Int /\ fun[i] \in Int
  BY SumPick
<1>4. SumFunctionOnSet(fun, S \cup {i}) = fun[i] + SumFunctionOnSet(fun, S)
  BY <1>1, <1>2
<1> QED
  BY <1>3, <1>4

\* A sum of integers is an integer.
LEMMA SumInt ==
    ASSUME NEW fun, NEW S, IsFiniteSet(S), \A i \in S : fun[i] \in Int
    PROVE  SumFunctionOnSet(fun, S) \in Int
BY SumPick

\* Functions that agree on the indices, of which the second may have its own, have one sum.
LEMMA SumSame ==
    ASSUME NEW fun, NEW gun, NEW S, IsFiniteSet(S),
           \A i \in S : fun[i] \in Int /\ gun[i] = fun[i]
    PROVE  SumFunctionOnSet(gun, S) = SumFunctionOnSet(fun, S)
<1> DEFINE Good == {s \in SUBSET S : SumFunctionOnSet(gun, s) = SumFunctionOnSet(fun, s)}
<1>1. {} \in Good
  BY SumEmpty
<1>2. ASSUME NEW T \in SUBSET S, NEW x \in S, T \in Good, x \notin T PROVE T \cup {x} \in Good
  <2>1. IsFiniteSet(T)
    BY FS_Subset
  <2>2. /\ SumFunctionOnSet(fun, T \cup {x}) = SumFunctionOnSet(fun, T) + fun[x]
        /\ SumFunctionOnSet(gun, T \cup {x}) = SumFunctionOnSet(gun, T) + gun[x]
    BY <1>2, <2>1, SumAdd
  <2> QED
    BY <1>2, <2>2
<1> HIDE DEF Good
<1>3. S \in Good
  BY <1>1, <1>2, SetInduction
<1> QED
  BY <1>3 DEF Good

\* A pointwise smaller function has a smaller sum.
LEMMA SumLeq ==
    ASSUME NEW fun, NEW gun, NEW S, IsFiniteSet(S),
           \A i \in S : fun[i] \in Int /\ gun[i] \in Int /\ fun[i] <= gun[i]
    PROVE  SumFunctionOnSet(fun, S) <= SumFunctionOnSet(gun, S)
<1> DEFINE Good == {s \in SUBSET S : SumFunctionOnSet(fun, s) <= SumFunctionOnSet(gun, s)}
<1>1. {} \in Good
  BY SumEmpty
<1>2. ASSUME NEW T \in SUBSET S, NEW x \in S, T \in Good, x \notin T PROVE T \cup {x} \in Good
  <2>1. IsFiniteSet(T)
    BY FS_Subset
  <2>2. /\ SumFunctionOnSet(fun, T \cup {x}) = SumFunctionOnSet(fun, T) + fun[x]
        /\ SumFunctionOnSet(gun, T \cup {x}) = SumFunctionOnSet(gun, T) + gun[x]
    BY <1>2, <2>1, SumAdd
  <2>3. SumFunctionOnSet(fun, T) \in Int /\ SumFunctionOnSet(gun, T) \in Int
    BY <1>2, <2>1, SumInt
  <2> QED
    BY <1>2, <2>2, <2>3
<1> HIDE DEF Good
<1>3. S \in Good
  BY <1>1, <1>2, SetInduction
<1> QED
  BY <1>3 DEF Good

\* The sum of natural numbers is one; more indices make it larger.
LEMMA SumNat ==
    ASSUME NEW fun, NEW S, IsFiniteSet(S), \A i \in S : fun[i] \in Nat
    PROVE  /\ SumFunctionOnSet(fun, S) \in Nat
           /\ \A T \in SUBSET S : SumFunctionOnSet(fun, T) <= SumFunctionOnSet(fun, S)
           /\ \A i \in S : fun[i] <= SumFunctionOnSet(fun, S)
<1>1. ASSUME NEW T \in SUBSET S
      PROVE  SumFunctionOnSet(fun, T) \in Nat /\ SumFunctionOnSet(fun, T) <= SumFunctionOnSet(fun, S)
  <2> DEFINE Good == {s \in SUBSET (S \ T) : /\ SumFunctionOnSet(fun, T \cup s) \in Int
                                             /\ SumFunctionOnSet(fun, T) <= SumFunctionOnSet(fun, T \cup s)}
             Nats == {s \in SUBSET T : SumFunctionOnSet(fun, s) \in Nat}
  <2>1. IsFiniteSet(T) /\ IsFiniteSet(S \ T)
    BY FS_Subset
  <2>2. {} \in Nats
    BY SumEmpty
  <2>3. ASSUME NEW s \in SUBSET T, NEW x \in T, s \in Nats, x \notin s PROVE s \cup {x} \in Nats
    <3>1. SumFunctionOnSet(fun, s \cup {x}) = SumFunctionOnSet(fun, s) + fun[x]
      BY <2>1, <2>3, FS_Subset, SumAdd
    <3> QED
      BY <2>3, <3>1
  <2>4. T \in Nats
    <3> HIDE DEF Nats
    <3> QED
      BY <2>1, <2>2, <2>3, SetInduction
  <2>5. {} \in Good
    BY <2>4
  <2>6. ASSUME NEW s \in SUBSET (S \ T), NEW x \in S \ T, s \in Good, x \notin s PROVE s \cup {x} \in Good
    <3>1. SumFunctionOnSet(fun, (T \cup s) \cup {x}) = SumFunctionOnSet(fun, T \cup s) + fun[x]
      <4>1. IsFiniteSet(T \cup s) /\ x \notin T \cup s
        BY <2>6, FS_Subset
      <4>2. \A j \in (T \cup s) \cup {x} : fun[j] \in Int
        BY <2>6
      <4> QED
        BY <4>1, <4>2, SumAdd
    <3>2. T \cup (s \cup {x}) = (T \cup s) \cup {x}
      OBVIOUS
    <3> QED
      BY <2>4, <2>6, <3>1, <3>2
  <2>7. S \ T \in Good
    <3> HIDE DEF Good
    <3> QED
      BY <2>1, <2>5, <2>6, SetInduction
  <2>8. T \cup (S \ T) = S
    OBVIOUS
  <2> QED
    BY <2>4, <2>7, <2>8
<1>2. ASSUME NEW i \in S PROVE fun[i] <= SumFunctionOnSet(fun, S)
  <2>1. S \ {i} \in SUBSET S
    OBVIOUS
  <2>2. SumFunctionOnSet(fun, S \ {i}) \in Nat
    BY <1>1, <2>1
  <2>3. SumFunctionOnSet(fun, S) = fun[i] + SumFunctionOnSet(fun, S \ {i})
    BY SumPick
  <2> QED
    BY <2>2, <2>3
<1>3. S \in SUBSET S
  OBVIOUS
<1> QED
  BY <1>1, <1>2, <1>3

\* The sum of the sums of two functions.
LEMMA SumPlus ==
    ASSUME NEW fun, NEW gun, NEW hun, NEW S, IsFiniteSet(S),
           \A i \in S : fun[i] \in Int /\ gun[i] \in Int /\ hun[i] = fun[i] + gun[i]
    PROVE  SumFunctionOnSet(hun, S) = SumFunctionOnSet(fun, S) + SumFunctionOnSet(gun, S)
<1> DEFINE Good == {s \in SUBSET S : SumFunctionOnSet(hun, s) = SumFunctionOnSet(fun, s) + SumFunctionOnSet(gun, s)}
<1>1. {} \in Good
  BY SumEmpty
<1>2. ASSUME NEW T \in SUBSET S, NEW x \in S, T \in Good, x \notin T PROVE T \cup {x} \in Good
  <2>1. IsFiniteSet(T)
    BY FS_Subset
  <2>2. /\ SumFunctionOnSet(fun, T \cup {x}) = SumFunctionOnSet(fun, T) + fun[x]
        /\ SumFunctionOnSet(gun, T \cup {x}) = SumFunctionOnSet(gun, T) + gun[x]
        /\ SumFunctionOnSet(hun, T \cup {x}) = SumFunctionOnSet(hun, T) + hun[x]
    BY <1>2, <2>1, SumAdd
  <2>3. SumFunctionOnSet(fun, T) \in Int /\ SumFunctionOnSet(gun, T) \in Int
    BY <1>2, <2>1, SumInt
  <2> QED
    BY <1>2, <2>2, <2>3
<1> HIDE DEF Good
<1>3. S \in Good
  BY <1>1, <1>2, SetInduction
<1> QED
  BY <1>3 DEF Good
=============================================================================

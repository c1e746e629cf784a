---------------------------- MODULE DataLemmas -----------------------------
(***************************************************************************)
(* Sums over a finite set (SumFunctionOnSet of the module Functions), which *)
(* stock, rate limits and figures are counted with, and what a sequence    *)
(* has in a set: induction over subsets and lengths, by a least            *)
(* counterexample.                                                         *)
(***************************************************************************)
EXTENDS Integers, Sequences, Functions, FiniteSetTheorems, WellFoundedInduction, TLAPS

-----------------------------------------------------------------------------
(* What SumFunctionOnSet computes *)

\* The sum over s, when g holds the sums over the smaller sets.
SumStep(f, g, s) ==
    IF s = {} THEN 0 ELSE f[CHOOSE x \in s : TRUE] + g[s \ {CHOOSE x \in s : TRUE}]

\* g holds the sums of f over all subsets of T.
Sums(f, g, T) == g = [s \in SUBSET T |-> SumStep(f, g, s)]

TheSums(f, T) == CHOOSE g : Sums(f, g, T)

LEMMA SumIsRecursive ==
    ASSUME NEW f, NEW T
    PROVE  SumFunctionOnSet(f, T) = TheSums(f, T)[T]
BY Zenon DEF SumFunctionOnSet, FoldFunctionOnSet, MapThenFoldSet, TheSums, Sums, SumStep

\* Among some subsets of a finite set one holds no other: induction over
\* finite sets, without an operator to instantiate.
LEMMA Smallest ==
    ASSUME NEW S, IsFiniteSet(S), NEW bad \in SUBSET (SUBSET S), bad # {}
    PROVE  \E T \in bad : \A U \in bad : ~(U \subseteq T /\ U # T)
<1>1. IsWellFoundedOn(StrictSubsetOrdering(S), FiniteSubsetsOf(S))
  BY FS_StrictSubsetOrderingWellFounded
<1>2. FiniteSubsetsOf(S) = SUBSET S
  BY FS_FiniteSubsetsOfFinite
<1>3. \E T \in bad : \A U \in bad : <<U, T>> \notin StrictSubsetOrdering(S)
  BY <1>1, <1>2, WFMin
<1> QED BY <1>3 DEF StrictSubsetOrdering

LEMMA SumsOnSubsets ==
    ASSUME NEW f, NEW S, NEW g, Sums(f, g, S), NEW T \in SUBSET S
    PROVE  Sums(f, [s \in SUBSET T |-> g[s]], T)
<1> DEFINE h == [s \in SUBSET T |-> g[s]]
<1>1. \A s \in SUBSET T : h[s] = SumStep(f, h, s)
  <2> SUFFICES ASSUME NEW s \in SUBSET T PROVE h[s] = SumStep(f, h, s)
    OBVIOUS
  <2>1. g[s] = SumStep(f, g, s)
    BY DEF Sums
  <2>2. \A x : s \ {x} \in SUBSET T
    OBVIOUS
  <2> QED BY <2>1, <2>2 DEF SumStep
<1>2. h = [s \in SUBSET T |-> SumStep(f, h, s)]
  BY <1>1
<1> QED BY <1>2 DEF Sums

LEMMA SumsAreUnique ==
    ASSUME NEW f, NEW S, IsFiniteSet(S), NEW g, NEW h, Sums(f, g, S), Sums(f, h, S)
    PROVE  g = h
<1> DEFINE bad == {s \in SUBSET S : g[s] # h[s]}
<1>1. CASE bad = {}
  BY <1>1 DEF Sums
<1>2. CASE bad # {}
  <2>1. PICK s \in bad : \A u \in bad : ~(u \subseteq s /\ u # s)
    <3>1. bad \in SUBSET (SUBSET S)
      OBVIOUS
    <3> HIDE DEF bad
    <3> QED BY <1>2, <3>1, Smallest
  <2>2. g[s] = SumStep(f, g, s) /\ h[s] = SumStep(f, h, s)
    BY DEF Sums
  <2>3. s # {}
    BY <2>2 DEF SumStep
  <2>4. (CHOOSE x \in s : TRUE) \in s
    BY <2>3
  <2>5. PICK x \in s : x = CHOOSE y \in s : TRUE
    BY <2>4
  <2>6. g[s \ {x}] = h[s \ {x}]
    BY <2>1
  <2> QED BY <2>2, <2>3, <2>5, <2>6 DEF SumStep
<1> QED BY <1>1, <1>2

\* Every finite set has its sums.
LEMMA SumsExist ==
    ASSUME NEW f, NEW S, IsFiniteSet(S)
    PROVE  \E g : Sums(f, g, S)
<1> DEFINE bad == {s \in SUBSET S : ~\E g : Sums(f, g, s)}
<1> SUFFICES ASSUME bad # {} PROVE FALSE
  OBVIOUS
<1>1. PICK T \in bad : \A U \in bad : ~(U \subseteq T /\ U # T)
  <2>1. bad \in SUBSET (SUBSET S)
    OBVIOUS
  <2> HIDE DEF bad
  <2> QED BY <2>1, Smallest
<1>2. \A u \in SUBSET T : u # T => Sums(f, TheSums(f, u), u)
  <2> SUFFICES ASSUME NEW u \in SUBSET T, u # T PROVE Sums(f, TheSums(f, u), u)
    OBVIOUS
  <2>1. \E g : Sums(f, g, u)
    BY <1>1
  <2> QED BY Zenon, <2>1 DEF TheSums
<1> DEFINE
      Pick(s) == CHOOSE x \in s : TRUE
      Rest(s) == s \ {Pick(s)}
      g == [s \in SUBSET T |->
              IF s = {} THEN 0 ELSE f[Pick(s)] + TheSums(f, Rest(s))[Rest(s)]]
<1>3. \A s \in SUBSET T : s # {} => Pick(s) \in s
  OBVIOUS
<1>4. \A u \in SUBSET T : u # T => g[u] = TheSums(f, u)[u]
  <2> SUFFICES ASSUME NEW u \in SUBSET T, u # T PROVE g[u] = TheSums(f, u)[u]
    OBVIOUS
  <2>1. TheSums(f, u)[u] = SumStep(f, TheSums(f, u), u)
    <3>1. Sums(f, TheSums(f, u), u)
      BY <1>2
    <3> HIDE DEF g
    <3> QED BY <3>1 DEF Sums
  <2>2. CASE u = {}
    BY <2>1, <2>2 DEF SumStep
  <2>3. CASE u # {}
    <3>1. PICK v \in SUBSET u : v = Rest(u)
      OBVIOUS
    <3>2. v # T /\ v \in SUBSET T
      BY <3>1
    <3>3. Sums(f, [s \in SUBSET v |-> TheSums(f, u)[s]], v)
      BY <1>2, SumsOnSubsets
    <3>4. IsFiniteSet(v)
      BY <1>1, <3>2, FS_Subset
    <3>5. TheSums(f, v) = [s \in SUBSET v |-> TheSums(f, u)[s]]
      BY <1>2, <3>2, <3>3, <3>4, SumsAreUnique
    <3>6. TheSums(f, v)[v] = TheSums(f, u)[v]
      BY <3>5
    <3> QED BY <2>1, <2>3, <3>1, <3>6 DEF SumStep
  <2> QED BY <2>2, <2>3
<1>5. \A s \in SUBSET T : g[s] = SumStep(f, g, s)
  <2> SUFFICES ASSUME NEW s \in SUBSET T PROVE g[s] = SumStep(f, g, s)
    OBVIOUS
  <2>1. CASE s = {}
    BY <2>1 DEF SumStep
  <2>2. CASE s # {}
    <3>1. PICK v \in SUBSET T : v = Rest(s)
      OBVIOUS
    <3>2. v # T
      BY <1>3, <2>2, <3>1
    <3>3. g[v] = TheSums(f, v)[v]
      BY <1>4, <3>2
    <3>4. g[s] = f[Pick(s)] + TheSums(f, v)[v]
      BY <2>2, <3>1
    <3> QED BY <2>2, <3>1, <3>3, <3>4 DEF SumStep
  <2> QED BY <2>1, <2>2
<1>6. Sums(f, g, T)
  <2>1. g = [s \in SUBSET T |-> g[s]]
    OBVIOUS
  <2> HIDE DEF g
  <2> QED BY <1>5, <2>1 DEF Sums
<1> QED BY <1>1, <1>6

\* The sum unfolds over the subsets of a finite set.
LEMMA SumUnfolds ==
    ASSUME NEW f, NEW S, IsFiniteSet(S)
    PROVE  \A s \in SUBSET S : TheSums(f, S)[s] = SumStep(f, TheSums(f, S), s)
<1>1. Sums(f, TheSums(f, S), S)
  <2>1. \E g : Sums(f, g, S)
    BY SumsExist
  <2> QED BY Zenon, <2>1 DEF TheSums
<1> QED BY <1>1 DEF Sums

\* A sum of integers is one, and changes by what one of them changes.
LEMMA SumChanges ==
    ASSUME NEW S, IsFiniteSet(S), NEW f \in [S -> Int], NEW g \in [S -> Int],
           NEW o \in S, \A x \in S : x # o => g[x] = f[x]
    PROVE  /\ SumFunction(f) \in Int
           /\ SumFunction(g) = SumFunction(f) + (g[o] - f[o])
<1> DEFINE
      F == TheSums(f, S)
      G == TheSums(g, S)
      Good(s) == F[s] \in Int /\ G[s] = F[s] + (IF o \in s THEN g[o] - f[o] ELSE 0)
      bad == {s \in SUBSET S : ~Good(s)}
<1>1. \A s \in SUBSET S : F[s] = SumStep(f, F, s) /\ G[s] = SumStep(g, G, s)
  BY SumUnfolds
<1> HIDE DEF F, G
<1>2. bad = {}
  <2> SUFFICES ASSUME bad # {} PROVE FALSE
    OBVIOUS
  <2>1. PICK s \in bad : \A u \in bad : ~(u \subseteq s /\ u # s)
    <3>1. bad \in SUBSET (SUBSET S)
      OBVIOUS
    <3> HIDE DEF bad
    <3> QED BY <3>1, Smallest
  <2>2. CASE s = {}
    BY <1>1, <2>1, <2>2 DEF SumStep
  <2>3. CASE s # {}
    <3>1. PICK x \in s : x = CHOOSE y \in s : TRUE
      BY <2>3
    <3>2. Good(s \ {x})
      BY <2>1
    <3>3. F[s] = f[x] + F[s \ {x}] /\ G[s] = g[x] + G[s \ {x}]
      BY <1>1, <2>3, <3>1 DEF SumStep
    <3>4. x \in S /\ f[x] \in Int /\ g[x] \in Int /\ f[o] \in Int /\ g[o] \in Int
      BY <3>1
    <3>5. Good(s)
      <4>1. CASE x = o
        BY <3>2, <3>3, <3>4, <4>1
      <4>2. CASE x # o
        BY <3>2, <3>3, <3>4, <4>2
      <4> QED BY <4>1, <4>2
    <3> QED BY <2>1, <3>5
  <2> QED BY <2>2, <2>3
<1>3. Good(S)
  BY <1>2
<1>4. SumFunction(f) = F[S] /\ SumFunction(g) = G[S]
  <2>1. DOMAIN f = S /\ DOMAIN g = S
    OBVIOUS
  <2> QED BY <2>1, SumIsRecursive DEF SumFunction, F, G
<1> QED BY <1>3, <1>4

\* Nothing sums up to nothing.
LEMMA SumOfNothing ==
    ASSUME NEW S, IsFiniteSet(S)
    PROVE  SumFunction([x \in S |-> 0]) = 0
<1> DEFINE f == [x \in S |-> 0]
           F == TheSums(f, S)
           bad == {s \in SUBSET S : F[s] # 0}
<1>1. \A s \in SUBSET S : F[s] = SumStep(f, F, s)
  BY SumUnfolds
<1>0. \A x \in S : f[x] = 0
  OBVIOUS
<1>5. DOMAIN f = S
  OBVIOUS
<1> HIDE DEF F, f
<1>2. bad = {}
  <2> SUFFICES ASSUME bad # {} PROVE FALSE
    OBVIOUS
  <2>1. PICK s \in bad : \A u \in bad : ~(u \subseteq s /\ u # s)
    <3>1. bad \in SUBSET (SUBSET S)
      OBVIOUS
    <3> HIDE DEF bad
    <3> QED BY <1>2, <3>1, Smallest
  <2>2. CASE s = {}
    BY <1>1, <2>1, <2>2 DEF SumStep
  <2>3. CASE s # {}
    <3>1. PICK x \in s : x = CHOOSE y \in s : TRUE
      BY <2>3
    <3>2. F[s \ {x}] = 0
      BY <2>1
    <3>3. F[s] = f[x] + F[s \ {x}]
      BY <1>1, <2>3, <3>1 DEF SumStep
    <3>4. x \in S
      BY <3>1
    <3> QED BY <1>0, <2>1, <3>2, <3>3, <3>4
  <2> QED BY <2>2, <2>3
<1>4. SumFunction(f) = F[S]
  BY <1>5, SumIsRecursive DEF SumFunction, F
<1>6. SumFunction(f) = 0
  BY <1>2, <1>4
<1> QED BY <1>6 DEF f

-----------------------------------------------------------------------------
(* Sums over the parts of a set *)

\* The sum over a part is where the sums over all parts say.
LEMMA SumOnPart ==
    ASSUME NEW S, IsFiniteSet(S), NEW f, NEW T \in SUBSET S
    PROVE  SumFunctionOnSet(f, T) = TheSums(f, S)[T]
<1> DEFINE F == TheSums(f, S)
           G == [s \in SUBSET T |-> F[s]]
<1>1. Sums(f, F, S)
  <2>1. \E g : Sums(f, g, S)
    BY SumsExist
  <2> QED BY Zenon, <2>1 DEF TheSums
<1>2. Sums(f, G, T)
  BY <1>1, SumsOnSubsets
<1>3. IsFiniteSet(T)
  BY FS_Subset
<1>4. Sums(f, TheSums(f, T), T)
  <2>1. \E g : Sums(f, g, T)
    BY <1>3, SumsExist
  <2> QED BY Zenon, <2>1 DEF TheSums
<1> HIDE DEF F
<1>5. TheSums(f, T) = G
  BY <1>2, <1>3, <1>4, SumsAreUnique
<1>6. SumFunctionOnSet(f, T) = TheSums(f, T)[T]
  BY SumIsRecursive
<1> QED BY <1>5, <1>6 DEF F

\* Any element may be taken out of a sum.
LEMMA SumTakesOut ==
    ASSUME NEW S, IsFiniteSet(S), NEW f \in [S -> Nat], NEW T \in SUBSET S
    PROVE  /\ SumFunctionOnSet(f, T) \in Nat
           /\ T = {} => SumFunctionOnSet(f, T) = 0
           /\ \A x \in T : SumFunctionOnSet(f, T) = f[x] + SumFunctionOnSet(f, T \ {x})
<1> DEFINE F == TheSums(f, S)
           Good(s) == F[s] \in Nat /\ \A x \in s : F[s] = f[x] + F[s \ {x}]
           bad == {s \in SUBSET S : ~Good(s)}
<1>1. \A s \in SUBSET S : F[s] = SumStep(f, F, s)
  BY SumUnfolds
<1>2. \A s \in SUBSET S : SumFunctionOnSet(f, s) = F[s]
  BY SumOnPart
<1> HIDE DEF F
<1>3. bad = {}
  <2> SUFFICES ASSUME bad # {} PROVE FALSE
    OBVIOUS
  <2>1. PICK s \in bad : \A u \in bad : ~(u \subseteq s /\ u # s)
    <3>1. bad \in SUBSET (SUBSET S)
      OBVIOUS
    <3> HIDE DEF bad
    <3> QED BY <3>1, Smallest
  <2>0. \A u \in SUBSET s : u # s => Good(u)
    <3> HIDE DEF Good
    <3> QED BY <2>1
  <2>2. s # {}
    <3> SUFFICES ASSUME s = {} PROVE FALSE
      OBVIOUS
    <3>1. F[s] = 0
      BY <1>1 DEF SumStep
    <3> QED BY <2>1, <3>1
  <2>3. PICK y \in s : y = CHOOSE z \in s : TRUE
    BY <2>2
  <2>4. F[s] = f[y] + F[s \ {y}]
    BY <1>1, <2>2, <2>3 DEF SumStep
  <2>5. Good(s \ {y})
    <3> HIDE DEF Good
    <3> QED BY <2>0, <2>3
  <2>6. f[y] \in Nat
    BY <2>3
  <2>7. ASSUME NEW x \in s PROVE F[s] = f[x] + F[s \ {x}]
    <3>1. CASE x = y
      BY <2>4, <3>1
    <3>2. CASE x # y
      <4>1. Good(s \ {x})
        <5> HIDE DEF Good
        <5> QED BY <2>0
      <4>2. F[s \ {y}] = f[x] + F[(s \ {y}) \ {x}]
        BY <2>5, <3>2
      <4>3. F[s \ {x}] = f[y] + F[(s \ {x}) \ {y}]
        BY <3>2, <4>1
      <4>4. (s \ {y}) \ {x} = (s \ {x}) \ {y}
        OBVIOUS
      <4>5. F[(s \ {x}) \ {y}] \in Nat
        <5>1. Good((s \ {x}) \ {y})
          <6> HIDE DEF Good
          <6> QED BY <2>0
        <5> QED BY <5>1
      <4>6. PICK n \in Nat : n = F[(s \ {x}) \ {y}]
        BY <4>5
      <4>7. f[x] \in Nat
        OBVIOUS
      <4>8. F[s \ {y}] = f[x] + n /\ F[s \ {x}] = f[y] + n
        BY <4>2, <4>3, <4>4, <4>6
      <4> HIDE DEF bad, Good
      <4> QED BY <2>4, <2>6, <4>6, <4>7, <4>8
    <3> QED BY <3>1, <3>2
  <2> QED BY <2>1, <2>4, <2>5, <2>6, <2>7
<1>4. Good(T)
  BY <1>3
<1>5. T = {} => F[T] = 0
  BY <1>1 DEF SumStep
<1>6. \A x : T \ {x} \in SUBSET S
  OBVIOUS
<1> QED BY <1>2, <1>4, <1>5, <1>6

\* What two parts cover sums up to no more than both together.
LEMMA SumOfParts ==
    ASSUME NEW S, IsFiniteSet(S), NEW f \in [S -> Nat],
           NEW T \in SUBSET S, NEW A \in SUBSET S, NEW B \in SUBSET S, T \subseteq A \cup B
    PROVE  SumFunctionOnSet(f, T) <= SumFunctionOnSet(f, A) + SumFunctionOnSet(f, B)
<1> DEFINE F(s) == SumFunctionOnSet(f, s)
           Good(s) == \A a, b \in SUBSET S : s \subseteq a \cup b => F(s) <= F(a) + F(b)
           bad == {s \in SUBSET S : ~Good(s)}
<1>0. \A s \in SUBSET S :
        F(s) \in Nat /\ (s = {} => F(s) = 0) /\ \A x \in s : F(s) = f[x] + F(s \ {x})
  <2> SUFFICES ASSUME NEW s \in SUBSET S
      PROVE  F(s) \in Nat /\ (s = {} => F(s) = 0) /\ \A x \in s : F(s) = f[x] + F(s \ {x})
    OBVIOUS
  <2> QED BY SumTakesOut
<1>1. \A s \in SUBSET S : F(s) \in Nat /\ (s = {} => F(s) = 0)
  BY <1>0
<1>2. \A s \in SUBSET S : \A x \in s : F(s) = f[x] + F(s \ {x})
  BY <1>0
<1>3. \A x \in S : f[x] \in Nat
  OBVIOUS
<1> HIDE DEF F
<1>4. bad = {}
  <2> SUFFICES ASSUME bad # {} PROVE FALSE
    OBVIOUS
  <2>1. PICK s \in bad : \A u \in bad : ~(u \subseteq s /\ u # s)
    <3>1. bad \in SUBSET (SUBSET S)
      OBVIOUS
    <3> HIDE DEF bad
    <3> QED BY <3>1, Smallest
  <2>2. ASSUME NEW a \in SUBSET S, NEW b \in SUBSET S, s \subseteq a \cup b
        PROVE  F(s) <= F(a) + F(b)
    <3>1. CASE s = {}
      BY <1>1, <3>1
    <3>2. CASE s # {}
      <4>1. PICK x \in s : TRUE
        BY <3>2
      <4>2. Good(s \ {x}) /\ s \ {x} \in SUBSET S
        BY <2>1
      <4>3. F(s) = f[x] + F(s \ {x})
        BY <1>2
      <4>4. /\ F(a) \in Nat /\ F(b) \in Nat /\ f[x] \in Nat /\ F(s \ {x}) \in Nat
            /\ F(a \ {x}) \in Nat /\ F(b \ {x}) \in Nat
        BY <1>1, <1>3, <4>2
      <4>5. CASE x \in a
        <5>1. F(a) = f[x] + F(a \ {x})
          BY <1>2, <4>5
        <5>2. F(s \ {x}) <= F(a \ {x}) + F(b)
          BY <2>2, <4>2
        <5> QED BY <4>3, <4>4, <5>1, <5>2
      <4>6. CASE x \in b
        <5>1. F(b) = f[x] + F(b \ {x})
          BY <1>2, <4>6
        <5>2. F(s \ {x}) <= F(a) + F(b \ {x})
          BY <2>2, <4>2
        <5> QED BY <4>3, <4>4, <5>1, <5>2
      <4> QED BY <2>2, <4>5, <4>6
    <3> QED BY <3>1, <3>2
  <2> QED BY <2>1, <2>2
<1>5. Good(T)
  BY <1>4
<1> QED BY <1>5 DEF F

\* A part of a part sums up to no more.
LEMMA SumOfLess ==
    ASSUME NEW S, IsFiniteSet(S), NEW f \in [S -> Nat], NEW A \in SUBSET S, NEW T \in SUBSET A
    PROVE  SumFunctionOnSet(f, T) <= SumFunctionOnSet(f, A)
<1>1. SumFunctionOnSet(f, T) <= SumFunctionOnSet(f, A) + SumFunctionOnSet(f, {})
  BY SumOfParts
<1>2. SumFunctionOnSet(f, {}) = 0 /\ SumFunctionOnSet(f, A) \in Nat
  BY SumTakesOut
<1> QED BY <1>1, <1>2

\* One more at a place is one more in the sum, where the place counts.
LEMMA SumOfOneMore ==
    ASSUME NEW S, IsFiniteSet(S), NEW f \in [S -> Nat], NEW T \in SUBSET S, NEW o \in S,
           NEW g \in [S -> Nat],
           \A x \in S : g[x] = f[x] + (IF x = o THEN 1 ELSE 0)
    PROVE  SumFunctionOnSet(g, T) = SumFunctionOnSet(f, T) + (IF o \in T THEN 1 ELSE 0)
<1> DEFINE F(s) == SumFunctionOnSet(f, s)
           G(s) == SumFunctionOnSet(g, s)
           Good(s) == G(s) = F(s) + (IF o \in s THEN 1 ELSE 0)
           bad == {s \in SUBSET S : ~Good(s)}
<1>0. ASSUME NEW s \in SUBSET S
      PROVE  /\ F(s) \in Nat /\ G(s) \in Nat /\ (s = {} => F(s) = 0 /\ G(s) = 0)
             /\ \A x \in s : F(s) = f[x] + F(s \ {x}) /\ G(s) = g[x] + G(s \ {x})
  <2>1. F(s) \in Nat /\ (s = {} => F(s) = 0) /\ \A x \in s : F(s) = f[x] + F(s \ {x})
    BY SumTakesOut
  <2>2. G(s) \in Nat /\ (s = {} => G(s) = 0) /\ \A x \in s : G(s) = g[x] + G(s \ {x})
    BY SumTakesOut
  <2> HIDE DEF F, G
  <2> QED BY <2>1, <2>2
<1>1. \A s \in SUBSET S : F(s) \in Nat /\ G(s) \in Nat /\ (s = {} => F(s) = 0 /\ G(s) = 0)
  BY <1>0
<1>2. \A s \in SUBSET S : \A x \in s : F(s) = f[x] + F(s \ {x}) /\ G(s) = g[x] + G(s \ {x})
  BY <1>0
<1>3. \A x \in S : f[x] \in Nat /\ g[x] = f[x] + (IF x = o THEN 1 ELSE 0)
  OBVIOUS
<1> HIDE DEF F, G
<1>4. bad = {}
  <2> SUFFICES ASSUME bad # {} PROVE FALSE
    OBVIOUS
  <2>1. PICK s \in bad : \A u \in bad : ~(u \subseteq s /\ u # s)
    <3>1. bad \in SUBSET (SUBSET S)
      OBVIOUS
    <3> HIDE DEF bad
    <3> QED BY <3>1, Smallest
  <2>2. s # {}
    BY <1>1, <2>1
  <2>3. PICK x \in s : TRUE
    BY <2>2
  <2>4. Good(s \ {x}) /\ s \ {x} \in SUBSET S
    BY <2>1
  <2>5. F(s) = f[x] + F(s \ {x}) /\ G(s) = g[x] + G(s \ {x})
    BY <1>2
  <2>6. x \in S /\ F(s \ {x}) \in Nat
    BY <1>1, <2>4
  <2>7. Good(s)
    <3>1. CASE x = o
      BY <1>3, <2>4, <2>5, <2>6, <3>1
    <3>2. CASE x # o
      BY <1>3, <2>4, <2>5, <2>6, <3>2
    <3> QED BY <3>1, <3>2
  <2> QED BY <2>1, <2>7
<1>5. Good(T)
  BY <1>4
<1> QED BY <1>5 DEF F, G

\* Nothing at any place sums up to nothing.
LEMMA SumOfZeros ==
    ASSUME NEW S, IsFiniteSet(S), NEW f \in [S -> Nat], NEW T \in SUBSET S,
           \A x \in T : f[x] = 0
    PROVE  SumFunctionOnSet(f, T) = 0
<1> DEFINE F(s) == SumFunctionOnSet(f, s)
           bad == {s \in SUBSET T : F(s) # 0}
<1>0. ASSUME NEW s \in SUBSET T
      PROVE  F(s) \in Nat /\ (s = {} => F(s) = 0) /\ \A x \in s : F(s) = f[x] + F(s \ {x})
  BY SumTakesOut
<1> HIDE DEF F
<1>1. IsFiniteSet(T)
  BY FS_Subset
<1>2. bad = {}
  <2> SUFFICES ASSUME bad # {} PROVE FALSE
    OBVIOUS
  <2>1. PICK s \in bad : \A u \in bad : ~(u \subseteq s /\ u # s)
    <3>1. bad \in SUBSET (SUBSET T)
      OBVIOUS
    <3> HIDE DEF bad
    <3> QED BY <1>1, <3>1, Smallest
  <2>2. PICK x \in s : TRUE
    BY <1>0
  <2>3. F(s \ {x}) = 0 /\ f[x] = 0
    BY <2>1, <2>2
  <2> QED BY <1>0, <2>1, <2>2, <2>3
<1> QED BY <1>2 DEF F

-----------------------------------------------------------------------------
(* Least naturals *)

\* Some naturals have a least: induction over them, likewise.
LEMMA LeastNatural ==
    ASSUME NEW bad \in SUBSET Nat, bad # {}
    PROVE  \E n \in bad : \A m \in bad : n <= m
<1>1. IsWellFoundedOn(OpToRel(<,Nat), Nat)
  BY NatLessThanWellFounded
<1>2. \E n \in bad : \A m \in bad : <<m, n>> \notin OpToRel(<,Nat)
  BY <1>1, WFMin
<1>3. PICK n \in bad : \A m \in bad : <<m, n>> \notin OpToRel(<,Nat)
  BY <1>2
<1>4. \A m \in bad : ~(m < n)
  BY <1>3 DEF OpToRel
<1> QED BY <1>4

-----------------------------------------------------------------------------
(* Those of a sequence that are in a set *)

\* Of the first n, when g holds those of fewer.
KeptStep(q, set, g, n) ==
    IF n = 0 THEN << >> ELSE IF q[n] \in set THEN Append(g[n - 1], q[n]) ELSE g[n - 1]

AllKept(q, set, g, N) == g = [n \in 0 .. N |-> KeptStep(q, set, g, n)]
TheKept(q, set, N) == CHOOSE g : AllKept(q, set, g, N)

LEMMA KeptExist ==
    ASSUME NEW q, NEW set, NEW N \in Nat
    PROVE  \E g : AllKept(q, set, g, N)
<1> DEFINE bad == {n \in Nat : ~\E g : AllKept(q, set, g, n)}
<1> SUFFICES ASSUME bad # {} PROVE FALSE
  OBVIOUS
<1>1. PICK n \in bad : \A m \in bad : n <= m
  <2>1. bad \in SUBSET Nat
    OBVIOUS
  <2> HIDE DEF bad
  <2> QED BY <2>1, LeastNatural
<1>2. CASE n = 0
  <2>1. PICK g : g = [m \in 0 .. 0 |-> << >>]
    OBVIOUS
  <2>2. \A m \in 0 .. 0 : KeptStep(q, set, g, m) = << >>
    BY DEF KeptStep
  <2>3. AllKept(q, set, g, 0)
    BY <2>1, <2>2 DEF AllKept
  <2> QED BY <1>2, <2>3
<1>3. CASE n # 0
  <2>1. n - 1 \in Nat /\ n - 1 \notin bad
    BY <1>1, <1>3
  <2>2. PICK g : AllKept(q, set, g, n - 1)
    BY <2>1
  <2>3. PICK h : h = [m \in 0 .. n |-> IF m = n THEN KeptStep(q, set, g, n) ELSE g[m]]
    OBVIOUS
  <2>4. \A m \in 0 .. n - 1 : g[m] = KeptStep(q, set, g, m) /\ h[m] = g[m]
    <3>1. \A m \in 0 .. n - 1 : g[m] = KeptStep(q, set, g, m)
      BY <2>2 DEF AllKept
    <3>2. \A m \in 0 .. n - 1 : m \in 0 .. n /\ m # n
      BY <2>1
    <3> QED BY <2>3, <3>1, <3>2
  <2>5. \A m \in 0 .. n : m # 0 => m - 1 \in 0 .. n - 1
    BY <2>1
  <2>6. \A m \in 0 .. n : KeptStep(q, set, h, m) = KeptStep(q, set, g, m)
    BY <2>4, <2>5 DEF KeptStep
  <2>7. \A m \in 0 .. n : h[m] = KeptStep(q, set, h, m)
    <3> SUFFICES ASSUME NEW m \in 0 .. n PROVE h[m] = KeptStep(q, set, h, m)
      OBVIOUS
    <3>1. CASE m = n
      BY <2>3, <2>6, <3>1
    <3>2. CASE m # n
      <4>1. m \in 0 .. n - 1
        BY <2>1, <3>2
      <4> QED BY <2>4, <2>6, <4>1
    <3> QED BY <3>1, <3>2
  <2>8. h = [m \in 0 .. n |-> KeptStep(q, set, h, m)]
    <3>1. h = [m \in 0 .. n |-> h[m]]
      BY <2>3
    <3> QED BY <2>7, <3>1
  <2> QED BY <2>8 DEF AllKept
<1> QED BY <1>2, <1>3

\* No two of its places hold the same.
Once(q) == \A i, j \in DOMAIN q : q[i] = q[j] => i = j

\* Those of a sequence in a set are its values that are in the set, and come
\* once when the sequence's do.
LEMMA KeptFacts ==
    ASSUME NEW S, NEW q \in Seq(S), NEW set, NEW r, r = TheKept(q, set, Len(q))[Len(q)]
    PROVE  /\ r \in Seq(S)
           /\ Range(r) = Range(q) \cap set
           /\ Once(q) => Once(r)
<1> DEFINE
      N == Len(q)
      g == TheKept(q, set, N)
      Good(n) ==
          /\ g[n] \in Seq(S)
          /\ \A x : (\E i \in 1 .. Len(g[n]) : g[n][i] = x)
                      <=> (\E i \in 1 .. n : q[i] = x) /\ x \in set
          /\ Once(q) => Once(g[n])
      bad == {n \in 0 .. N : ~Good(n)}
<1>1. N \in Nat /\ DOMAIN q = 1 .. N
  OBVIOUS
<1>2. AllKept(q, set, g, N)
  <2>1. \E h : AllKept(q, set, h, N)
    BY <1>1, KeptExist
  <2> QED BY Zenon, <2>1 DEF TheKept
<1>3. \A n \in 0 .. N : g[n] = KeptStep(q, set, g, n)
  BY <1>2 DEF AllKept
<1> HIDE DEF g, Good
<1>4. bad = {}
  <2> SUFFICES ASSUME bad # {} PROVE FALSE
    OBVIOUS
  <2>1. PICK n \in bad : \A m \in bad : n <= m
    <3>1. bad \in SUBSET Nat
      OBVIOUS
    <3> HIDE DEF bad
    <3> QED BY <3>1, LeastNatural
  <2>2. n # 0
    <3> SUFFICES ASSUME n = 0 PROVE FALSE
      OBVIOUS
    <3>1. g[0] = << >>
      BY <1>1, <1>3 DEF KeptStep
    <3>2. << >> \in Seq(S) /\ Len(<< >>) = 0 /\ DOMAIN << >> = {}
      OBVIOUS
    <3>3. Good(0)
      BY <3>1, <3>2 DEF Good, Once
    <3> QED BY <2>1, <3>3
  <2>3. n \in 1 .. N /\ n - 1 \in 0 .. N
    BY <1>1, <2>2
  <2>4. Good(n - 1)
    <3>1. n - 1 \notin bad
      <4>1. ~(n <= n - 1)
        BY <1>1, <2>3
      <4> QED BY <2>1, <4>1
    <3> QED BY <2>3, <3>1
  <2>5. PICK p : p = g[n - 1]
    OBVIOUS
  <2>6. /\ p \in Seq(S) /\ (Once(q) => Once(p))
        /\ \A x : (\E i \in 1 .. Len(p) : p[i] = x) <=> (\E i \in 1 .. n - 1 : q[i] = x) /\ x \in set
    BY <2>4, <2>5 DEF Good
  <2>7. PICK v \in S : v = q[n]
    BY <1>1, <2>3
  <2>8. g[n] = IF v \in set THEN Append(p, v) ELSE p
    BY <1>3, <2>3, <2>5, <2>7 DEF KeptStep
  <2>9. \A i : i \in 1 .. n <=> i \in 1 .. n - 1 \/ i = n
    BY <2>3
  <2>10. CASE v \notin set
    <3>1. g[n] = p
      BY <2>8, <2>10
    <3>2. Good(n)
      BY <2>6, <2>7, <2>9, <2>10, <3>1 DEF Good
    <3> QED BY <2>1, <3>2
  <2>11. CASE v \in set
    <3>1. g[n] = Append(p, v)
      BY <2>8, <2>11
    <3>0. p \in Seq(S) /\ v \in S
      BY <2>6
    <3>2. PICK k \in Nat : k = Len(p)
      BY <3>0
    <3>3. /\ Append(p, v) \in Seq(S) /\ Len(Append(p, v)) = k + 1
          /\ DOMAIN Append(p, v) = 1 .. k + 1 /\ DOMAIN p = 1 .. k
          /\ Append(p, v)[k + 1] = v /\ \A i \in 1 .. k : Append(p, v)[i] = p[i]
      BY <3>0, <3>2
    <3>4. PICK a : a = Append(p, v)
      OBVIOUS
    <3>5. \A x : (\E i \in 1 .. k + 1 : a[i] = x) <=> (\E i \in 1 .. k : p[i] = x) \/ x = v
      BY <3>2, <3>3, <3>4
    <3>6. \A x : (\E i \in 1 .. k + 1 : a[i] = x) <=> (\E i \in 1 .. n : q[i] = x) /\ x \in set
      BY <2>6, <2>7, <2>9, <2>11, <3>2, <3>5
    <3>7. Once(q) => Once(a)
      <4> SUFFICES ASSUME Once(q) PROVE Once(a)
        OBVIOUS
      <4>1. \A i \in 1 .. k : p[i] # v
        <5> SUFFICES ASSUME NEW i \in 1 .. k, p[i] = v PROVE FALSE
          OBVIOUS
        <5>1. PICK j \in 1 .. n - 1 : q[j] = v
          BY <2>6, <3>2
        <5>2. j \in 1 .. N /\ j # n
          BY <2>3
        <5> QED BY <1>1, <2>3, <2>7, <5>1, <5>2 DEF Once
      <4>2. Once(p)
        BY <2>6
      <4> QED BY <3>2, <3>3, <3>4, <4>1, <4>2 DEF Once
    <3>8. Good(n)
      BY <3>1, <3>3, <3>4, <3>6, <3>7 DEF Good
    <3> QED BY <2>1, <3>8
  <2> QED BY <2>10, <2>11
<1>5. Good(N)
  <2>1. N \in 0 .. N
    BY <1>1
  <2> QED BY <1>4, <2>1
<1>6. r \in Seq(S) /\ DOMAIN r = 1 .. Len(r) /\ (Once(q) => Once(r))
  <2>1. r = g[N]
    BY DEF g
  <2>2. r \in Seq(S) /\ (Once(q) => Once(r))
    BY <1>5, <2>1 DEF Good
  <2> QED BY <2>2
<1>7. \A x : x \in Range(r) <=> x \in Range(q) /\ x \in set
  <2>1. r = g[N]
    BY DEF g
  <2>2. \A x : (\E i \in DOMAIN r : r[i] = x) <=> (\E i \in DOMAIN q : q[i] = x) /\ x \in set
    BY <1>1, <1>5, <1>6, <2>1 DEF Good
  <2> QED BY <2>2 DEF Range
<1> QED BY <1>6, <1>7

\* One sequence after another.
LEMMA JoinFacts ==
    ASSUME NEW S, NEW q \in Seq(S), NEW r \in Seq(S)
    PROVE  /\ q \o r \in Seq(S)
           /\ Range(q \o r) = Range(q) \cup Range(r)
           /\ Once(q) /\ Once(r) /\ Range(q) \cap Range(r) = {} => Once(q \o r)
<1>1. PICK m \in Nat : m = Len(q) /\ DOMAIN q = 1 .. m
  OBVIOUS
<1>2. PICK n \in Nat : n = Len(r) /\ DOMAIN r = 1 .. n
  OBVIOUS
<1>3. PICK t : t = q \o r
  OBVIOUS
<1>4. t \in Seq(S) /\ DOMAIN t = 1 .. m + n
  BY <1>1, <1>2, <1>3
<1>5. \A i \in 1 .. m : t[i] = q[i] /\ i \in 1 .. m + n
  BY <1>1, <1>2, <1>3
<1>6. \A i \in 1 .. n : t[m + i] = r[i] /\ m + i \in 1 .. m + n
  BY <1>1, <1>2, <1>3
<1>7. \A i \in 1 .. m + n : i \in 1 .. m \/ (i - m \in 1 .. n /\ m + (i - m) = i)
  OBVIOUS
<1>8. \A x : x \in Range(q) <=> \E i \in 1 .. m : q[i] = x
  BY <1>1 DEF Range
<1>9. \A x : x \in Range(r) <=> \E i \in 1 .. n : r[i] = x
  BY <1>2 DEF Range
<1>10. \A x : x \in Range(t) <=> \E i \in 1 .. m + n : t[i] = x
  BY <1>4 DEF Range
<1>11. Range(t) = Range(q) \cup Range(r)
  <2>1. ASSUME NEW x \in Range(t) PROVE x \in Range(q) \cup Range(r)
    <3>1. PICK i \in 1 .. m + n : t[i] = x
      BY <1>10
    <3>2. CASE i \in 1 .. m
      BY <1>5, <1>8, <3>1, <3>2
    <3>3. CASE i - m \in 1 .. n /\ m + (i - m) = i
      <4>1. PICK k \in 1 .. n : m + k = i
        BY <3>3
      <4>2. t[i] = r[k]
        BY <1>6, <4>1
      <4> QED BY <1>9, <3>1, <4>2
    <3> QED BY <1>7, <3>2, <3>3
  <2>2. ASSUME NEW x \in Range(q) PROVE x \in Range(t)
    BY <1>5, <1>8, <1>10
  <2>3. ASSUME NEW x \in Range(r) PROVE x \in Range(t)
    <3>1. PICK k \in 1 .. n : r[k] = x
      BY <1>9
    <3>2. t[m + k] = x /\ m + k \in 1 .. m + n
      BY <1>6, <3>1
    <3> QED BY <1>10, <3>2
  <2> QED BY <2>1, <2>2, <2>3
<1>12. ASSUME Once(q), Once(r), Range(q) \cap Range(r) = {} PROVE Once(t)
  <2> SUFFICES ASSUME NEW i \in 1 .. m + n, NEW j \in 1 .. m + n, t[i] = t[j] PROVE i = j
    BY <1>4 DEF Once
  <2>1. \A k \in 1 .. m : t[k] \in Range(q)
    BY <1>5, <1>8
  <2>2. \A k \in 1 .. n : t[m + k] \in Range(r)
    BY <1>6, <1>9
  <2>3. CASE i \in 1 .. m /\ j \in 1 .. m
    BY <1>1, <1>5, <1>12, <2>3 DEF Once
  <2>4. CASE i - m \in 1 .. n /\ m + (i - m) = i
    <3>1. PICK k \in 1 .. n : m + k = i
      BY <2>4
    <3>2. CASE j \in 1 .. m
      BY <1>12, <2>1, <2>2, <3>1, <3>2
    <3>3. CASE j - m \in 1 .. n /\ m + (j - m) = j
      <4>1. PICK l \in 1 .. n : m + l = j
        BY <3>3
      <4>2. r[k] = r[l]
        BY <1>6, <3>1, <4>1
      <4>3. k = l
        BY <1>2, <1>12, <4>2 DEF Once
      <4> QED BY <3>1, <4>1, <4>3
    <3> QED BY <1>7, <3>2, <3>3
  <2>5. CASE i \in 1 .. m /\ j - m \in 1 .. n /\ m + (j - m) = j
    <3>1. PICK k \in 1 .. n : m + k = j
      BY <2>5
    <3> QED BY <1>12, <2>1, <2>2, <2>5, <3>1
  <2> QED BY <1>7, <2>3, <2>4, <2>5
<1> QED BY <1>3, <1>4, <1>11, <1>12

\* One more at its end.
LEMMA AppendFacts ==
    ASSUME NEW S, NEW q \in Seq(S), NEW x \in S
    PROVE  /\ Append(q, x) \in Seq(S)
           /\ Range(Append(q, x)) = Range(q) \cup {x}
           /\ Once(q) /\ x \notin Range(q) => Once(Append(q, x))
<1>1. PICK r : r = <<x>>
  OBVIOUS
<1>2. r \in Seq(S) /\ DOMAIN r = {1} /\ r[1] = x
  BY <1>1
<1>3. Append(q, x) = q \o r
  BY <1>1
<1>4. Range(r) = {x} /\ Once(r)
  BY <1>2 DEF Range, Once
<1> QED BY <1>2, <1>3, <1>4, JoinFacts

\* A part of a sequence.
LEMMA PartFacts ==
    ASSUME NEW S, NEW q \in Seq(S), NEW a \in 1 .. Len(q) + 1, NEW b \in 0 .. Len(q)
    PROVE  /\ SubSeq(q, a, b) \in Seq(S)
           /\ \A x : x \in Range(SubSeq(q, a, b)) <=> \E i \in a .. b : q[i] = x
           /\ Once(q) => Once(SubSeq(q, a, b))
<1>1. Len(q) \in Nat /\ DOMAIN q = 1 .. Len(q) /\ \A i \in 1 .. Len(q) : q[i] \in S
  OBVIOUS
<1>2. PICK n \in Nat : n = IF a <= b THEN b - a + 1 ELSE 0
  <2>1. a <= b => b - a + 1 \in Nat
    BY <1>1
  <2> QED BY <2>1
<1>3. PICK t : t = [i \in 1 .. n |-> q[i + a - 1]]
  OBVIOUS
<1>4. SubSeq(q, a, b) = t
  BY <1>1, <1>2, <1>3
<1>5. \A i \in 1 .. n : i + a - 1 \in a .. b /\ i + a - 1 \in 1 .. Len(q)
  BY <1>1, <1>2
<1>6. \A i \in a .. b : i - a + 1 \in 1 .. n /\ (i - a + 1) + a - 1 = i
  BY <1>1, <1>2
<1>7. t \in Seq(S) /\ DOMAIN t = 1 .. n
  BY <1>1, <1>3, <1>5
<1>8. \A x : x \in Range(t) <=> \E i \in a .. b : q[i] = x
  <2>1. ASSUME NEW x \in Range(t) PROVE \E i \in a .. b : q[i] = x
    <3>1. PICK i \in 1 .. n : t[i] = x
      BY <1>7 DEF Range
    <3> QED BY <1>3, <1>5, <3>1
  <2>2. ASSUME NEW i \in a .. b PROVE q[i] \in Range(t)
    <3>1. PICK k \in 1 .. n : k + a - 1 = i
      BY <1>6
    <3>2. t[k] = q[i]
      BY <1>3, <3>1
    <3> QED BY <1>7, <3>2 DEF Range
  <2> QED BY <2>1, <2>2
<1>9. Once(q) => Once(t)
  <2> SUFFICES ASSUME Once(q), NEW i \in 1 .. n, NEW j \in 1 .. n, t[i] = t[j] PROVE i = j
    BY <1>7 DEF Once
  <2>1. q[i + a - 1] = q[j + a - 1]
    BY <1>3
  <2>2. i + a - 1 = j + a - 1
    BY <1>1, <1>5, <2>1 DEF Once
  <2> QED BY <1>1, <2>2
<1> QED BY <1>4, <1>7, <1>8, <1>9

\* All but one.
LEMMA RemoveFacts ==
    ASSUME NEW S, NEW q \in Seq(S), NEW i \in DOMAIN q, Once(q),
           NEW t, t = SubSeq(q, 1, i - 1) \o SubSeq(q, i + 1, Len(q))
    PROVE  t \in Seq(S) /\ Once(t) /\ Range(t) = Range(q) \ {q[i]}
<1>1. PICK n \in Nat : n = Len(q) /\ DOMAIN q = 1 .. n
  OBVIOUS
<1>2. i \in 1 .. n
  BY <1>1
<1>3. PICK a : a = SubSeq(q, 1, i - 1)
  OBVIOUS
<1>4. PICK b : b = SubSeq(q, i + 1, n)
  OBVIOUS
<1>5. a \in Seq(S) /\ Once(a) /\ \A x : x \in Range(a) <=> \E k \in 1 .. i - 1 : q[k] = x
  <2>1. 1 \in 1 .. n + 1 /\ i - 1 \in 0 .. n
    BY <1>2
  <2> QED BY <1>1, <1>3, <2>1, PartFacts
<1>6. b \in Seq(S) /\ Once(b) /\ \A x : x \in Range(b) <=> \E k \in i + 1 .. n : q[k] = x
  <2>1. i + 1 \in 1 .. Len(q) + 1 /\ Len(q) \in 0 .. Len(q)
    BY <1>1, <1>2
  <2>2. b = SubSeq(q, i + 1, Len(q))
    BY <1>1, <1>4
  <2>3. PICK k \in 1 .. Len(q) + 1 : k = i + 1
    BY <2>1
  <2>4. PICK l \in 0 .. Len(q) : l = Len(q)
    BY <2>1
  <2>5. /\ SubSeq(q, k, l) \in Seq(S) /\ Once(SubSeq(q, k, l))
        /\ \A x : x \in Range(SubSeq(q, k, l)) <=> \E m \in k .. l : q[m] = x
    BY PartFacts
  <2> QED BY <1>1, <2>2, <2>3, <2>4, <2>5
<1>7. \A k, l \in 1 .. n : q[k] = q[l] => k = l
  BY <1>1 DEF Once
<1>8. /\ \A k \in 1 .. i - 1 : k \in 1 .. n /\ k # i /\ k \notin i + 1 .. n
      /\ \A k \in i + 1 .. n : k \in 1 .. n /\ k # i
      /\ \A k \in 1 .. n : k \in 1 .. i - 1 \/ k = i \/ k \in i + 1 .. n
  BY <1>2
<1>9. Range(a) \cap Range(b) = {}
  <2> SUFFICES ASSUME NEW x \in Range(a), x \in Range(b) PROVE FALSE
    OBVIOUS
  <2>1. PICK k \in 1 .. i - 1 : q[k] = x
    BY <1>5
  <2>2. PICK l \in i + 1 .. n : q[l] = x
    BY <1>6
  <2>3. k = l
    BY <1>7, <1>8, <2>1, <2>2
  <2> QED BY <1>8, <2>3
<1>10. \A x : x \in Range(q) <=> \E k \in 1 .. n : q[k] = x
  BY <1>1 DEF Range
<1>11. Range(a) \cup Range(b) = Range(q) \ {q[i]}
  <2>1. ASSUME NEW x \in Range(a) \cup Range(b) PROVE x \in Range(q) /\ x # q[i]
    <3>1. PICK k \in 1 .. n : q[k] = x /\ k # i
      BY <1>5, <1>6, <1>8, <2>1
    <3> QED BY <1>2, <1>7, <1>10, <3>1
  <2>2. ASSUME NEW x \in Range(q), x # q[i] PROVE x \in Range(a) \cup Range(b)
    <3>1. PICK k \in 1 .. n : q[k] = x
      BY <1>10
    <3>2. k \in 1 .. i - 1 \/ k \in i + 1 .. n
      BY <1>8, <2>2, <3>1
    <3> QED BY <1>5, <1>6, <3>1, <3>2
  <2> QED BY <2>1, <2>2
<1>12. t = a \o b
  BY <1>1, <1>3, <1>4
<1>13. a \in Seq(S) /\ b \in Seq(S) /\ Once(a) /\ Once(b)
  BY <1>5, <1>6
<1>14. a \o b \in Seq(S) /\ Once(a \o b) /\ Range(a \o b) = Range(a) \cup Range(b)
  BY <1>9, <1>13, JoinFacts
<1> QED BY <1>11, <1>12, <1>14

\* Two change places.
Swapped(q, i, j) == [[q EXCEPT ![i] = q[j]] EXCEPT ![j] = q[i]]

LEMMA SwapFacts ==
    ASSUME NEW S, NEW q \in Seq(S), NEW i \in DOMAIN q, NEW j \in DOMAIN q, NEW t,
           t = Swapped(q, i, j)
    PROVE  t \in Seq(S) /\ Range(t) = Range(q) /\ (Once(q) => Once(t))
<1>1. PICK n \in Nat : n = Len(q) /\ DOMAIN q = 1 .. n
  OBVIOUS
<1>2. t = [k \in 1 .. n |-> IF k = j THEN q[i] ELSE IF k = i THEN q[j] ELSE q[k]]
  BY <1>1 DEF Swapped
<1>3. i \in 1 .. n /\ j \in 1 .. n /\ \A k \in 1 .. n : q[k] \in S
  BY <1>1
<1>4. DOMAIN t = 1 .. n /\ t[j] = q[i] /\ t[i] = q[j]
      /\ \A k \in 1 .. n : k # i /\ k # j => t[k] = q[k]
  BY <1>2, <1>3
<1>5. t \in Seq(S)
  BY <1>2, <1>3
<1>6. Range(t) = Range(q)
  BY <1>1, <1>3, <1>4 DEF Range
<1>7. Once(q) => Once(t)
  BY <1>1, <1>3, <1>4 DEF Once
<1> QED BY <1>5, <1>6, <1>7

\* A sequence that has each value once has as many places as values.
LEMMA OnceCounts ==
    ASSUME NEW S, NEW q \in Seq(S), Once(q)
    PROVE  Cardinality(Range(q)) = Len(q)
<1>1. PICK n \in Nat : n = Len(q) /\ DOMAIN q = 1 .. n /\ q = [i \in 1 .. n |-> q[i]]
  OBVIOUS
<1>2. q \in [1 .. n -> Range(q)]
  BY <1>1 DEF Range
<1>3. \A i, j \in 1 .. n : q[i] = q[j] => i = j
  BY <1>1 DEF Once
<1>4. \A x \in Range(q) : \E i \in 1 .. n : q[i] = x
  BY <1>1 DEF Range
<1>5. q \in Bijection(1 .. n, Range(q))
  BY <1>2, <1>3, <1>4 DEF Bijection, Injection, Surjection, IsInjective
<1>6. ExistsBijection(1 .. n, Range(q))
  BY <1>5 DEF ExistsBijection
<1> QED BY <1>1, <1>6, FS_CountingElements

=============================================================================
